--------------------------- MODULE CrawlSettings ---------------------------
(***************************************************************************)
(* The way of one setting to a crawl (settings.py, crawler.py, addons.py): *)
(* the runner of a process collects it from its sources, the crawler takes *)
(* it over, the spider and the add-ons have their say, then it is frozen.  *)
(***************************************************************************)
EXTENDS Integers, Sequences, SequencesExt

CONSTANTS
    Values,        \* values of the setting
    DefaultValue,  \* the one of DEFAULT_SETTINGS
    None,          \* what a setting is that nobody has set
    MaxWrites      \* bound on the writes of one start

ASSUME SettingsAssumption == DefaultValue \in Values /\ None \notin Values /\ MaxWrites \in Nat

\* PRIORITIES
default == 0
addon == 15
project == 20
spider == 30
cmdline == 40

VARIABLES
    stage,      \* "down", "runner", "crawler", "frozen"
    runner,     \* the SettingsAttribute in the settings of the runner
    crawler,    \* and in those of the crawler
    merged,     \* the crawler was made by hand, with settings of its own
    writes      \* history: the writes of this start, [value, priority]; a deletion has the value None
settingsVars == <<stage, runner, crawler, merged, writes>>

Default == [value |-> DefaultValue, priority |-> default]

\* No attribute: any priority is higher.
Absent == [value |-> None, priority |-> default - 1]

NoWrites == [runner |-> <<>>, crawler |-> <<>>]

SettingsInit ==
    /\ stage = "down" /\ runner = Default /\ crawler = Default
    /\ merged = FALSE /\ writes = NoWrites

\* Mutant: a write of the same priority comes too late.
SetFirst(a, v, priority) ==
    IF priority <= a.priority THEN a ELSE [value |-> v, priority |-> priority]

\* SettingsAttribute.set
Set(a, v, priority) ==
    IF priority < a.priority THEN a ELSE [value |-> v, priority |-> priority]

\* BaseSettings.setdefault
SetDefault(a, v, priority) == IF a = Absent THEN [value |-> v, priority |-> priority] ELSE a

\* BaseSettings.delete: only from the priority of the setting upwards.
Delete(a, priority) == IF priority >= a.priority THEN Absent ELSE a

\* add_to_list, remove_from_list: the value changes and the priority does not.
AmendedPriority(a) == IF a = Absent THEN default ELSE a.priority

Written(who, v, priority) ==
    /\ Len(writes.runner) + Len(writes.crawler) < MaxWrites
    /\ writes' = [writes EXCEPT ![who] = Append(@, [value |-> v, priority |-> priority])]

\* A new process; its runner starts from the defaults.
Boot ==
    /\ stage = "down"
    /\ stage' = "runner"
    /\ UNCHANGED <<runner, crawler, merged, writes>>

\* The project's settings, the command line and load_pre_crawler_settings.
RunnerWrites ==
    /\ stage = "runner"
    /\ \E v \in Values, priority \in {addon, project, cmdline} :
          /\ Written("runner", v, priority)
          /\ runner' = Set(runner, v, priority)
    /\ UNCHANGED <<stage, crawler, merged>>

\* Crawler.__init__ with a copy of the runner's settings.
CreateCrawler ==
    /\ stage = "runner" /\ ~merged
    /\ stage' = "crawler"
    /\ crawler' = runner
    /\ UNCHANGED <<runner, merged, writes>>

\* Crawler.__init__ with settings of its own, before it is given to the runner.
OwnSettings ==
    /\ stage = "runner" /\ merged' = TRUE
    /\ \/ ~merged /\ UNCHANGED <<crawler, writes>>
       \/ \E v \in Values, priority \in (IF merged THEN {spider} ELSE {project, spider}) :
             /\ Written("crawler", v, priority)
             /\ crawler' = Set(crawler, v, priority)
    /\ UNCHANGED <<stage, runner>>

\* create_crawler with a Crawler: the runner's settings of a higher priority are set in it.
TakeCrawler ==
    /\ stage = "runner" /\ merged
    /\ stage' = "crawler"
    /\ crawler' = IF crawler.priority < runner.priority
                  THEN Set(crawler, runner.value, runner.priority) ELSE crawler
    /\ UNCHANGED <<runner, merged, writes>>

\* Spider.update_settings of a crawler that has a copy, then update_settings of the add-ons.
CrawlerPriorities == IF merged THEN {addon, cmdline} ELSE {addon, spider, cmdline}

CrawlerWrites ==
    /\ stage = "crawler"
    /\ \E v \in Values, priority \in CrawlerPriorities \cup {AmendedPriority(crawler)} :
          /\ Written("crawler", v, priority)
          /\ crawler' = Set(crawler, v, priority)
    /\ UNCHANGED <<stage, runner, merged>>

CrawlerDefaults ==
    /\ stage = "crawler"
    /\ \E v \in Values, priority \in CrawlerPriorities :
          /\ IF crawler = Absent THEN Written("crawler", v, priority) ELSE UNCHANGED writes
          /\ crawler' = SetDefault(crawler, v, priority)
    /\ UNCHANGED <<stage, runner, merged>>

\* delete raises KeyError for a setting that is not there.
CrawlerDeletes ==
    /\ stage = "crawler" /\ crawler # Absent
    /\ \E priority \in CrawlerPriorities :
          /\ Written("crawler", None, priority)
          /\ crawler' = Delete(crawler, priority)
    /\ UNCHANGED <<stage, runner, merged>>

\* The settings of the crawler change no more; the runner's and the priorities are not read again,
\* and the history ends.
Freeze ==
    /\ stage = "crawler"
    /\ stage' = "frozen"
    /\ runner' = Default
    /\ merged' = FALSE
    /\ writes' = NoWrites
    /\ crawler' = [crawler EXCEPT !.priority = default]

SettingsStep ==
    \/ Boot \/ RunnerWrites \/ CreateCrawler \/ OwnSettings \/ TakeCrawler
    \/ CrawlerWrites \/ CrawlerDefaults \/ CrawlerDeletes \/ Freeze

-----------------------------------------------------------------------------

\* The writes of a list, 0 for the default, that no later deletion of at least their priority
\* has undone; a deletion of a lower priority than one of them undoes nothing.
Live(list) ==
    LET PriorityOf(i) == IF i = 0 THEN default ELSE list[i].priority
        live[n \in 0..Len(list)] ==
            IF n = 0 THEN {0}
            ELSE IF list[n].value # None THEN live[n - 1] \cup {n}
            ELSE IF \A i \in live[n - 1] : PriorityOf(i) <= list[n].priority THEN {}
            ELSE live[n - 1]
    IN  live[Len(list)]

\* What a list of writes should come to: the last one of the highest priority.
Winner(list) ==
    LET At(i) == IF i = 0 THEN Default ELSE list[i]
        live == Live(list)
    IN  IF live = {} THEN Absent
        ELSE At(CHOOSE i \in live : \A j \in live :
                    /\ At(j).priority <= At(i).priority
                    /\ j > i => At(j).priority < At(i).priority)

\* What a crawler has is the last value of the highest priority among those of the runner and
\* those of the crawler, in this order, that were not deleted since: whichever way the crawler
\* came to its settings, the runner's at its creation or, for a crawler made before, later and
\* one by one.
HighestPriorityWins ==
    stage = "crawler" => crawler = Winner(writes.runner \o writes.crawler)
=============================================================================
