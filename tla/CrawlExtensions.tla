-------------------------- MODULE CrawlExtensions --------------------------
(***************************************************************************)
(* What the operational extensions (operational.py, telnet.py,             *)
(* remote_control.py) hold while a crawl runs, and the counts after which  *)
(* CloseSpider ends it.  An extension takes its task, log handler or       *)
(* server when one signal is sent and gives it back at another; signals.py *)
(* calls the receivers of a signal in the order of their connection, one   *)
(* after the other, and an error of one does not keep it from the others.  *)
(***************************************************************************)
EXTENDS Naturals, Sequences, SequencesExt

CONSTANTS
    Connected,     \* the extensions that are enabled, in the order of their connection
    PageLimit, ItemLimit, ErrorLimit, BarrenLimit     \* the counts of CloseSpider; 0 is none

\* The signals at which an extension takes what it holds and gives it back, and whether that
\* is a task of the event loop.
Ticker(name, from, to) == [name |-> name, from |-> from, to |-> to, task |-> TRUE]
Holder(name, from, to) == [name |-> name, from |-> from, to |-> to, task |-> FALSE]

MemoryUsage == Ticker("MemoryUsage", "engine_started", "engine_stopped")
CloseSpider == Ticker("CloseSpider", "spider_opened", "spider_closed")
LogStats == Ticker("LogStats", "spider_opened", "spider_closed")
PeriodicLog == Ticker("PeriodicLog", "spider_opened", "spider_closed")
LogCount == Holder("LogCount", "spider_opened", "spider_closed")
TelnetConsole == Holder("TelnetConsole", "engine_started", "engine_stopped")
RemoteControl == Holder("RemoteControl", "engine_started", "engine_stopped")

ASSUME ExtensionsAssumption ==
    /\ Connected \in Seq({MemoryUsage, CloseSpider, LogStats, PeriodicLog,
                          LogCount, TelnetConsole, RemoteControl})
    /\ IsInjective(Connected)
    /\ {PageLimit, ItemLimit, ErrorLimit, BarrenLimit} \subseteq Nat

Tickers == {e \in Range(Connected) : e.task}

\* SignalManager._matching_receivers, taken once when the signal is sent.
Receivers(signal) == SelectSeq(Connected, LAMBDA e : signal \in {e.from, e.to})

\* What is held after the first n receivers of the signal have run.
Taken(held, signal, n) == held \cup Range(SubSeq(Receivers(signal), 1, n))
Returned(held, signal, n) == held \ Range(SubSeq(Receivers(signal), 1, n))

AllTook(held, signal) == Taken(held, signal, Len(Receivers(signal)))
AllReturned(held, signal) == Returned(held, signal, Len(Receivers(signal)))

\* A receiver that raises takes nothing: the servers stop themselves first.  The signal goes on.
AllTookBut(held, signal, e) == AllTook(held, signal) \ {e}

\* A sender that is cancelled leaves the receivers after the one it waits for.
SomeTook(held, signal) == {Taken(held, signal, n) : n \in 0 .. Len(Receivers(signal))}
SomeReturned(held, signal) == {Returned(held, signal, n) : n \in 0 .. Len(Receivers(signal))}

\* The receivers whose stop waits for a task in _cancel_task, and the one waited for now.
NextReturn(held, signal) ==
    SelectSeq(Receivers(signal), LAMBDA e : e \in held \cap Tickers)

-----------------------------------------------------------------------------
(* CloseSpider counts from the signals of the crawl. *)

Counts0 == [pages |-> 0, items |-> 0, errors |-> 0, barren |-> 0]

\* A count that has no limit is never read: it is left out.
Up(count, limit) == IF limit = 0 THEN count ELSE count + 1

Page(n) == [n EXCEPT !.pages = Up(@, PageLimit), !.barren = Up(@, BarrenLimit)]
Item(n) == [n EXCEPT !.items = Up(@, ItemLimit), !.barren = 0]
Error(n) == [n EXCEPT !.errors = Up(@, ErrorLimit)]

PageCloses(n) ==
    \/ PageLimit > 0 /\ n.pages = PageLimit
    \/ BarrenLimit > 0 /\ n.barren >= BarrenLimit
ItemCloses(n) == ItemLimit > 0 /\ n.items = ItemLimit
ErrorCloses(n) == ErrorLimit > 0 /\ n.errors = ErrorLimit
=============================================================================
