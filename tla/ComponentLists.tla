---------------------------- MODULE ComponentLists ----------------------------
(***************************************************************************)
(* The settings that list components (components.py, settings.py): what    *)
(* SpiderOxide and a project say under *_BASE and under the name itself,   *)
(* and the order of the components that are built from it.                 *)
(*                                                                         *)
(* A setting is a dict or a list, its entries in the order of insertion.   *)
(* An entry refers to a component by an import path or by the object       *)
(* itself; one with the priority None is not enabled.                      *)
(***************************************************************************)
EXTENDS Integers, SequencesExt

CONSTANTS
    ObjectAt,     \* the object that each import path leads to
    DefinedAt,    \* the path an object is defined at, of which others may be aliases
    Unconfigured  \* objects whose construction raises NotConfigured

ASSUME PathsAssumption ==
    \A path \in DOMAIN ObjectAt : ObjectAt[DefinedAt[ObjectAt[path]]] = ObjectAt[path]

IsPath(reference) == reference \in DOMAIN ObjectAt

LoadObject(reference) == IF IsPath(reference) THEN ObjectAt[reference] ELSE reference

Enabled(entry) == entry.enabled

\* Two paths that lead to the same object: no component is built.
Clashes(entries) ==
    \E i, j \in DOMAIN entries :
        /\ i # j /\ Enabled(entries[i]) /\ Enabled(entries[j])
        /\ LoadObject(entries[i].ref) = LoadObject(entries[j].ref)

References(entries) == [i \in DOMAIN entries |-> entries[i].ref]

\* By priority, and among equals in the order they are written.
ComponentReferences(setting) ==
    LET enabled == SelectSeq(setting.entries, Enabled)
        Sooner(i, j) ==
            \/ enabled[i].priority < enabled[j].priority
            \/ enabled[i].priority = enabled[j].priority /\ i < j
    IN  IF setting.kind = "list" THEN References(setting.entries)
        ELSE LET order == SortSeq([i \in DOMAIN enabled |-> i], Sooner)
             IN  [n \in DOMAIN order |-> enabled[order[n]].ref]

\* Assignment to a key of a dict, which keeps its place, and removal.
Put(entries, entry) ==
    IF \E i \in DOMAIN entries : entries[i].ref = entry.ref
    THEN [i \in DOMAIN entries |-> IF entries[i].ref = entry.ref THEN entry ELSE entries[i]]
    ELSE Append(entries, entry)

Without(entries, reference) == SelectSeq(entries, LAMBDA entry : entry.ref # reference)

-----------------------------------------------------------------------------
(* merged_component_references *)

Identified(entry) == [entry EXCEPT !.ref = LoadObject(@)]

BasePaths(base) ==
    UNION {{entry.ref, DefinedAt[LoadObject(entry.ref)]} :
             entry \in {e \in ToSet(base) : Enabled(e)}}

\* A path that disables a component is one that the base names it by, or its own; another
\* alias of it disables nothing.
Disables(entry, base) == IsPath(entry.ref) => entry.ref \in BasePaths(base)

Merged(base, custom) ==
    FoldLeft(LAMBDA merged, entry :
                IF Enabled(entry) THEN Put(merged, Identified(entry))
                ELSE IF Disables(entry, base) THEN Without(merged, LoadObject(entry.ref))
                ELSE merged,
             FoldLeft(LAMBDA merged, entry : Put(merged, Identified(entry)),
                      <<>>, SelectSeq(base, Enabled)),
             custom)

MergedReferences(base, custom) ==
    IF base.kind = "dict" /\ custom.kind = "dict"
    THEN ComponentReferences([kind |-> "dict", entries |-> Merged(base.entries, custom.entries)])
    ELSE FoldLeft(LAMBDA merged, reference :
                    IF Contains(merged, LoadObject(reference)) THEN merged
                    ELSE Append(merged, LoadObject(reference)),
                  <<>>, ComponentReferences(base) \o ComponentReferences(custom))

\* build_components
BuildComponents(base, custom) ==
    SelectSeq(MergedReferences(base, custom), LAMBDA component : component \notin Unconfigured)

-----------------------------------------------------------------------------
(* What an add-on does to the project's dict. *)

Naming(entries, component) ==
    SelectSeq(entries, LAMBDA entry : LoadObject(entry.ref) = component)

\* set_in_component_priority_dict
SetIn(entries, component, priority) ==
    Put(SelectSeq(entries, LAMBDA e : ~(IsPath(e.ref) /\ LoadObject(e.ref) = component)),
        [ref |-> component, enabled |-> TRUE, priority |-> priority])

\* setdefault_in_component_priority_dict
SetDefaultIn(entries, component, priority) ==
    IF Naming(entries, component) # <<>> THEN entries
    ELSE Append(entries, [ref |-> component, enabled |-> TRUE, priority |-> priority])

\* replace_in_component_priority_dict, where the old component is enabled
ReplaceIn(entries, old, new) ==
    Put(SelectSeq(entries, LAMBDA entry : LoadObject(entry.ref) # old),
        [Last(Naming(entries, old)) EXCEPT !.ref = new])
=============================================================================
