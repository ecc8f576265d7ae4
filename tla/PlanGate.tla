------------------------------- MODULE PlanGate -------------------------------
(***************************************************************************)
(* `viper-boxd plan` (main.rs): a manifest is accepted for a profile when  *)
(* it is valid and says the same as the profile.  The two lists are text   *)
(* in the manifest and arrays in the profile.  A text is whether it is     *)
(* there and in brackets, and the items between its commas; an item is a   *)
(* number, 0 one of only white space, so that <<0>> is an empty pair of    *)
(* brackets.  parse_manifest and validate are another crate's (jfp_box).   *)
(***************************************************************************)
EXTENDS Naturals, Sequences, FiniteSets, Functions

Blank == 0

\* There is always something between commas, be it nothing but white space.
Texts == [bracketed : BOOLEAN, items : Seq(Nat) \ {<<>>}]

\* sort, by what it leaves: the items of the list in their order.
Sorted(list) ==
    LET p == CHOOSE p \in Bijection(DOMAIN list, DOMAIN list) :
                 \A i, j \in DOMAIN list : i < j => list[p[i]] <= list[p[j]]
    IN  [i \in DOMAIN list |-> list[p[i]]]

\* What parse_list returns: ok with the items, or an error.
ParseList(text) ==
    IF ~text.bracketed THEN [ok |-> FALSE, items |-> <<>>]
    ELSE IF text.items = <<Blank>> THEN [ok |-> TRUE, items |-> <<>>]
    ELSE [ok |-> Blank \notin Range(text.items), items |-> text.items]

\* Mutant of CompareList: the order of the manifest matters.
CompareListUnsorted(text, values) ==
    LET parsed == ParseList(text) IN parsed.ok /\ parsed.items = Sorted(values)

\* compare_list(..).unwrap_or(false): both are sorted and compared; a field
\* that is missing is a text without brackets here.
CompareList(text, values) ==
    LET parsed == ParseList(text)
    IN parsed.ok /\ Sorted(parsed.items) = Sorted(values)

\* run_plan: the codes it collects, none for an accepted plan.  A manifest
\* that does not parse is compared with nothing.
Errors(manifest, profile) ==
    (IF manifest.parses /\ manifest.valid THEN {} ELSE {"VIOLATIONS"}) \cup
    {field \in {"MODE", "NETWORK", "GATEWAYS", "TOOLS"} :
        /\ manifest.parses
        /\ CASE field = "MODE" -> manifest.mode # profile.mode
             [] field = "NETWORK" -> manifest.network # profile.network
             [] field = "GATEWAYS" -> ~CompareList(manifest.gateways, profile.gateways)
             [] field = "TOOLS" -> ~CompareList(manifest.tools, profile.tools)}

\* plan_status, and the exit code of the command.
PlanExit(manifest, profile) == IF Errors(manifest, profile) = {} THEN 0 ELSE 1
-----------------------------------------------------------------------------
\* The list a text stands for, if it is one: what is between the commas,
\* nothing blank, and no item at all between empty brackets.
Denotes(text, items) ==
    /\ text.bracketed
    /\ \/ items = <<>> /\ text.items = <<Blank>>
       \/ items = text.items /\ Blank \notin Range(items) /\ items # <<>>

\* The same items, each as often.
SameBag(s, t) == \A x \in Range(s) \cup Range(t) :
    Cardinality({i \in DOMAIN s : s[i] = x}) = Cardinality({i \in DOMAIN t : t[i] = x})

Says(text, values) == \E n \in 0..Len(text.items) :
    LET items == SubSeq(text.items, 1, n) IN Denotes(text, items) /\ SameBag(items, values)

\* What a plan is accepted for: a valid manifest that demands exactly the
\* modes, gateways and tools the profile grants, in any order.
Agree(manifest, profile) ==
    /\ manifest.parses /\ manifest.valid
    /\ manifest.mode = profile.mode /\ manifest.network = profile.network
    /\ Says(manifest.gateways, profile.gateways)
    /\ Says(manifest.tools, profile.tools)
=============================================================================
