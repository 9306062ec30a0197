---------------------------- MODULE MCAwareness ----------------------------
(***************************************************************************)
(* Instances of Awareness.  Parts switches on a few loops at a time, so    *)
(* that the parts that share only the ledger add up instead of multiplying.*)
(***************************************************************************)
EXTENDS Awareness, TLC

CONSTANTS s1, s2

\* Both tasks listen to the authority, the second to the model too.
TwoFilters == (s1 :> {"authority"}) @@ (s2 :> {"authority", "model"})

ForegroundItems == {<<"action", 0>>, <<"run", 0>>, <<"change", 0>>}
AllItems == ForegroundItems \cup ({"action", "run"} \X (1..MaxRuns))

Parts == {{"push", "chat", "owner"}, {"model", "inbox", "no key"}, {"scheduler"},
          {"scheduler", "chat"}, {"scheduler", "owner"}, {"units", "inbox", "no key"}, {"rdc", "inbox"}}

\* Timed tasks beside one that wakes on what they ask; two that wake on a conversation.
Kinds2(a, b) == (s1 :> a) @@ (s2 :> b)
TaskKinds ==
    [p \in Parts |->
       CASE p = {"scheduler"} -> {Kinds2("once", "event"), Kinds2("interval", "event")}
         [] p = {"scheduler", "chat"} -> {Kinds2("event", "event")}
         [] p = {"scheduler", "owner"} -> {Kinds2("once", "none")}
         [] OTHER -> {Kinds2("none", "none")}]

\* One interval task and the scheduler alone.
SchedulerAlone == {{"scheduler"}}
OneInterval == [p \in SchedulerAlone |-> {s1 :> "interval"}]
=============================================================================
