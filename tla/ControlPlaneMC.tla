---------------------------- MODULE ControlPlaneMC ----------------------------
(***************************************************************************)
(* Instances of ControlPlane for TLC.                                      *)
(***************************************************************************)
EXTENDS ControlPlane, TLC

Entry(id, db, url) == [id |-> id, db |-> db, url |-> url, complete |-> TRUE, enabled |-> TRUE]

\* Two projects, the second under a name made up for it, beside an entry without a server
\* and one whose id is taken; nothing usable.
SomeRegistries ==
  {<<Entry("a", "a.db", "one"), [Entry("b", "b.db", "two") EXCEPT !.complete = FALSE],
     Entry(None, "c.db", "two"), Entry("a", "c.db", "two")>>,
   <<[Entry("a", "a.db", "one") EXCEPT !.enabled = FALSE]>>}

TwoServers == [one |-> {"s1"}, two |-> {"s2"}, local |-> {}]

=============================================================================
