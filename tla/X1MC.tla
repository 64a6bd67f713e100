--------------------------------- MODULE X1MC ---------------------------------
(***************************************************************************)
(* The three X1 fronts behind one bot, of which a deployment runs one, for *)
(* TLC.  The same people, updates and faults face each of them.            *)
(***************************************************************************)
EXTENDS X1Ingress, X1Direct

SomeNames == {"c1", "c2", "ann", "eve", "m1", "m2", "m3", "m4"}

Shape(chat, user, message, body) ==
  [update |-> 0, message |-> message, chat |-> chat, user |-> user,
   body |-> body, length |-> 1]

\* A message of an allowed user, one of an allowed user in another chat, one
\* of somebody else, and one whose caption is blank.
FewShapes == {Shape("c1", "ann", "m1", "text"), Shape("c2", "ann", "m2", "text"),
              Shape("c1", "eve", "m3", "text"), Shape("c1", "ann", "m4", "blank")}

Ann == {"ann"}

\* A payload without an update_id.
ByHand == {Shape("c1", "ann", "m1", "text")}

\* The session mode only matters to the direct chatbot.
X1Init ==
  /\ TelegramInit /\ IngressInit /\ DirectInit
  /\ front = "direct" \/ mode = CHOOSE m \in Modes : TRUE

\* Only the direct chatbot does anything with the chat, and the webhook knows
\* no allow list: two messages that differ in nothing a front reads are one.
X1Send ==
  /\ Send
  /\ front = "direct" \/ sent'[Len(sent')].chat = "c1"
  /\ front = "webhook" => sent'[Len(sent')].user = "ann"

X1Next ==
  \/ front # "direct" /\ IngressNext /\ UNCHANGED directVars
  \/ DirectNext /\ UNCHANGED ingressVars
  \/ X1Send /\ UNCHANGED <<ingressVars, directVars>>

X1Spec ==
  /\ X1Init
  /\ [][X1Next]_<<allVars, directVars>>
  /\ IngressFairness
  /\ DirectFairness

\* No update blocks the front for ever: each is confirmed in the end, one that
\* cannot be parsed, or over which a write or a call failed, included.
EveryUpdateIsTaken ==
  \A u \in Updates : u \in pending ~> u \notin pending

=============================================================================
