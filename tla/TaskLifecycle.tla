---------------------------- MODULE TaskLifecycle ----------------------------
(***************************************************************************)
(* What the task queue promises about one row of the tasks table, with     *)
(* workers, sessions, messages and failures hidden: the status graph       *)
(* pending -> running -> (pending | completed | failed), a bounded number  *)
(* of attempts, at most one prompt per attempt, and at most one report,    *)
(* which carries the final status.                                         *)
(***************************************************************************)
EXTENDS Naturals, Sequences

CONSTANTS Tasks,      \* the rows that may ever be created
          MaxRetries  \* how often a failed attempt is put back in the queue, in Nat

VARIABLES status,    \* status of each row, "absent" before createTask
          attempts,  \* failed attempts counted on the row
          prompts,   \* prompts the agent server accepted, per attempt
          told       \* the outcomes reported to the task's channel

vars == <<status, attempts, prompts, told>>

Terminal == {"completed", "failed"}

Status == {"absent", "pending", "running"} \cup Terminal

Init ==
  /\ status = [t \in Tasks |-> "absent"]
  /\ attempts = [t \in Tasks |-> 0]
  /\ prompts = [t \in Tasks |-> [k \in 0..MaxRetries |-> 0]]
  /\ told = [t \in Tasks |-> <<>>]

Move(t, from, to) ==
  /\ status[t] = from
  /\ status' = [status EXCEPT ![t] = to]

Submit(t) ==
  /\ Move(t, "absent", "pending")
  /\ UNCHANGED <<attempts, prompts, told>>

Start(t) ==
  /\ Move(t, "pending", "running")
  /\ UNCHANGED <<attempts, prompts, told>>

\* The agent is asked at most once per attempt, while the task is running.
Ask(t) ==
  /\ status[t] = "running"
  /\ attempts[t] \in 0..MaxRetries
  /\ prompts[t][attempts[t]] = 0
  /\ prompts' = [prompts EXCEPT ![t][attempts[t]] = 1]
  /\ UNCHANGED <<status, attempts, told>>

Retry(t) ==
  /\ Move(t, "running", "pending")
  /\ attempts[t] < MaxRetries
  /\ attempts' = [attempts EXCEPT ![t] = @ + 1]
  /\ UNCHANGED <<prompts, told>>

Complete(t) ==
  /\ Move(t, "running", "completed")
  /\ UNCHANGED <<attempts, prompts, told>>

GiveUp(t) ==
  /\ Move(t, "running", "failed")
  /\ attempts' = [attempts EXCEPT ![t] = @ + 1]
  /\ UNCHANGED <<prompts, told>>

\* A restart fails the tasks that were in the hands of the lost worker.
Interrupt(t) ==
  /\ Move(t, "running", "failed")
  /\ UNCHANGED <<attempts, prompts, told>>

Tell(t) ==
  /\ status[t] \in Terminal
  /\ told[t] = <<>>
  /\ told' = [told EXCEPT ![t] = <<status[t]>>]
  /\ UNCHANGED <<status, attempts, prompts>>

Next ==
  \E t \in Tasks : \/ Submit(t) \/ Start(t) \/ Ask(t) \/ Retry(t) \/ Complete(t)
                   \/ GiveUp(t) \/ Interrupt(t) \/ Tell(t)

Spec == Init /\ [][Next]_vars
==============================================================================
