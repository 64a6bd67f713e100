----------------------------- MODULE X2QueueMC -----------------------------
(* Instances of the task queue for TLC. *)
EXTENDS X2Queue, TLC

CONSTANTS c1, c2, w1, w2

Telegram(c) == [base |-> "telegram", chat |-> c]
Cli == [base |-> "cli", chat |-> NoChat]

OneChat     == {Telegram(c1)}
TwoChats    == {Telegram(c1), Telegram(c2)}
ChatAndCli  == {Telegram(c1), Cli}
CliOnly     == {Cli}

Chats == Permutations({c1, c2})
WorkersAlike == Permutations({w1, w2})
Alike == Chats \cup WorkersAlike
=============================================================================
