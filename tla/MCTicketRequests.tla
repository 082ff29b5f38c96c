-------------------------- MODULE MCTicketRequests --------------------------
(* Small instances of TicketRequests for TLC.                              *)
EXTENDS TicketRequests

CONSTANTS h1, h2, none

Request(p) == [secret |-> TRUE, event |-> "messages.received", fromMe |-> FALSE,
               direction |-> "", isGroup |-> FALSE, jid |-> p, senderPn |-> "",
               names |-> TRUE, token |-> TRUE]

\* Two messages of one account and one of another, one the service itself sent,
\* and a forged call.
FivePayloads == <<
  Request("a"), Request("b"), [Request("lid") EXCEPT !.senderPn = "a"],
  [Request("a") EXCEPT !.fromMe = TRUE], [Request("a") EXCEPT !.secret = FALSE] >>
=============================================================================
