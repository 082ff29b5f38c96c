--------------------------- MODULE TicketRequests ---------------------------
(***************************************************************************)
(* WhatsappTicketRequestsService: a visitor asks for the ticket by sending *)
(* the message of a registration's request link over WhatsApp.  The first  *)
(* account that does so is bound to the link.  The provider delivers each  *)
(* message to a webhook, more than once if it is not answered, and several *)
(* deliveries are handled at once.  Links of other registrations do not    *)
(* meet this one.  What becomes of the notification is in                  *)
(* WhatsAppDelivery, how the ticket is made in TicketFiles.                *)
(***************************************************************************)
EXTENDS Naturals

CONSTANTS
  Deliveries,   \* webhook payloads, told apart by the id of their message
  Payload,      \* what each holds: secret, event, fromMe, direction, isGroup,
                \* jid, senderPn, names (the registration) and token
  Handlers,     \* webhook calls under way
  None,
  MaxDrops,    \* bound on handlers that die
  MaxChanges    \* bound on what administrators do to the registration

\* firstString: the provider has several places for a field, and the first that
\* is filled counts.
First(here, there) == IF here # "" THEN here ELSE there

\* extractIncomingMessage.
Incoming(p) ==
  [event |-> p.event, names |-> p.names, token |-> p.token,
   outgoing |-> p.fromMe \/ p.direction = "outgoing",
   group |-> p.isGroup \/ p.jid = "group",
   sender |-> First(p.senderPn, p.jid)]

Sender(d) == Incoming(Payload[d]).sender

ASSUME RequestAssumption ==
  /\ MaxDrops \in Nat /\ MaxChanges \in Nat
  /\ None \notin Deliveries /\ None \notin {Sender(d) : d \in Deliveries}

VARIABLES
  status,     \* Registration.status, "none" or "removed"
  link,       \* the ticketRequest columns of the registration
  delivery,   \* WebhookDelivery.status
  recipient,  \* account that the notification of a delivery goes to
  pc, cur,    \* next step of a handler, and its delivery
  dropped,    \* deliveries whose handler died (history)
  drops, changes

handlers == <<pc, cur>>
limits == <<drops, changes>>
requestVars == <<status, link, delivery, recipient, handlers, dropped, limits>>

NoLink == [made |-> FALSE, expired |-> FALSE, phone |-> None, consumed |-> FALSE]
Settled == {"PROCESSED", "REJECTED", "IGNORED"}
From(h) == Sender(cur[h])

RequestTypeOK ==
  /\ status \in {"none", "ACTIVE", "BLOCKED", "removed"}
  /\ link \in [made : BOOLEAN, expired : BOOLEAN, consumed : BOOLEAN,
               phone : {Sender(d) : d \in Deliveries} \cup {None}]
  /\ delivery \in [Deliveries -> {"NONE", "RECEIVED"} \cup Settled]
  /\ recipient \in [Deliveries -> {Sender(d) : d \in Deliveries} \cup {None}]
  /\ pc \in [Handlers -> {"idle", "check", "claim", "bind", "reread", "resolve", "notify",
                          "consume", "PROCESSED", "REJECTED", "IGNORED"}]
  /\ cur \in [Handlers -> Deliveries \cup {None}]
  /\ dropped \subseteq Deliveries
  /\ drops \in Nat /\ changes \in Nat

Goto(h, step) == pc' = [pc EXCEPT ![h] = step] /\ UNCHANGED cur

-----------------------------------------------------------------------------
(* The link.                                                               *)

\* PublicService.register makes the registration, and the link after it.
Register ==
  /\ status = "none"
  /\ status' = "ACTIVE"
  /\ UNCHANGED <<link, delivery, recipient, handlers, dropped, limits>>

\* persistUniqueToken: a token no other registration has is bound to nobody.
NewLink == [NoLink EXCEPT !.made = TRUE]

\* createForRegistration, called once, by the registration's own request.
CreateLink ==
  /\ status \in {"ACTIVE", "BLOCKED"} /\ ~link.made
  /\ link' = NewLink
  /\ UNCHANGED <<status, delivery, recipient, handlers, dropped, limits>>

Expire ==
  /\ link.made /\ ~link.expired
  /\ link' = [link EXCEPT !.expired = TRUE]
  /\ UNCHANGED <<status, delivery, recipient, handlers, dropped, limits>>

\* An administrator blocks the registration, activates it, or removes it with
\* its notifications.
Administer ==
  /\ changes < MaxChanges /\ changes' = changes + 1
  /\ \/ status = "ACTIVE" /\ status' = "BLOCKED" /\ UNCHANGED <<link, recipient>>
     \/ status = "BLOCKED" /\ status' = "ACTIVE" /\ UNCHANGED <<link, recipient>>
     \/ /\ status \in {"ACTIVE", "BLOCKED"}
        /\ status' = "removed" /\ link' = NoLink
        /\ recipient' = [d \in Deliveries |-> None]
  /\ UNCHANGED <<delivery, handlers, dropped, drops>>

-----------------------------------------------------------------------------
(* handleWasenderWebhook.                                                  *)

\* validateWebhookSecret: one of the headers holds the secret.
HasSecret(d) == Payload[d].secret

\* A delivery that is known is answered as a duplicate, whatever became of it.
Receive(h, d) ==
  /\ pc[h] = "idle" /\ HasSecret(d)
  /\ delivery[d] = "NONE"
  /\ delivery' = [delivery EXCEPT ![d] = "RECEIVED"]
  /\ pc' = [pc EXCEPT ![h] = "check"]
  /\ cur' = [cur EXCEPT ![h] = d]
  /\ UNCHANGED <<status, link, recipient, dropped, limits>>

\* Only messages that visitors send in a chat of their own are requests.
Relevant(m) == m.event = "messages.received" /\ ~m.outgoing /\ ~m.group

\* The message names the registration and its token, and has a sender.
Addressed(m) ==
  /\ m.names /\ status = "ACTIVE"
  /\ m.token /\ link.made /\ ~link.expired
  /\ m.sender # ""

Check(h) ==
  /\ pc[h] = "check"
  /\ LET m == Incoming(Payload[cur[h]]) IN
     Goto(h, CASE ~Relevant(m) -> "IGNORED"
               [] Relevant(m) /\ ~Addressed(m) -> "REJECTED"
               [] Relevant(m) /\ Addressed(m) -> "claim")
  /\ UNCHANGED <<status, link, delivery, recipient, dropped, limits>>

\* claimTicketRequestSender: the link is read first.
Valid == link.made /\ ~link.expired

Claim(h) ==
  /\ pc[h] = "claim"
  /\ Goto(h, IF Valid /\ link.phone = None THEN "bind"
             ELSE IF Valid /\ link.phone = From(h) THEN "resolve" ELSE "REJECTED")
  /\ UNCHANGED <<status, link, delivery, recipient, dropped, limits>>

\* Mutant: the update does not ask whether the link is bound by now.
BindAnyway(h) ==
  /\ pc[h] = "bind"
  /\ IF link.made THEN link' = [link EXCEPT !.phone = From(h)] /\ Goto(h, "resolve")
     ELSE Goto(h, "reread") /\ UNCHANGED link
  /\ UNCHANGED <<status, delivery, recipient, dropped, limits>>

\* updateMany asks again whether the link is unbound, and whether it was valid
\* when it was read.
Bind(h) ==
  /\ pc[h] = "bind"
  /\ IF link.made /\ link.phone = None
     THEN link' = [link EXCEPT !.phone = From(h)] /\ Goto(h, "resolve")
     ELSE Goto(h, "reread") /\ UNCHANGED link
  /\ UNCHANGED <<status, delivery, recipient, dropped, limits>>

\* Another delivery was faster: was it of the same account?
Reread(h) ==
  /\ pc[h] = "reread"
  /\ Goto(h, IF Valid /\ link.phone = From(h) THEN "resolve" ELSE "REJECTED")
  /\ UNCHANGED <<status, link, delivery, recipient, dropped, limits>>

\* resolveUsableForRegistration finds or makes the ticket, or cannot; the url
\* must be public.
Resolve(h) ==
  /\ pc[h] = "resolve"
  /\ \/ status \in {"ACTIVE", "BLOCKED"} /\ Goto(h, "notify")
     \/ Goto(h, "REJECTED")
  /\ UNCHANGED <<status, link, delivery, recipient, dropped, limits>>

\* The registration is read again, and a log made for the account.
Sent(h) == status = "ACTIVE" /\ recipient' = [recipient EXCEPT ![cur[h]] = From(h)]

\* Mutant: what sendRegistrationTicketImage throws is not caught.
NotifyOrThrow(h) ==
  /\ pc[h] = "notify"
  /\ \/ Sent(h) /\ Goto(h, "consume")
     \/ /\ pc' = [pc EXCEPT ![h] = "idle"] /\ cur' = [cur EXCEPT ![h] = None]
        /\ UNCHANGED recipient
  /\ UNCHANGED <<status, link, delivery, dropped, limits>>

\* Mutant: a registration that is not ACTIVE is passed over.
NotifyOrSkip(h) ==
  /\ pc[h] = "notify"
  /\ Sent(h) \/ UNCHANGED recipient
  /\ Goto(h, "consume")
  /\ UNCHANGED <<status, link, delivery, dropped, limits>>

\* sendRegistrationTicketImage throws if the registration is not ACTIVE any
\* more, or if the database or the queue fails, also after the log was made.
Notify(h) ==
  /\ pc[h] = "notify"
  /\ \/ Sent(h) /\ Goto(h, "consume")
     \/ (Sent(h) \/ UNCHANGED recipient) /\ Goto(h, "REJECTED")
  /\ UNCHANGED <<status, link, delivery, dropped, limits>>

\* Only a link that is still there is marked as consumed.
Consume(h) ==
  /\ pc[h] = "consume"
  /\ link' = IF link.made THEN [link EXCEPT !.consumed = TRUE] ELSE link
  /\ Goto(h, "PROCESSED")
  /\ UNCHANGED <<status, delivery, recipient, dropped, limits>>

\* markDelivery, and the answer to the provider.
Mark(h) ==
  /\ pc[h] \in Settled
  /\ delivery' = [delivery EXCEPT ![cur[h]] = pc[h]]
  /\ pc' = [pc EXCEPT ![h] = "idle"]
  /\ cur' = [cur EXCEPT ![h] = None]
  /\ UNCHANGED <<status, link, recipient, dropped, limits>>

\* The handler dies, or its next access to the database fails.
Die(h) ==
  /\ pc[h] # "idle"
  /\ drops < MaxDrops /\ drops' = drops + 1
  /\ dropped' = dropped \cup {cur[h]}
  /\ pc' = [pc EXCEPT ![h] = "idle"]
  /\ cur' = [cur EXCEPT ![h] = None]
  /\ UNCHANGED <<status, link, delivery, recipient, changes>>

-----------------------------------------------------------------------------
RequestInit ==
  /\ status = "none"
  /\ link = NoLink
  /\ delivery = [d \in Deliveries |-> "NONE"]
  /\ recipient = [d \in Deliveries |-> None]
  /\ pc = [h \in Handlers |-> "idle"]
  /\ cur = [h \in Handlers |-> None]
  /\ dropped = {}
  /\ drops = 0
  /\ changes = 0

Handle(h) ==
  \/ Check(h) \/ Claim(h) \/ Bind(h) \/ Reread(h)
  \/ Resolve(h) \/ Notify(h) \/ Consume(h) \/ Mark(h)

RequestNext ==
  \/ Register \/ CreateLink \/ Expire \/ Administer
  \/ \E h \in Handlers : Handle(h) \/ Die(h) \/ \E d \in Deliveries : Receive(h, d)

RequestSpec == RequestInit /\ [][RequestNext]_requestVars

\* A webhook call that was accepted goes on.
FairRequests == RequestSpec /\ \A h \in Handlers : WF_requestVars(Handle(h))

-----------------------------------------------------------------------------
(* Properties.                                                             *)

\* The ticket goes to one WhatsApp account, the one the link is bound to,
\* although deliveries of different accounts are handled at once, and each reads
\* the link, binds it and sends in steps of its own.
OneSender == \A d \in Deliveries : recipient[d] # None => recipient[d] = link.phone

\* A link counts as consumed only after a ticket was sent for it, and a delivery
\* as PROCESSED only after its own, unless the registration was removed.
ConsumedWasSent ==
  /\ link.consumed => \E d \in Deliveries : recipient[d] # None
  /\ status # "removed" =>
       \A d \in Deliveries : delivery[d] = "PROCESSED" => recipient[d] # None

\* A delivery is recorded before it is handled, and its redelivery is ignored:
\* the handler must settle it, whatever the registration, the ticket and the
\* notification come to, unless it dies.
ReceivedIsSettled ==
  \A d \in Deliveries :
    (delivery[d] = "RECEIVED") ~> (delivery[d] \in Settled \/ d \in dropped)
=============================================================================
