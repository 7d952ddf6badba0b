---------------------------- MODULE DocumentIntake -----------------------------
(***************************************************************************)
(* How vendor bills arrive (accounting/views.py ap_inbox and               *)
(* ap_email_webhook): an upload of one file, or a mail with attachments    *)
(* posted by the mail provider, which is external and posts again what it  *)
(* got no answer to.  For each acceptable file the request writes an       *)
(* APDocument, then a bill.received BusEvent, then the document's link to  *)
(* the event: three commits.                                               *)
(***************************************************************************)
EXTENDS Integers, Sequences, SequencesExt, FiniteSets

CONSTANTS IntakeRequests, Mails,   \* sequences of files a request may carry
          MaxDocuments

(* A file as the checks see it. *)
Files == {"bill", "other_type", "too_large", "not_attachment"}

ASSUME IntakeAssumption == Mails \subseteq Seq(Files) /\ MaxDocuments \in Nat

VARIABLES documents,   \* Sequence of APDocument rows [by, file, chain, busEvent]
          events,      \* Sequence of bill.received rows [document, chain]
          intakePc,    \* request -> "idle", "files", "stored", "emitted", "answered", "died"
          mail,        \* request -> the files it came with
          position,    \* request -> the file it is at
          current,     \* request -> the document being written
          route        \* request -> the recipient is a tenant's address
intakeVars == <<documents, events, intakePc, mail, position, current, route>>

NoChain == 0

IntakeInit == /\ documents = <<>>
              /\ events = <<>>
              /\ intakePc = [r \in IntakeRequests |-> "idle"]
              /\ mail = [r \in IntakeRequests |-> <<>>]
              /\ position = [r \in IntakeRequests |-> 1]
              /\ current = [r \in IntakeRequests |-> 0]
              /\ route = [r \in IntakeRequests |-> FALSE]

(* A valid token, and a recipient that names a tenant, or does not. *)
Receive(r, m, known) ==
    /\ intakePc[r] = "idle"
    /\ intakePc' = [intakePc EXCEPT ![r] = IF known THEN "files" ELSE "answered"]
    /\ mail' = [mail EXCEPT ![r] = m]
    /\ route' = [route EXCEPT ![r] = known]
    /\ UNCHANGED <<documents, events, position, current>>

Acceptable(f) == f = "bill"

Here(r) == mail[r][position[r]]
MoreFiles(r) == intakePc[r] = "files" /\ position[r] <= Len(mail[r])

SkipFile(r) == /\ MoreFiles(r)
               /\ ~Acceptable(Here(r))
               /\ position' = [position EXCEPT ![r] = @ + 1]
               /\ UNCHANGED <<documents, events, intakePc, mail, current, route>>

StoreDocument(r) ==
    /\ MoreFiles(r)
    /\ Acceptable(Here(r))
    /\ Len(documents) < MaxDocuments
    /\ documents' = Append(documents, [by |-> r, file |-> position[r],
                                       chain |-> NoChain, busEvent |-> 0])
    /\ current' = [current EXCEPT ![r] = Len(documents) + 1]
    /\ intakePc' = [intakePc EXCEPT ![r] = "stored"]
    /\ UNCHANGED <<events, mail, position, route>>

(* _dispatch_bill_received: the event names the document, under a chain of *)
(* its own, here the event's number.                                       *)
CreateEvent(r) ==
    /\ intakePc[r] = "stored"
    /\ events' = Append(events, [document |-> current[r], chain |-> Len(events) + 1])
    /\ intakePc' = [intakePc EXCEPT ![r] = "emitted"]
    /\ UNCHANGED <<documents, mail, position, current, route>>

EventOfLatest(r) == Len(events)
EventOf(r) == CHOOSE e \in DOMAIN events : events[e].document = current[r]

LinkDocument(r) ==
    /\ intakePc[r] = "emitted"
    /\ LET e == EventOf(r) IN
       documents' = [documents EXCEPT ![current[r]].chain = events[e].chain,
                                      ![current[r]].busEvent = e]
    /\ position' = [position EXCEPT ![r] = @ + 1]
    /\ intakePc' = [intakePc EXCEPT ![r] = "files"]
    /\ UNCHANGED <<events, mail, current, route>>

Answer(r) == /\ intakePc[r] = "files"
             /\ position[r] > Len(mail[r])
             /\ intakePc' = [intakePc EXCEPT ![r] = "answered"]
             /\ UNCHANGED <<documents, events, mail, position, current, route>>

(* The process dies, or a commit fails: no answer, or an error. *)
DieInIntake(r) == /\ intakePc[r] \in {"files", "stored", "emitted"}
                  /\ intakePc' = [intakePc EXCEPT ![r] = "died"]
                  /\ UNCHANGED <<documents, events, mail, position, current, route>>

IntakeNext == \E r \in IntakeRequests :
    \/ \E m \in Mails, known \in BOOLEAN : Receive(r, m, known)
    \/ SkipFile(r) \/ StoreDocument(r) \/ CreateEvent(r) \/ LinkDocument(r)
    \/ Answer(r) \/ DieInIntake(r)

IntakeSpec == IntakeInit /\ [][IntakeNext]_intakeVars

-----------------------------------------------------------------------------
(* Properties. *)

(* What the sender was told was taken was taken: an answered request left, *)
(* for each acceptable file and for no other, exactly one document, linked *)
(* to the event that names it, in its chain.  A mail to no tenant is       *)
(* answered and leaves nothing.                                            *)
AnsweredIsComplete ==
    \A r \in IntakeRequests : intakePc[r] = "answered" =>
        LET mine == {d \in DOMAIN documents : documents[d].by = r}
            wanted == {k \in DOMAIN mail[r] : route[r] /\ mail[r][k] = "bill"}
        IN /\ {documents[d].file : d \in mine} = wanted
           /\ Cardinality(mine) = Cardinality(wanted)
           /\ \A d \in mine : /\ documents[d].busEvent # 0
                              /\ events[documents[d].busEvent].document = d
                              /\ events[documents[d].busEvent].chain = documents[d].chain

(* Two documents never share a chain or an event, so a chain leads to one  *)
(* bill; and an event whose document does not lead back to it belongs to a *)
(* request that is under way or died.                                      *)
ChainsLeadToOneBill ==
    /\ \A c, d \in DOMAIN documents :
          c # d /\ documents[c].chain # NoChain => documents[c].chain # documents[d].chain
    /\ \A e \in DOMAIN events :
          LET d == events[e].document IN
          documents[d].busEvent # e => intakePc[documents[d].by] \in {"emitted", "died"}

(* The intake takes what it says it takes, and each bill leads to its own  *)
(* event and back, however requests interleave and wherever they die.      *)
IntakeIsComplete == AnsweredIsComplete /\ ChainsLeadToOneBill
=============================================================================
