--------------------------- MODULE EntryLifecycle ---------------------------
(***************************************************************************)
(* What the local ledger promises about its journal entries (JournalEntry  *)
(* and LocalGLConnector docstrings): a draft is posted once, under a       *)
(* number that its journal handed out to it, numbers come one after the    *)
(* other, an entry that has a number keeps it, also when it moves to       *)
(* another journal, and a posted entry is not cancelled.  A standalone     *)
(* post makes, numbers and posts its entry at once.  A person may correct  *)
(* an entry in the admin's form, where it goes on under its number, delete *)
(* it, or set the number its journal hands out next.  An entry that two    *)
(* requests held at the same time may be overwritten, but only with its    *)
(* own numbers.                                                            *)
(***************************************************************************)
EXTENDS Naturals

CONSTANTS Entries, Journals, NoJournal, NoNumber, MaxNumber
VARIABLES status,
          journal,  \* entry -> its journal
          number,   \* entry -> the journal and number it carries, or NoNumber
          next,     \* journal -> the number it hands out next
          given,    \* journal, number -> entries the number was handed out to
          raced     \* entries two requests have held at once

entryVars == <<status, journal, number, next, given, raced>>

Numbers == Journals \X (1 .. MaxNumber)
Present == {"draft", "posted", "cancelled"}

Init == /\ status = [e \in Entries |-> "absent"]
        /\ journal = [e \in Entries |-> NoJournal]
        /\ number = [e \in Entries |-> NoNumber]
        /\ next = [j \in Journals |-> 1]
        /\ given = [j \in Journals |-> [n \in 1 .. MaxNumber |-> {}]]
        /\ raced = {}

IsOwn(e, n) == n \in Numbers /\ e \in given[n[1]][n[2]]

Draft(e, j) == /\ status[e] = "absent"
               /\ status' = [status EXCEPT ![e] = "draft"]
               /\ journal' = [journal EXCEPT ![e] = j]
               /\ UNCHANGED <<number, next, given, raced>>

HandOut(e, j) == /\ next[j] <= MaxNumber
                 /\ given' = [given EXCEPT ![j][next[j]] = @ \cup {e}]
                 /\ next' = [next EXCEPT ![j] = @ + 1]

(* A number of the entry's own journal, for an entry that has none. *)
Reserve(e, j) == /\ e \in raced \/ (journal[e] = j /\ number[e] = NoNumber)
                 /\ HandOut(e, j)
                 /\ UNCHANGED <<status, journal, number, raced>>

Post(e, n) == /\ status[e] = "draft"
              /\ IsOwn(e, n)
              /\ number[e] \in {NoNumber, n}
              /\ status' = [status EXCEPT ![e] = "posted"]
              /\ number' = [number EXCEPT ![e] = n]
              /\ UNCHANGED <<journal, next, given, raced>>

PostAtOnce(e, j) == /\ status[e] = "absent"
                    /\ HandOut(e, j)
                    /\ status' = [status EXCEPT ![e] = "posted"]
                    /\ journal' = [journal EXCEPT ![e] = j]
                    /\ number' = [number EXCEPT ![e] = <<j, next[j]>>]
                    /\ UNCHANGED raced

Cancel(e) == /\ status[e] \in {"draft", "cancelled"}
             /\ status' = [status EXCEPT ![e] = "cancelled"]
             /\ UNCHANGED <<journal, number, next, given, raced>>

Correct(e, s, j) == /\ status[e] \in Present
                    /\ status' = [status EXCEPT ![e] = s]
                    /\ journal' = [journal EXCEPT ![e] = j]
                    /\ UNCHANGED <<number, next, given, raced>>

Delete(e) == /\ status[e] \in Present
             /\ status' = [status EXCEPT ![e] = "deleted"]
             /\ number' = [number EXCEPT ![e] = NoNumber]
             /\ raced' \in {raced, raced \cup {e}}
             /\ UNCHANGED <<journal, next, given>>

Renumber(j, n) == /\ next' = [next EXCEPT ![j] = n]
                  /\ UNCHANGED <<status, journal, number, given, raced>>

Race(e) == /\ raced' = raced \cup {e}
           /\ UNCHANGED <<status, journal, number, next, given>>

Overwrite(e, s, j, n) == /\ e \in raced
                         /\ n = NoNumber \/ IsOwn(e, n)
                         /\ status' = [status EXCEPT ![e] = s]
                         /\ journal' = [journal EXCEPT ![e] = j]
                         /\ number' = [number EXCEPT ![e] = n]
                         /\ UNCHANGED <<next, given, raced>>

Next == \/ \E e \in Entries :
              \/ Cancel(e) \/ Delete(e) \/ Race(e)
              \/ \E n \in Numbers : Post(e, n)
              \/ \E j \in Journals :
                     \/ Draft(e, j) \/ Reserve(e, j) \/ PostAtOnce(e, j)
                     \/ \E s \in Present :
                            \/ Correct(e, s, j)
                            \/ \E n \in Numbers \cup {NoNumber} : Overwrite(e, s, j, n)
        \/ \E j \in Journals, n \in 1 .. MaxNumber + 1 : Renumber(j, n)

Spec == Init /\ [][Next]_entryVars
=============================================================================
