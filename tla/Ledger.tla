------------------------------- MODULE Ledger -------------------------------
(***************************************************************************)
(* The local general ledger: JournalEntry rows (accounting/models.py), the *)
(* per-journal number sequence, and whatever changes them: the admin's     *)
(* bulk post and cancel, its change forms of entries, of lines and of      *)
(* journals, its deletions, and the standalone connector's                 *)
(* post_journal_entry (accounting/local_gl.py).                            *)
(*                                                                         *)
(* A request reads its entry into a copy, checks the copy, and saves the   *)
(* whole row from the copy later; nothing locks the entry.  Only the       *)
(* journal's sequence is read under a row lock.  pc[t]:                    *)
(*   "idle"     no request                                                 *)
(*   "loaded"   entry copied, state check passed on the copy               *)
(*   "checked"  post(): lines validated, number still to be reserved       *)
(*   "locked"   next_entry_name: journal row locked and read               *)
(*   "saving"   post(): number known, row not saved yet                    *)
(*   "local"    post_journal_entry: its transaction holds the journal lock *)
(*                                                                         *)
(* JournalEntry.name is the journal that handed the number out, and the    *)
(* number; the prefix is its text.                                         *)
(***************************************************************************)
EXTENDS Naturals, FiniteSets

CONSTANTS Threads, NoThread,
          Entries,             \* JournalEntry primary keys
          NoEntry, NoName,
          Journals, NoJournal,
          MaxNumber,           \* bound on the numbers a journal hands out
          Acts,                \* what requests do with an entry
          Mortal               \* threads whose process may die

ASSUME LedgerAssumption == /\ NoThread \notin Threads
                           /\ NoEntry \notin Entries
                           /\ NoJournal \notin Journals
                           /\ MaxNumber \in Nat
                           /\ NoName \notin Journals \X (1 .. MaxNumber)
                           /\ Acts \subseteq {"post", "cancel", "edit"}
                           /\ Mortal \subseteq Threads

VARIABLES state,      \* entry -> JournalEntry.state, "absent" or "deleted"
          journal,    \* entry -> its journal
          name,       \* entry -> JournalEntry.name, NoName is ''
          balanced,   \* entry -> two lines or more, equal non-zero totals
          sequence,   \* journal -> Journal.next_sequence
          lockedBy,   \* journal -> thread holding its row lock
          pc, act, cur, copyJournal, copyName, number,   \* locals of requests
          owner,      \* journal, number -> entries it was reserved for (history)
          raced,      \* entries two requests held at once (history)
          interrupted,\* entries whose request died (history)
          edited,     \* entries saved or deleted by hand (history)
          unchecked,  \* entries written by hand past post()'s check (history)
          rewound,    \* journals whose form lowered next_sequence (history)
          advanced    \* journals whose form raised next_sequence (history)

entryVars == <<state, journal, name, balanced>>
journalVars == <<sequence, lockedBy>>
localVars == <<pc, act, cur, copyJournal, copyName, number>>
byHand == <<edited, unchecked, rewound, advanced>>
history == <<raced, interrupted, byHand>>
vars == <<entryVars, journalVars, localVars, owner, history>>

(* The prefix of journal j before the number n. *)
EntryName(j, n) == <<j, n>>
Names == Journals \X (1 .. MaxNumber)
States == {"draft", "posted", "cancelled"}
Present(s) == s \in States

Init == /\ state = [e \in Entries |-> "absent"]
        /\ journal = [e \in Entries |-> NoJournal]
        /\ name = [e \in Entries |-> NoName]
        /\ balanced = [e \in Entries |-> FALSE]
        /\ sequence = [j \in Journals |-> 1]
        /\ lockedBy = [j \in Journals |-> NoThread]
        /\ pc = [t \in Threads |-> "idle"]
        /\ act = [t \in Threads |-> "post"]
        /\ cur = [t \in Threads |-> NoEntry]
        /\ copyJournal = [t \in Threads |-> NoJournal]
        /\ copyName = [t \in Threads |-> NoName]
        /\ number = [t \in Threads |-> 0]
        /\ owner = [j \in Journals |-> [n \in 1 .. MaxNumber |-> {}]]
        /\ raced = {} /\ interrupted = {} /\ edited = {} /\ unchecked = {}
        /\ rewound = {} /\ advanced = {}

Idle(t) == pc[t] = "idle"
Held(e) == \E t \in Threads : cur[t] = e

(* The request is over. *)
Done(t) == /\ pc' = [pc EXCEPT ![t] = "idle"]
           /\ act' = [act EXCEPT ![t] = "post"]
           /\ cur' = [cur EXCEPT ![t] = NoEntry]
           /\ copyJournal' = [copyJournal EXCEPT ![t] = NoJournal]
           /\ copyName' = [copyName EXCEPT ![t] = NoName]
           /\ number' = [number EXCEPT ![t] = 0]

-----------------------------------------------------------------------------
(* Requests on an entry. *)

(* The admin's add form, or post_journal_entry(post=False). *)
CreateDraft(e, j, b) == /\ state[e] = "absent"
                        /\ ~Held(e)
                        /\ state' = [state EXCEPT ![e] = "draft"]
                        /\ journal' = [journal EXCEPT ![e] = j]
                        /\ balanced' = [balanced EXCEPT ![e] = b]
                        /\ UNCHANGED <<name, journalVars, localVars, owner, history>>

PostableUnposted(s) == Present(s) /\ s # "posted"
Postable(s) == s = "draft"

CancellablePosted(s) == Present(s)
Cancellable(s) == Present(s) /\ s # "posted"

Eligible(a, s) == CASE a = "post"   -> Postable(s)
                    [] a = "cancel" -> Cancellable(s)
                    [] a = "edit"   -> Present(s)

(* The queryset or get_object reads the entry; post() and cancel() test    *)
(* the state of that copy and return or raise if it does not fit.          *)
Load(t, e, a) == /\ Idle(t)
                 /\ Eligible(a, state[e])
                 /\ pc' = [pc EXCEPT ![t] = "loaded"]
                 /\ act' = [act EXCEPT ![t] = a]
                 /\ cur' = [cur EXCEPT ![t] = e]
                 /\ copyJournal' = [copyJournal EXCEPT ![t] = journal[e]]
                 /\ copyName' = [copyName EXCEPT ![t] = name[e]]
                 /\ raced' = IF Held(e) THEN raced \cup {e} ELSE raced
                 /\ UNCHANGED <<entryVars, journalVars, number, owner,
                                interrupted, byHand>>

LinesUnchecked(e) == TRUE
LinesOk(e) == balanced[e]

NeedsNumberAlways(t) == TRUE
NeedsNumber(t) == copyName[t] = NoName

(* post(): at least two lines, a non-zero total, debits = credits.  A copy *)
(* that already has a number keeps it.                                     *)
CheckLines(t) == /\ pc[t] = "loaded" /\ act[t] = "post"
                 /\ LinesOk(cur[t])
                 /\ pc' = [pc EXCEPT ![t] = IF NeedsNumber(t) THEN "checked" ELSE "saving"]
                 /\ UNCHANGED <<entryVars, journalVars, act, cur, copyJournal, copyName,
                                number, owner, history>>

(* post() raises ValidationError. *)
RefuseLines(t) == /\ pc[t] = "loaded" /\ act[t] = "post"
                  /\ ~LinesOk(cur[t])
                  /\ Done(t)
                  /\ UNCHANGED <<entryVars, journalVars, owner, history>>

UnlockedRead(j) == TRUE
Unlocked(j) == lockedBy[j] = NoThread

(* Journal.objects.select_for_update().get(pk=self.pk). *)
ReadSequence(t, j) == /\ Unlocked(j)
                      /\ sequence[j] <= MaxNumber
                      /\ lockedBy' = [lockedBy EXCEPT ![j] = t]
                      /\ number' = [number EXCEPT ![t] = sequence[j]]

LockJournal(t) == /\ pc[t] = "checked"
                  /\ ReadSequence(t, copyJournal[t])
                  /\ pc' = [pc EXCEPT ![t] = "locked"]
                  /\ UNCHANGED <<entryVars, sequence, act, cur, copyJournal, copyName,
                                 owner, history>>

Following(n) == n + 1

(* The incremented sequence is saved and the lock released. *)
TakeNumber(t, j) ==
    /\ sequence' = [sequence EXCEPT ![j] = Following(number[t])]
    /\ lockedBy' = [lockedBy EXCEPT ![j] = NoThread]
    /\ owner' = [owner EXCEPT ![j][number[t]] = @ \cup {cur[t]}]

(* next_entry_name commits on its own: no transaction surrounds post(). *)
Reserve(t) == /\ pc[t] = "locked"
              /\ TakeNumber(t, copyJournal[t])
              /\ copyName' = [copyName EXCEPT ![t] = EntryName(copyJournal[t], number[t])]
              /\ pc' = [pc EXCEPT ![t] = "saving"]
              /\ UNCHANGED <<entryVars, act, cur, copyJournal, number, history>>

(* save() without update_fields: every column from the copy; a row that    *)
(* was deleted meanwhile is inserted again.                                *)
SaveRow(t, s, j) == /\ state' = [state EXCEPT ![cur[t]] = s]
                    /\ journal' = [journal EXCEPT ![cur[t]] = j]
                    /\ name' = [name EXCEPT ![cur[t]] = copyName[t]]
                    /\ Done(t)
                    /\ UNCHANGED <<journalVars, owner, raced, interrupted, rewound, advanced>>

SavePosted(t) == /\ pc[t] = "saving"
                 /\ SaveRow(t, "posted", copyJournal[t])
                 /\ UNCHANGED <<balanced, edited, unchecked>>

SaveCancelled(t) == /\ pc[t] = "loaded" /\ act[t] = "cancel"
                    /\ SaveRow(t, "cancelled", copyJournal[t])
                    /\ UNCHANGED <<balanced, edited, unchecked>>

(* post() has looked at the lines of this entry, or somebody posted it. *)
PastCheck(e) == \/ state[e] = "posted"
                \/ \E t \in Threads : cur[t] = e /\ pc[t] \in {"checked", "locked", "saving"}

(* The entry's change form saves any state and journal its selectors       *)
(* offer, and the lines.                                                   *)
SaveForm(t, s, j, b) ==
    /\ pc[t] = "loaded" /\ act[t] = "edit"
    /\ SaveRow(t, s, j)
    /\ balanced' = [balanced EXCEPT ![cur[t]] = b]
    /\ edited' = edited \cup {cur[t]}
    /\ unchecked' = IF s = "posted" \/ PastCheck(cur[t]) THEN unchecked \cup {cur[t]}
                                                         ELSE unchecked

-----------------------------------------------------------------------------
(* post_journal_entry(post=True): create, post and number the entry in one *)
(* transaction; the journal lock is held until it commits.                 *)

StartLocal(t, e, j) == /\ Idle(t)
                       /\ state[e] = "absent"
                       /\ ~Held(e)
                       /\ ReadSequence(t, j)
                       /\ cur' = [cur EXCEPT ![t] = e]
                       /\ copyJournal' = [copyJournal EXCEPT ![t] = j]
                       /\ pc' = [pc EXCEPT ![t] = "local"]
                       /\ UNCHANGED <<entryVars, sequence, act, copyName, owner, history>>

CommitLocal(t) ==
    /\ pc[t] = "local"
    /\ TakeNumber(t, copyJournal[t])
    /\ state' = [state EXCEPT ![cur[t]] = "posted"]
    /\ journal' = [journal EXCEPT ![cur[t]] = copyJournal[t]]
    /\ name' = [name EXCEPT ![cur[t]] = EntryName(copyJournal[t], number[t])]
    /\ balanced' = [balanced EXCEPT ![cur[t]] = TRUE]
    /\ Done(t)
    /\ UNCHANGED history

(* The process dies, or a statement of the transaction raises: an open     *)
(* transaction rolls back with its lock, committed rows stay.              *)
Crash(t) == /\ t \in Mortal
            /\ ~Idle(t)
            /\ lockedBy' = IF pc[t] \in {"locked", "local"}
                           THEN [lockedBy EXCEPT ![copyJournal[t]] = NoThread]
                           ELSE lockedBy
            /\ interrupted' = IF pc[t] = "local" THEN interrupted
                                                 ELSE interrupted \cup {cur[t]}
            /\ Done(t)
            /\ UNCHANGED <<entryVars, sequence, owner, raced, byHand>>

-----------------------------------------------------------------------------
(* The admin's other pages.  Each is one transaction. *)

(* The pages of the lines add, change and delete lines of any entry,       *)
(* posted or not; a changed line may move from entry e to f.               *)
WriteLine(e, f, b, c) ==
    /\ Present(state[e]) /\ Present(state[f])
    /\ balanced' = [balanced EXCEPT ![e] = b, ![f] = c]
    /\ unchecked' = unchecked \cup {x \in {e, f} : PastCheck(x)}
    /\ UNCHANGED <<state, journal, name, journalVars, localVars, owner, raced,
                   interrupted, edited, rewound, advanced>>

(* The change form of a journal saves the whole row, with the sequence     *)
(* that the page showed when it was opened or that was typed into it; the  *)
(* UPDATE waits for the row lock.                                          *)
SaveJournalForm(j, n) ==
    /\ Unlocked(j)
    /\ sequence' = [sequence EXCEPT ![j] = n]
    /\ rewound' = IF n < sequence[j] THEN rewound \cup {j} ELSE rewound
    /\ advanced' = IF n > sequence[j] THEN advanced \cup {j} ELSE advanced
    /\ UNCHANGED <<entryVars, lockedBy, localVars, owner, raced, interrupted,
                   edited, unchecked>>

(* An entry and its lines are deleted, in any state. *)
Delete(e) ==
    /\ Present(state[e])
    /\ state' = [state EXCEPT ![e] = "deleted"]
    /\ name' = [name EXCEPT ![e] = NoName]
    /\ balanced' = [balanced EXCEPT ![e] = FALSE]
    /\ raced' = IF Held(e) THEN raced \cup {e} ELSE raced
    /\ edited' = edited \cup {e}
    /\ unchecked' = IF PastCheck(e) THEN unchecked \cup {e} ELSE unchecked
    /\ UNCHANGED <<journal, journalVars, localVars, owner, interrupted, rewound,
                   advanced>>

Step(t) == \/ CheckLines(t) \/ RefuseLines(t)
           \/ LockJournal(t) \/ Reserve(t)
           \/ SavePosted(t) \/ SaveCancelled(t)
           \/ \E s \in States, j \in Journals, b \in BOOLEAN : SaveForm(t, s, j, b)
           \/ CommitLocal(t)

Work == \/ \E e \in Entries, j \in Journals, b \in BOOLEAN : CreateDraft(e, j, b)
        \/ \E t \in Threads : \/ \E e \in Entries :
                                    \/ \E a \in Acts : Load(t, e, a)
                                    \/ \E j \in Journals : StartLocal(t, e, j)
                              \/ Step(t)
                              \/ Crash(t)

EntryPage == \/ \E e, f \in Entries, b, c \in BOOLEAN : WriteLine(e, f, b, c)
             \/ \E e \in Entries : Delete(e)

JournalPage == \E j \in Journals, n \in 1 .. MaxNumber + 1 : SaveJournalForm(j, n)

Next == Work \/ EntryPage \/ JournalPage

Spec == Init /\ [][Next]_vars

-----------------------------------------------------------------------------
(* Properties. *)

TypeOK == /\ state \in [Entries -> {"absent", "deleted"} \cup States]
          /\ journal \in [Entries -> Journals \cup {NoJournal}]
          /\ name \in [Entries -> Names \cup {NoName}]
          /\ balanced \in [Entries -> BOOLEAN]
          /\ sequence \in [Journals -> 1 .. MaxNumber + 1]
          /\ lockedBy \in [Journals -> Threads \cup {NoThread}]
          /\ pc \in [Threads -> {"idle", "loaded", "checked", "locked", "saving", "local"}]
          /\ act \in [Threads -> {"post", "cancel", "edit"}]
          /\ cur \in [Threads -> Entries \cup {NoEntry}]
          /\ copyJournal \in [Threads -> Journals \cup {NoJournal}]
          /\ copyName \in [Threads -> Names \cup {NoName}]
          /\ number \in [Threads -> 0 .. MaxNumber]
          /\ owner \in [Journals -> [1 .. MaxNumber -> SUBSET Entries]]
          /\ raced \cup interrupted \cup edited \cup unchecked \subseteq Entries
          /\ rewound \cup advanced \subseteq Journals

(* Two entries never carry the same number of the same journal, although   *)
(* entries are saved whole from stale copies by concurrent requests, move  *)
(* between journals and are deleted and inserted again - unless the        *)
(* journal's form, saved from a page that is behind or by hand, lowered    *)
(* the sequence.                                                           *)
UniqueNames ==
    \A e, f \in Entries :
        e # f /\ name[e] = name[f] /\ name[e] # NoName => name[e][1] \in rewound

(* A number leaves a gap in its journal only after a race on an entry it   *)
(* was reserved for, a process that died, a deletion, or a form that moved *)
(* the journal's sequence forward: otherwise every number behind the       *)
(* sequence is on its entry, or about to be saved.                         *)
GapNeedsRaceOrCrash ==
    \A j \in Journals : \A n \in 1 .. sequence[j] - 1 :
        /\ owner[j][n] = {} => j \in advanced
        /\ \A e \in owner[j][n] :
               \/ name[e] = EntryName(j, n)
               \/ \E t \in Threads : cur[t] = e /\ copyName[t] = EntryName(j, n)
               \/ state[e] = "deleted"
               \/ e \in raced \cup interrupted

(* A posted entry stays posted, under its number, unless two requests held *)
(* it at once or a human saved it in the change form or deleted it: post() *)
(* is idempotent and cancel() refuses a posted entry.                      *)
PostedIsFinal ==
    [][\A e \in Entries \ (raced' \cup edited') : state[e] = "posted" =>
           state'[e] = "posted" /\ name'[e] = name[e]]_vars

(* JournalEntry: "a balanced set of debits/credits"; what post() posted is *)
(* balanced and numbered, also under races, deaths, deletions and forms,   *)
(* unless a person wrote its lines or its state after post() had looked.   *)
PostedIsBalanced ==
    \A e \in Entries \ unchecked :
        state[e] = "posted" => balanced[e] /\ name[e] # NoName

(* The ledger implements the entry's lifecycle: the steps of post() and    *)
(* their locks look like two, a number handed out and a draft posted under *)
(* it, and a standalone post like one, also when requests die halfway; an  *)
(* entry no two requests held at once keeps the number it carries.         *)
Entry == INSTANCE EntryLifecycle
             WITH status <- state, number <- name, next <- sequence, given <- owner,
                  NoNumber <- NoName
ImplementsEntryLifecycle == Entry!Spec
=============================================================================
