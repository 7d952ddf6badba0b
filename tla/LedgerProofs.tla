---------------------------- MODULE LedgerProofs ----------------------------
(***************************************************************************)
(* Proofs about Ledger for every set of requests, entries and journals:    *)
(* numbers are unique unless a journal's form lowered the sequence; a      *)
(* number is lost only in a race, with a process, by a deletion or by a    *)
(* journal's form; what post() posts is balanced unless a person wrote it  *)
(* behind post()'s back; a posted entry is final unless requests           *)
(* overlapped on it or a human edited it; and the whole implements the     *)
(* entry's lifecycle.                                                      *)
(***************************************************************************)
EXTENDS Ledger, TLAPS

Locking == {"locked", "local"}

(* Names tell journals and numbers apart. *)
LEMMA NameFacts ==
  /\ \A j \in Journals, n \in 1 .. MaxNumber :
         EntryName(j, n) \in Names /\ EntryName(j, n) # NoName
  /\ \A x \in Names : \E j \in Journals, n \in 1 .. MaxNumber : x = EntryName(j, n)
  /\ \A j, i \in Journals, n, m \in 1 .. MaxNumber :
         EntryName(j, n) = EntryName(i, m) => j = i /\ n = m
  /\ NoName \notin Names
  <1>1. ASSUME NEW x \in Names
        PROVE  \E j \in Journals, n \in 1 .. MaxNumber : x = EntryName(j, n)
    <2>1. x[1] \in Journals /\ x[2] \in 1 .. MaxNumber /\ x = EntryName(x[1], x[2])
      BY DEF Names, EntryName
    <2>2. QED
      BY <2>1
  <1>2. NoName \notin Names
    BY LedgerAssumption DEF Names
  <1>3. \A j \in Journals, n \in 1 .. MaxNumber : EntryName(j, n) \in Names
    BY DEF Names, EntryName
  <1>4. \A j, i \in Journals, n, m \in 1 .. MaxNumber :
            EntryName(j, n) = EntryName(i, m) => j = i /\ n = m
    BY DEF EntryName
  <1>5. QED
    BY <1>1, <1>2, <1>3, <1>4

LEMMA TwoLevels ==
  ASSUME NEW S, NEW o \in [Journals -> [1 .. MaxNumber -> S]],
         NEW j \in Journals, NEW n \in 1 .. MaxNumber, NEW v
  PROVE  \A i \in Journals, m \in 1 .. MaxNumber :
             [o EXCEPT ![j] = [o[j] EXCEPT ![n] = v]][i][m] =
                 IF i = j /\ m = n THEN v ELSE o[i][m]
  OBVIOUS

(* Whoever is between reading a sequence and writing it holds its lock.    *)
LockInv ==
    /\ \A e \in Entries : Present(state[e]) => journal[e] \in Journals
    /\ \A t \in Threads :
        /\ pc[t] # "idle" => cur[t] \in Entries /\ copyJournal[t] \in Journals
        /\ pc[t] \in Locking => /\ lockedBy[copyJournal[t]] = t
                                /\ number[t] = sequence[copyJournal[t]]
                                /\ number[t] \in 1 .. MaxNumber

(* A number on a row, or in a copy about to become one, was reserved for   *)
(* that very entry.  What was reserved is behind the sequence, and for one *)
(* entry, while no form lowered it; what is behind it was reserved, while  *)
(* no form raised it.                                                      *)
OwnerInv ==
    /\ \A j \in Journals, n \in 1 .. MaxNumber :
           /\ \A e \in Entries : name[e] = EntryName(j, n) => e \in owner[j][n]
           /\ \A t \in Threads : copyName[t] = EntryName(j, n) => cur[t] \in owner[j][n]
           /\ owner[j][n] = {} /\ n < sequence[j] => j \in advanced
           /\ owner[j][n] # {} /\ j \notin rewound => n < sequence[j]
           /\ j \notin rewound => \A e, f \in owner[j][n] : e = f
    /\ \A t \in Threads : pc[t] \in {"idle", "local"} => copyName[t] = NoName

LedgerInv == TypeOK /\ LockInv /\ OwnerInv

LEMMA InitLedgerInv == Init => LedgerInv
  BY LedgerAssumption, NameFacts
     DEF Init, LedgerInv, TypeOK, LockInv, OwnerInv, Locking, States, Present

LEMMA CreateDraftInv ==
  ASSUME LedgerInv, NEW e \in Entries, NEW j \in Journals, NEW b \in BOOLEAN,
         CreateDraft(e, j, b)
  PROVE  LedgerInv'
  <1> USE LedgerAssumption, NameFacts
      DEF LedgerInv, TypeOK, entryVars, journalVars, localVars, byHand, history, Locking,
          States, CreateDraft, Present
  <1>1. TypeOK'
    BY DEF LockInv, OwnerInv
  <1>2. LockInv'
    BY DEF LockInv
  <1>3. OwnerInv'
    BY DEF LockInv, OwnerInv
  <1>4. QED
    BY <1>1, <1>2, <1>3

LEMMA LoadInv ==
  ASSUME LedgerInv, NEW t \in Threads, NEW e \in Entries,
         NEW a \in Acts, Load(t, e, a)
  PROVE  LedgerInv'
  <1> USE LedgerAssumption, NameFacts
      DEF LedgerInv, TypeOK, entryVars, journalVars, localVars, byHand, history, Locking,
          States, Load, Idle
  <1>0. journal[e] \in Journals
    BY DEF Eligible, Postable, Cancellable, LockInv, Present
  <1>1. TypeOK'
    BY DEF LockInv, OwnerInv
  <1>2. LockInv'
    BY <1>0 DEF LockInv
  <1>3. OwnerInv'
    BY DEF LockInv, OwnerInv
  <1>4. QED
    BY <1>1, <1>2, <1>3

LEMMA CheckLinesInv ==
  ASSUME LedgerInv, NEW t \in Threads, CheckLines(t) \/ RefuseLines(t)
  PROVE  LedgerInv'
  <1> USE LedgerAssumption, NameFacts
      DEF LedgerInv, TypeOK, entryVars, journalVars, localVars, byHand, history, Locking,
          States, CheckLines,
          RefuseLines, NeedsNumber, Done
  <1>1. TypeOK'
    <2>1. CASE CheckLines(t)
      BY <2>1
    <2>2. CASE RefuseLines(t)
      BY <2>2
    <2>3. QED
      BY <2>1, <2>2
  <1>2. LockInv'
    BY DEF LockInv
  <1>3. OwnerInv'
    <2>1. CASE CheckLines(t)
      BY <2>1 DEF OwnerInv
    <2>2. CASE RefuseLines(t)
      BY <2>2 DEF OwnerInv
    <2>3. QED
      BY <2>1, <2>2
  <1>4. QED
    BY <1>1, <1>2, <1>3

LEMMA LockJournalInv ==
  ASSUME LedgerInv, NEW t \in Threads, LockJournal(t)
  PROVE  LedgerInv'
  <1> USE LedgerAssumption, NameFacts
      DEF LedgerInv, TypeOK, entryVars, journalVars, localVars, byHand, history, Locking,
          States, LockJournal, ReadSequence, Unlocked
  <1>1. TypeOK'
    BY DEF LockInv, OwnerInv
  <1>2. LockInv'
    BY DEF LockInv
  <1>3. OwnerInv'
    BY DEF LockInv, OwnerInv
  <1>4. QED
    BY <1>1, <1>2, <1>3

LEMMA ReserveInv ==
  ASSUME LedgerInv, NEW t \in Threads, Reserve(t)
  PROVE  LedgerInv'
  <1> USE LedgerAssumption, NameFacts
      DEF LedgerInv, TypeOK, entryVars, journalVars, localVars, byHand, history, Locking,
          States, Reserve, TakeNumber, Following
  <1>0. PICK j \in Journals, n \in 1 .. MaxNumber, e \in Entries :
            /\ j = copyJournal[t] /\ n = number[t] /\ n = sequence[j] /\ e = cur[t]
    BY DEF LockInv
  <1>a. /\ owner' = [owner EXCEPT ![j] = [owner[j] EXCEPT ![n] = owner[j][n] \cup {e}]]
        /\ sequence' = [sequence EXCEPT ![j] = n + 1]
    BY <1>0
  <1>b. j \notin rewound => owner[j][n] = {}
    BY <1>0 DEF OwnerInv
  <1>1. TypeOK'
    BY <1>0, <1>a
  <1>2. LockInv'
    BY <1>0, <1>a DEF LockInv
  <1>c. \A i \in Journals, m \in 1 .. MaxNumber :
            owner'[i][m] = IF i = j /\ m = n THEN owner[j][n] \cup {e} ELSE owner[i][m]
    <2>1. owner \in [Journals -> [1 .. MaxNumber -> SUBSET Entries]]
      OBVIOUS
    <2>2. QED
      BY ONLY <1>a, <2>1, TwoLevels
  <1>d. \A i \in Journals : sequence'[i] = IF i = j THEN n + 1 ELSE sequence[i]
    BY <1>a
  <1>3. OwnerInv'
    <2>1. ASSUME NEW i \in Journals, NEW m \in 1 .. MaxNumber
          PROVE  /\ \A f \in Entries : name'[f] = EntryName(i, m) => f \in owner'[i][m]
                 /\ \A q \in Threads : copyName'[q] = EntryName(i, m) => cur'[q] \in owner'[i][m]
      BY <1>0, <1>c DEF OwnerInv
    <2>2. ASSUME NEW i \in Journals, NEW m \in 1 .. MaxNumber
          PROVE  /\ owner'[i][m] = {} /\ m < sequence'[i] => i \in advanced'
                 /\ owner'[i][m] # {} /\ i \notin rewound' => m < sequence'[i]
                 /\ i \notin rewound' => \A f, g \in owner'[i][m] : f = g
      <3>1. /\ owner[i][m] = {} /\ m < sequence[i] => i \in advanced
            /\ owner[i][m] # {} /\ i \notin rewound => m < sequence[i]
            /\ i \notin rewound => \A f, g \in owner[i][m] : f = g
        BY DEF OwnerInv
      <3>2. advanced' = advanced /\ rewound' = rewound
        OBVIOUS
      <3>3. sequence[i] \in Nat /\ n \in Nat /\ m \in Nat
        OBVIOUS
      <3>4. CASE i = j /\ m = n
        <4>1. owner'[i][m] = owner[j][n] \cup {e} /\ sequence'[i] = n + 1
          BY ONLY <1>c, <1>d, <3>4
        <4>2. QED
          BY ONLY <1>b, <3>2, <3>3, <3>4, <4>1
      <3>5. CASE ~(i = j /\ m = n)
        <4>1. owner'[i][m] = owner[i][m]
          BY ONLY <1>c, <3>5
        <4>2. m < sequence'[i] <=> m < sequence[i]
          BY ONLY <1>0, <1>d, <3>3, <3>5
        <4>3. QED
          BY ONLY <3>1, <3>2, <4>1, <4>2
      <3>6. QED
        BY ONLY <3>4, <3>5
    <2>3. \A q \in Threads : pc'[q] \in {"idle", "local"} => copyName'[q] = NoName
      BY DEF OwnerInv
    <2>4. QED
      BY <2>1, <2>2, <2>3 DEF OwnerInv
  <1>4. QED
    BY <1>1, <1>2, <1>3

LEMMA SaveRowInv ==
  ASSUME LedgerInv, NEW t \in Threads, pc[t] \in {"loaded", "saving"},
         NEW s \in States, NEW j \in Journals, SaveRow(t, s, j),
         balanced' \in [Entries -> BOOLEAN], edited' \cup unchecked' \subseteq Entries
  PROVE  LedgerInv'
  <1> USE LedgerAssumption, NameFacts
      DEF LedgerInv, TypeOK, entryVars, journalVars, localVars, byHand, history, Locking,
          States, SaveRow, Done
  <1>1. PICK e \in Entries :
            /\ e = cur[t]
            /\ state' = [state EXCEPT ![e] = s]
            /\ journal' = [journal EXCEPT ![e] = j]
            /\ name' = [name EXCEPT ![e] = copyName[t]]
    BY DEF LockInv
  <1>2. TypeOK'
    <2>1. /\ state' \in [Entries -> {"absent", "deleted"} \cup States]
          /\ journal' \in [Entries -> Journals \cup {NoJournal}]
          /\ name' \in [Entries -> Names \cup {NoName}]
      BY <1>1
    <2>2. raced' \cup interrupted' \cup edited' \cup unchecked' \subseteq Entries
      OBVIOUS
    <2>3. QED
      BY <2>1, <2>2
  <1>3. LockInv'
    BY <1>1 DEF LockInv
  <1>4. OwnerInv'
    BY <1>1 DEF OwnerInv
  <1>5. QED
    BY <1>2, <1>3, <1>4

LEMMA SaveInv ==
  ASSUME LedgerInv, NEW t \in Threads,
         \/ SavePosted(t) \/ SaveCancelled(t)
         \/ \E s \in States, j \in Journals, b \in BOOLEAN : SaveForm(t, s, j, b)
  PROVE  LedgerInv'
  <1> USE DEF LedgerInv, LockInv, TypeOK, States
  <1>1. CASE SavePosted(t)
    BY <1>1, SaveRowInv DEF SavePosted
  <1>2. CASE SaveCancelled(t)
    BY <1>2, SaveRowInv DEF SaveCancelled
  <1>3. ASSUME NEW s \in States, NEW j \in Journals, NEW b \in BOOLEAN, SaveForm(t, s, j, b)
        PROVE  LedgerInv'
    <2>1. cur[t] \in Entries /\ pc[t] = "loaded" /\ SaveRow(t, s, j)
      BY <1>3 DEF SaveForm
    <2>2. balanced' \in [Entries -> BOOLEAN] /\ edited' \cup unchecked' \subseteq Entries
      BY <1>3, <2>1 DEF SaveForm
    <2>3. QED
      BY <2>1, <2>2, SaveRowInv
  <1>4. QED
    BY <1>1, <1>2, <1>3

LEMMA StartLocalInv ==
  ASSUME LedgerInv, NEW t \in Threads, NEW e \in Entries, NEW j \in Journals,
         StartLocal(t, e, j)
  PROVE  LedgerInv'
  <1> USE LedgerAssumption, NameFacts
      DEF LedgerInv, TypeOK, entryVars, journalVars, localVars, byHand, history, Locking,
          States, StartLocal, ReadSequence, Idle, Unlocked
  <1>1. TypeOK'
    BY DEF LockInv, OwnerInv
  <1>2. LockInv'
    BY DEF LockInv
  <1>3. OwnerInv'
    <2>1. /\ UNCHANGED <<name, owner, sequence, advanced, rewound, copyName>>
          /\ pc' = [pc EXCEPT ![t] = "local"] /\ cur' = [cur EXCEPT ![t] = e]
      OBVIOUS
    <2>2. copyName[t] = NoName
      BY DEF OwnerInv
    <2>3. QED
      BY <2>1, <2>2 DEF OwnerInv
  <1>4. QED
    BY <1>1, <1>2, <1>3

LEMMA CommitLocalInv ==
  ASSUME LedgerInv, NEW t \in Threads, CommitLocal(t)
  PROVE  LedgerInv'
  <1> USE LedgerAssumption, NameFacts
      DEF LedgerInv, TypeOK, entryVars, journalVars, localVars, byHand, history, Locking,
          States, CommitLocal, TakeNumber, Following, Done
  <1>0. PICK j \in Journals, n \in 1 .. MaxNumber, e \in Entries :
            /\ j = copyJournal[t] /\ n = number[t] /\ n = sequence[j] /\ e = cur[t]
    BY DEF LockInv
  <1>a. /\ owner' = [owner EXCEPT ![j] = [owner[j] EXCEPT ![n] = owner[j][n] \cup {e}]]
        /\ sequence' = [sequence EXCEPT ![j] = n + 1]
    BY <1>0
  <1>b. j \notin rewound => owner[j][n] = {}
    BY <1>0 DEF OwnerInv
  <1>1. TypeOK'
    BY <1>0, <1>a
  <1>2. LockInv'
    BY <1>0, <1>a DEF LockInv
  <1>c. \A i \in Journals, m \in 1 .. MaxNumber :
            owner'[i][m] = IF i = j /\ m = n THEN owner[j][n] \cup {e} ELSE owner[i][m]
    <2>1. owner \in [Journals -> [1 .. MaxNumber -> SUBSET Entries]]
      OBVIOUS
    <2>2. QED
      BY ONLY <1>a, <2>1, TwoLevels
  <1>d. \A i \in Journals : sequence'[i] = IF i = j THEN n + 1 ELSE sequence[i]
    BY <1>a
  <1>3. OwnerInv'
    <2>1. ASSUME NEW i \in Journals, NEW m \in 1 .. MaxNumber
          PROVE  /\ \A f \in Entries : name'[f] = EntryName(i, m) => f \in owner'[i][m]
                 /\ \A q \in Threads : copyName'[q] = EntryName(i, m) => cur'[q] \in owner'[i][m]
      BY <1>0, <1>c DEF OwnerInv
    <2>2. ASSUME NEW i \in Journals, NEW m \in 1 .. MaxNumber
          PROVE  /\ owner'[i][m] = {} /\ m < sequence'[i] => i \in advanced'
                 /\ owner'[i][m] # {} /\ i \notin rewound' => m < sequence'[i]
                 /\ i \notin rewound' => \A f, g \in owner'[i][m] : f = g
      <3>1. /\ owner[i][m] = {} /\ m < sequence[i] => i \in advanced
            /\ owner[i][m] # {} /\ i \notin rewound => m < sequence[i]
            /\ i \notin rewound => \A f, g \in owner[i][m] : f = g
        BY DEF OwnerInv
      <3>2. advanced' = advanced /\ rewound' = rewound
        OBVIOUS
      <3>3. sequence[i] \in Nat /\ n \in Nat /\ m \in Nat
        OBVIOUS
      <3>4. CASE i = j /\ m = n
        <4>1. owner'[i][m] = owner[j][n] \cup {e} /\ sequence'[i] = n + 1
          BY ONLY <1>c, <1>d, <3>4
        <4>2. QED
          BY ONLY <1>b, <3>2, <3>3, <3>4, <4>1
      <3>5. CASE ~(i = j /\ m = n)
        <4>1. owner'[i][m] = owner[i][m]
          BY ONLY <1>c, <3>5
        <4>2. m < sequence'[i] <=> m < sequence[i]
          BY ONLY <1>0, <1>d, <3>3, <3>5
        <4>3. QED
          BY ONLY <3>1, <3>2, <4>1, <4>2
      <3>6. QED
        BY ONLY <3>4, <3>5
    <2>3. \A q \in Threads : pc'[q] \in {"idle", "local"} => copyName'[q] = NoName
      BY DEF OwnerInv
    <2>4. QED
      BY <2>1, <2>2, <2>3 DEF OwnerInv
  <1>4. QED
    BY <1>1, <1>2, <1>3

LEMMA CrashInv ==
  ASSUME LedgerInv, NEW t \in Threads, Crash(t)
  PROVE  LedgerInv'
  <1> USE LedgerAssumption, NameFacts
      DEF LedgerInv, TypeOK, entryVars, journalVars, localVars, byHand, history, Locking,
          States, Crash, Idle, Done
  <1>1. TypeOK'
    BY DEF LockInv, OwnerInv
  <1>2. LockInv'
    BY DEF LockInv
  <1>3. OwnerInv'
    BY DEF LockInv, OwnerInv
  <1>4. QED
    BY <1>1, <1>2, <1>3

LEMMA WriteLineInv ==
  ASSUME LedgerInv, NEW e \in Entries, NEW f \in Entries, NEW b \in BOOLEAN,
         NEW c \in BOOLEAN, WriteLine(e, f, b, c)
  PROVE  LedgerInv'
  <1> USE LedgerAssumption, NameFacts
      DEF LedgerInv, TypeOK, entryVars, journalVars, localVars, byHand, history, Locking,
          States, WriteLine
  <1>1. TypeOK'
    BY DEF LockInv, OwnerInv
  <1>2. LockInv'
    BY DEF LockInv
  <1>3. OwnerInv'
    <2>1. UNCHANGED <<name, owner, sequence, advanced, rewound, copyName, cur, pc>>
      OBVIOUS
    <2>2. QED
      BY <2>1 DEF OwnerInv
  <1>4. QED
    BY <1>1, <1>2, <1>3

LEMMA SaveJournalFormInv ==
  ASSUME LedgerInv, NEW j \in Journals, NEW n \in 1 .. MaxNumber + 1,
         SaveJournalForm(j, n)
  PROVE  LedgerInv'
  <1> USE LedgerAssumption, NameFacts
      DEF LedgerInv, TypeOK, entryVars, journalVars, localVars, byHand, history, Locking,
          States, SaveJournalForm, Unlocked
  <1>1. TypeOK'
    BY DEF LockInv, OwnerInv
  <1>2. LockInv'
    BY DEF LockInv
  <1>3. OwnerInv'
    BY DEF LockInv, OwnerInv
  <1>4. QED
    BY <1>1, <1>2, <1>3

LEMMA DeleteInv ==
  ASSUME LedgerInv, NEW e \in Entries, Delete(e)
  PROVE  LedgerInv'
  <1> USE LedgerAssumption, NameFacts
      DEF LedgerInv, TypeOK, entryVars, journalVars, localVars, byHand, history, Locking,
          States, Delete, Present
  <1>1. TypeOK'
    BY DEF LockInv, OwnerInv
  <1>2. LockInv'
    BY DEF LockInv
  <1>3. OwnerInv'
    BY DEF LockInv, OwnerInv
  <1>4. QED
    BY <1>1, <1>2, <1>3

LEMMA NextLedgerInv == LedgerInv /\ [Next]_vars => LedgerInv'
  <1> SUFFICES ASSUME LedgerInv, [Next]_vars
               PROVE  LedgerInv'
    OBVIOUS
  <1>1. ASSUME NEW t \in Threads, Step(t)
        PROVE  LedgerInv'
    BY <1>1, CheckLinesInv, LockJournalInv, ReserveInv, SaveInv, CommitLocalInv DEF Step
  <1>2. ASSUME NEW t \in Threads, NEW e \in Entries,
               \/ \E a \in Acts : Load(t, e, a)
               \/ \E j \in Journals : StartLocal(t, e, j)
        PROVE  LedgerInv'
    BY <1>2, LoadInv, StartLocalInv
  <1>3. CASE UNCHANGED vars
    BY <1>3 DEF vars, entryVars, journalVars, localVars, byHand, history, LedgerInv, TypeOK,
                LockInv, OwnerInv, Locking
  <1>4. CASE Work
    BY <1>1, <1>2, <1>4, CreateDraftInv, CrashInv DEF Work
  <1>5. CASE EntryPage \/ JournalPage
    BY <1>5, WriteLineInv, SaveJournalFormInv, DeleteInv DEF EntryPage, JournalPage
  <1>6. QED
    BY <1>3, <1>4, <1>5 DEF Next

(* The inductive invariant: locks, reservations and types. *)
THEOREM LedgerInvariant == Spec => []LedgerInv
  <1>1. Init => LedgerInv
    BY InitLedgerInv
  <1>2. QED
    BY <1>1, NextLedgerInv, PTL DEF Spec

(* The entries, the sequences and the locals of every thread keep their    *)
(* types.                                                                  *)
THEOREM LedgerTypeCorrect == Spec => []TypeOK
  <1>1. LedgerInv => TypeOK
    BY DEF LedgerInv
  <1>2. QED
    BY <1>1, LedgerInvariant, PTL

(* No two entries carry the same number of a journal, for any number of    *)
(* concurrent posts, cancels, form saves, standalone posts, deletions and  *)
(* deaths, while no form lowered the journal's sequence.                   *)
THEOREM LedgerUniqueNames == Spec => []UniqueNames
  <1>1. LedgerInv => UniqueNames
    <2> SUFFICES ASSUME LedgerInv, NEW e \in Entries, NEW f \in Entries, e # f,
                        name[e] = name[f], name[e] # NoName
                 PROVE  name[e][1] \in rewound
      BY DEF UniqueNames
    <2>1. PICK j \in Journals, n \in 1 .. MaxNumber : name[e] = EntryName(j, n)
      BY NameFacts DEF LedgerInv, TypeOK
    <2>2. e \in owner[j][n] /\ f \in owner[j][n]
      BY <2>1 DEF LedgerInv, OwnerInv
    <2>3. j \in rewound
      BY <2>2 DEF LedgerInv, OwnerInv
    <2>4. name[e][1] = j
      BY <2>1 DEF EntryName
    <2>5. QED
      BY <2>3, <2>4
  <1>2. QED
    BY <1>1, LedgerInvariant, PTL

-----------------------------------------------------------------------------
(* What post() posted is balanced and numbered. *)

BalancedInv ==
    /\ PostedIsBalanced
    /\ \A t \in Threads : pc[t] \in {"loaded", "checked", "locked", "saving"} =>
           /\ state[cur[t]] # "absent"
           /\ pc[t] # "loaded" /\ cur[t] \notin unchecked => balanced[cur[t]]
           /\ pc[t] = "saving" => copyName[t] # NoName

LEMMA BalancedStep ==
  ASSUME LedgerInv, BalancedInv, [Next]_vars
  PROVE  BalancedInv'
  <1> USE LedgerAssumption, NameFacts
      DEF LedgerInv, TypeOK, LockInv, BalancedInv, PostedIsBalanced, entryVars,
          journalVars, localVars, byHand, history, Locking, States
  <1>1. ASSUME NEW e \in Entries, NEW j \in Journals, NEW b \in BOOLEAN, CreateDraft(e, j, b)
        PROVE  BalancedInv'
    BY <1>1 DEF CreateDraft, Held
  <1>2. ASSUME NEW t \in Threads, NEW e \in Entries, NEW a \in Acts, Load(t, e, a)
        PROVE  BalancedInv'
    BY <1>2 DEF Load, Eligible, Postable, Cancellable, Present
  <1>3. ASSUME NEW t \in Threads, NEW e \in Entries, NEW j \in Journals, StartLocal(t, e, j)
        PROVE  BalancedInv'
    BY <1>3 DEF StartLocal, ReadSequence
  <1>4. ASSUME NEW t \in Threads, CheckLines(t)
        PROVE  BalancedInv'
    BY <1>4 DEF CheckLines, LinesOk, NeedsNumber
  <1>5. ASSUME NEW t \in Threads, RefuseLines(t) \/ Crash(t)
        PROVE  BalancedInv'
    <2>1. Done(t) /\ UNCHANGED <<entryVars, unchecked>>
      BY <1>5 DEF RefuseLines, Crash
    <2>2. QED
      BY <2>1 DEF Done
  <1>6. ASSUME NEW t \in Threads, LockJournal(t) \/ Reserve(t)
        PROVE  BalancedInv'
    <2>1. CASE LockJournal(t)
      BY <2>1 DEF LockJournal
    <2>2. CASE Reserve(t)
      <3>1. EntryName(copyJournal[t], number[t]) # NoName
        BY <2>2 DEF Reserve
      <3>2. QED
        BY <2>2, <3>1 DEF Reserve
    <2>3. QED
      BY <1>6, <2>1, <2>2
  <1>7. ASSUME NEW t \in Threads, SavePosted(t) \/ SaveCancelled(t)
        PROVE  BalancedInv'
    <2>1. /\ cur[t] \in Entries /\ Done(t) /\ UNCHANGED <<balanced, unchecked>>
          /\ \/ /\ pc[t] = "saving" /\ state' = [state EXCEPT ![cur[t]] = "posted"]
                /\ name' = [name EXCEPT ![cur[t]] = copyName[t]]
             \/ /\ state' = [state EXCEPT ![cur[t]] = "cancelled"]
                /\ name' = [name EXCEPT ![cur[t]] = copyName[t]]
      BY <1>7 DEF SavePosted, SaveCancelled, SaveRow
    <2>2. QED
      BY <2>1 DEF Done
  <1>8. ASSUME NEW t \in Threads, NEW s \in States, NEW j \in Journals,
               NEW b \in BOOLEAN, SaveForm(t, s, j, b)
        PROVE  BalancedInv'
    <2>1. PICK e \in Entries : e = cur[t]
      BY <1>8 DEF SaveForm
    <2>2. /\ Done(t) /\ state' = [state EXCEPT ![e] = s]
          /\ name' = [name EXCEPT ![e] = copyName[t]]
          /\ balanced' = [balanced EXCEPT ![e] = b]
          /\ unchecked \subseteq unchecked'
          /\ s = "posted" \/ PastCheck(e) => e \in unchecked'
      BY <1>8, <2>1 DEF SaveForm, SaveRow
    <2>3. ASSUME NEW q \in Threads, pc'[q] \in {"checked", "locked", "saving"}, cur'[q] = e
          PROVE  e \in unchecked'
      BY <2>2, <2>3 DEF Done, PastCheck
    <2>4. PostedIsBalanced'
      BY <2>1, <2>2
    <2>5. ASSUME NEW q \in Threads, pc'[q] \in {"loaded", "checked", "locked", "saving"}
          PROVE  /\ q # t /\ pc'[q] = pc[q] /\ cur'[q] = cur[q] /\ copyName'[q] = copyName[q]
                 /\ cur[q] \in Entries
      BY <2>2, <2>5 DEF Done
    <2>6. QED
      BY <2>2, <2>3, <2>4, <2>5
  <1>9. ASSUME NEW t \in Threads, CommitLocal(t)
        PROVE  BalancedInv'
    BY <1>9 DEF CommitLocal, Done
  <1>10. CASE UNCHANGED vars
    BY <1>10 DEF vars
  <1>11. ASSUME NEW e \in Entries, NEW f \in Entries, NEW b \in BOOLEAN, NEW c \in BOOLEAN,
                WriteLine(e, f, b, c)
         PROVE  BalancedInv'
    <2>1. /\ \A x \in Entries \ {e, f} : balanced'[x] = balanced[x]
          /\ \A x \in {e, f} : PastCheck(x) => x \in unchecked'
          /\ unchecked \subseteq unchecked'
          /\ UNCHANGED <<state, name, pc, cur, copyName>>
      BY <1>11 DEF WriteLine
    <2>2. \A x \in Entries \ unchecked' :
              state[x] = "posted" => balanced'[x] /\ name[x] # NoName
      <3>1. \A x \in Entries \ unchecked' : state[x] = "posted" => x \notin {e, f}
        BY <2>1 DEF PastCheck
      <3>2. QED
        BY <2>1, <3>1
    <2>3. ASSUME NEW t \in Threads, pc[t] \in {"checked", "locked", "saving"},
                 cur[t] \notin unchecked'
          PROVE  balanced'[cur[t]]
      <3>1. cur[t] \in Entries /\ balanced[cur[t]] /\ PastCheck(cur[t])
        BY <2>1, <2>3 DEF PastCheck
      <3>2. QED
        BY <2>1, <2>3, <3>1
    <2>4. QED
      BY <2>1, <2>2, <2>3
  <1>12. ASSUME NEW j \in Journals, NEW n \in 1 .. MaxNumber + 1, SaveJournalForm(j, n)
         PROVE  BalancedInv'
    BY <1>12 DEF SaveJournalForm
  <1>13. ASSUME NEW e \in Entries, Delete(e)
         PROVE  BalancedInv'
    BY <1>13 DEF Delete, PastCheck
  <1>14. QED
    BY <1>1, <1>2, <1>3, <1>4, <1>5, <1>6, <1>7, <1>8, <1>9, <1>10, <1>11, <1>12, <1>13
       DEF Next, Work, EntryPage, JournalPage, Step

(* Every entry that post() or a standalone post put in the ledger is       *)
(* balanced and numbered, also under races, deaths and deletions, unless a *)
(* page wrote its lines or its state after post() had looked at them.      *)
THEOREM LedgerPostedIsBalanced == Spec => []PostedIsBalanced
  <1>1. Init => BalancedInv
    BY DEF Init, BalancedInv, PostedIsBalanced
  <1>2. LedgerInv /\ BalancedInv /\ [Next]_vars => BalancedInv'
    BY BalancedStep
  <1>3. BalancedInv => PostedIsBalanced
    BY DEF BalancedInv
  <1>4. QED
    BY <1>1, <1>2, <1>3, LedgerInvariant, PTL DEF Spec

-----------------------------------------------------------------------------
(* The copy of a request that alone holds its entry is fresh. *)

HolderInv ==
    \A t \in Threads :
        /\ pc[t] = "idle" => cur[t] = NoEntry
        /\ pc[t] # "loaded" => act[t] = "post"
        /\ pc[t] = "local" => /\ state[cur[t]] = "absent"
                              /\ \A q \in Threads : q # t => cur[q] # cur[t]
        /\ pc[t] \notin {"idle", "local"} => state[cur[t]] # "absent"
        /\ \A q \in Threads : q # t /\ cur[q] = cur[t] /\ cur[t] # NoEntry => cur[t] \in raced

(* ... and a post still finds it a draft. *)
FreshCopy(t) ==
    /\ Present(state[cur[t]])
    /\ act[t] = "post" => state[cur[t]] = "draft"
    /\ act[t] = "cancel" => state[cur[t]] # "posted"
    /\ copyJournal[t] = journal[cur[t]]
    /\ pc[t] = "loaded" => copyName[t] = name[cur[t]]
    /\ pc[t] \in {"checked", "locked"} => copyName[t] = NoName /\ name[cur[t]] = NoName
    /\ pc[t] = "saving" => copyName[t] # NoName /\ name[cur[t]] \in {NoName, copyName[t]}

FreshCopyInv ==
    \A t \in Threads :
        pc[t] \notin {"idle", "local"} /\ cur[t] \notin raced => FreshCopy(t)

LEMMA HolderStep ==
  ASSUME LedgerInv, HolderInv, [Next]_vars
  PROVE  HolderInv'
  <1> USE LedgerAssumption
      DEF LedgerInv, TypeOK, LockInv, HolderInv, entryVars, journalVars, localVars,
          byHand, history, States
  <1>1. ASSUME NEW e \in Entries, NEW j \in Journals, NEW b \in BOOLEAN, CreateDraft(e, j, b)
        PROVE  HolderInv'
    BY <1>1 DEF CreateDraft, Held
  <1>2. ASSUME NEW t \in Threads, NEW e \in Entries, NEW a \in Acts, Load(t, e, a)
        PROVE  HolderInv'
    <2>1. state[e] # "absent"
      <3>1. Eligible(a, state[e]) /\ a \in {"post", "cancel", "edit"}
        BY <1>2 DEF Load
      <3>2. QED
        BY <3>1 DEF Eligible, Postable, Cancellable, Present
    <2>2. QED
      BY <1>2, <2>1 DEF Load, Idle, Held
  <1>3. ASSUME NEW t \in Threads, NEW e \in Entries, NEW j \in Journals, StartLocal(t, e, j)
        PROVE  HolderInv'
    BY <1>3 DEF StartLocal, Idle, Held
  <1>4. ASSUME NEW t \in Threads, CheckLines(t) \/ LockJournal(t) \/ Reserve(t)
        PROVE  HolderInv'
    <2>1. /\ pc[t] \notin {"idle", "local"} /\ act[t] = "post"
          /\ \E p \in {"checked", "locked", "saving"} : pc' = [pc EXCEPT ![t] = p]
          /\ UNCHANGED <<entryVars, act, cur, raced>>
      BY <1>4 DEF CheckLines, LockJournal, Reserve
    <2>2. QED
      BY <2>1
  <1>5. ASSUME NEW t \in Threads, RefuseLines(t) \/ Crash(t)
        PROVE  HolderInv'
    <2>1. Done(t) /\ UNCHANGED <<entryVars, raced>>
      BY <1>5 DEF RefuseLines, Crash
    <2>2. QED
      BY <2>1 DEF Done
  <1>6. ASSUME NEW t \in Threads,
               \/ SavePosted(t) \/ SaveCancelled(t)
               \/ \E s \in States, j \in Journals, b \in BOOLEAN : SaveForm(t, s, j, b)
        PROVE  HolderInv'
    <2>1. /\ \E s \in States : state' = [state EXCEPT ![cur[t]] = s]
          /\ pc[t] \notin {"idle", "local"} /\ Done(t) /\ UNCHANGED raced
      BY <1>6 DEF SavePosted, SaveCancelled, SaveForm, SaveRow
    <2>2. \A q \in Threads : q # t /\ pc[q] = "local" => cur[q] # cur[t]
      BY <2>1
    <2>3. QED
      BY <2>1, <2>2 DEF Done
  <1>7. ASSUME NEW t \in Threads, CommitLocal(t)
        PROVE  HolderInv'
    <2>1. /\ pc[t] = "local" /\ state' = [state EXCEPT ![cur[t]] = "posted"]
          /\ Done(t) /\ UNCHANGED raced
      BY <1>7 DEF CommitLocal
    <2>2. \A q \in Threads : q # t /\ pc[q] = "local" => cur[q] # cur[t]
      OBVIOUS
    <2>3. QED
      BY <2>1, <2>2 DEF Done
  <1>8. ASSUME UNCHANGED <<state, localVars, raced>>
        PROVE  HolderInv'
    BY <1>8
  <1>9. ASSUME NEW e \in Entries, Delete(e)
        PROVE  HolderInv'
    BY <1>9 DEF Delete, Present
  <1>10. ASSUME NEW t \in Threads, Step(t)
         PROVE  HolderInv'
    BY <1>4, <1>5, <1>6, <1>7, <1>10 DEF Step
  <1>11. CASE Work
    BY <1>1, <1>2, <1>3, <1>5, <1>10, <1>11 DEF Work
  <1>12. CASE EntryPage \/ JournalPage \/ UNCHANGED vars
    BY <1>8, <1>9, <1>12
       DEF EntryPage, JournalPage, WriteLine, SaveJournalForm, vars
  <1>13. QED
    BY <1>11, <1>12 DEF Next

LEMMA OneCopyStep ==
  ASSUME FreshCopyInv, NEW t \in Threads, UNCHANGED <<state, journal, name, act, cur, raced>>,
         \A q \in Threads \ {t} : /\ pc'[q] = pc[q]
                                  /\ copyJournal'[q] = copyJournal[q]
                                  /\ copyName'[q] = copyName[q],
         cur[t] \notin raced => FreshCopy(t)'
  PROVE  FreshCopyInv'
  BY DEF FreshCopyInv, FreshCopy, Present

LEMMA FreshCopyStep ==
  ASSUME LedgerInv, HolderInv, FreshCopyInv, [Next]_vars
  PROVE  FreshCopyInv'
  <1> USE LedgerAssumption, NameFacts
      DEF LedgerInv, TypeOK, LockInv, HolderInv, FreshCopyInv, FreshCopy, entryVars,
          journalVars, localVars, byHand, history, Locking, States
  <1>1. ASSUME NEW e \in Entries, NEW j \in Journals, NEW b \in BOOLEAN, CreateDraft(e, j, b)
        PROVE  FreshCopyInv'
    BY <1>1 DEF CreateDraft, Held
  <1>2. ASSUME NEW t \in Threads, NEW e \in Entries, NEW a \in Acts, Load(t, e, a)
        PROVE  FreshCopyInv'
    <2>1. /\ Present(state[e])
          /\ a = "post" => state[e] = "draft"
          /\ a = "cancel" => state[e] # "posted"
      <3>1. Eligible(a, state[e]) /\ a \in {"post", "cancel", "edit"}
        BY <1>2 DEF Load
      <3>2. QED
        BY <3>1 DEF Eligible, Postable, Cancellable, Present
    <2>2. QED
      BY <1>2, <2>1 DEF Load, Idle
  <1>3. ASSUME NEW t \in Threads, NEW e \in Entries, NEW j \in Journals, StartLocal(t, e, j)
        PROVE  FreshCopyInv'
    BY <1>3 DEF StartLocal, Idle
  <1>4. ASSUME NEW t \in Threads, CheckLines(t)
        PROVE  FreshCopyInv'
    <2>1. /\ pc[t] = "loaded" /\ act[t] = "post"
          /\ \/ copyName[t] = NoName /\ pc' = [pc EXCEPT ![t] = "checked"]
             \/ copyName[t] # NoName /\ pc' = [pc EXCEPT ![t] = "saving"]
          /\ UNCHANGED <<state, journal, name, act, cur, copyJournal, copyName, raced>>
      BY <1>4 DEF CheckLines, NeedsNumber
    <2>2. /\ \A q \in Threads \ {t} : /\ pc'[q] = pc[q]
                                      /\ copyJournal'[q] = copyJournal[q]
                                      /\ copyName'[q] = copyName[q]
          /\ \/ copyName'[t] = NoName /\ pc'[t] = "checked"
             \/ copyName'[t] # NoName /\ pc'[t] = "saving"
      BY <2>1
    <2>3. cur[t] \notin raced => FreshCopy(t)
      BY <2>1
    <2>4. cur[t] \notin raced => FreshCopy(t)'
      BY ONLY <2>1, <2>2, <2>3 DEF FreshCopy, Present
    <2>5. QED
      BY ONLY FreshCopyInv, <2>1, <2>2, <2>4, OneCopyStep
  <1>5. ASSUME NEW t \in Threads, LockJournal(t)
        PROVE  FreshCopyInv'
    BY <1>5 DEF LockJournal
  <1>6. ASSUME NEW t \in Threads, Reserve(t)
        PROVE  FreshCopyInv'
    <2>1. copyJournal[t] \in Journals /\ number[t] \in 1 .. MaxNumber
      BY <1>6 DEF Reserve
    <2>2. PICK x \in Names : x = EntryName(copyJournal[t], number[t])
      BY <2>1
    <2>3. x # NoName
      OBVIOUS
    <2>4. /\ pc[t] = "locked" /\ pc' = [pc EXCEPT ![t] = "saving"]
          /\ copyName' = [copyName EXCEPT ![t] = x]
          /\ UNCHANGED <<state, journal, name, act, cur, copyJournal, raced>>
      BY <1>6, <2>2 DEF Reserve
    <2>5. cur[t] \notin raced => FreshCopy(t)
      BY <2>4
    <2>6. /\ \A q \in Threads \ {t} : /\ pc'[q] = pc[q]
                                      /\ copyJournal'[q] = copyJournal[q]
                                      /\ copyName'[q] = copyName[q]
          /\ pc'[t] = "saving" /\ copyName'[t] = x
      BY <2>4
    <2>7. cur[t] \notin raced => FreshCopy(t)'
      BY ONLY <2>3, <2>4, <2>5, <2>6 DEF FreshCopy, Present
    <2>8. QED
      BY ONLY FreshCopyInv, <2>4, <2>6, <2>7, OneCopyStep
  <1>7. ASSUME NEW t \in Threads, RefuseLines(t) \/ Crash(t)
        PROVE  FreshCopyInv'
    <2>1. Done(t) /\ UNCHANGED <<entryVars, raced>>
      BY <1>7 DEF RefuseLines, Crash
    <2>2. QED
      BY <2>1 DEF Done
  <1>8. ASSUME NEW t \in Threads,
               \/ SavePosted(t) \/ SaveCancelled(t) \/ CommitLocal(t)
               \/ \E s \in States, j \in Journals, b \in BOOLEAN : SaveForm(t, s, j, b)
        PROVE  FreshCopyInv'
    <2>1. /\ Done(t) /\ UNCHANGED raced /\ cur[t] \in Entries
          /\ \A e \in Entries : e # cur[t] => /\ state'[e] = state[e] /\ name'[e] = name[e]
                                              /\ journal'[e] = journal[e]
      BY <1>8 DEF SavePosted, SaveCancelled, SaveForm, SaveRow, CommitLocal
    <2>2. \A q \in Threads : q # t =>
              /\ pc'[q] = pc[q] /\ act'[q] = act[q] /\ cur'[q] = cur[q]
              /\ copyName'[q] = copyName[q] /\ copyJournal'[q] = copyJournal[q]
      BY <2>1 DEF Done
    <2>3. \A q \in Threads : q # t /\ cur[q] = cur[t] => cur[q] \in raced
      BY <2>1
    <2>4. pc'[t] = "idle"
      BY <2>1 DEF Done
    <2>5. ASSUME NEW q \in Threads, pc'[q] # "idle", cur'[q] \notin raced'
          PROVE  /\ q # t /\ cur[q] # cur[t] /\ cur[q] \in Entries
                 /\ state'[cur[q]] = state[cur[q]] /\ name'[cur[q]] = name[cur[q]]
                 /\ journal'[cur[q]] = journal[cur[q]]
      BY <2>1, <2>2, <2>3, <2>4, <2>5
    <2>6. SUFFICES ASSUME NEW q \in Threads, pc'[q] \notin {"idle", "local"},
                          cur'[q] \notin raced'
                   PROVE  FreshCopy(q)'
      BY DEF FreshCopy
    <2>7. /\ cur'[q] = cur[q] /\ pc'[q] = pc[q] /\ act'[q] = act[q]
          /\ copyName'[q] = copyName[q] /\ copyJournal'[q] = copyJournal[q]
          /\ cur[q] \notin raced
          /\ state'[cur[q]] = state[cur[q]] /\ name'[cur[q]] = name[cur[q]]
          /\ journal'[cur[q]] = journal[cur[q]]
      BY <2>1, <2>2, <2>5, <2>6
    <2>8. FreshCopy(q)
      BY <2>6, <2>7 DEF FreshCopy
    <2>9. QED
      BY ONLY <2>7, <2>8 DEF FreshCopy, Present
  <1>9. ASSUME UNCHANGED <<state, journal, name, localVars, raced>>
        PROVE  FreshCopyInv'
    BY <1>9
  <1>10. ASSUME NEW e \in Entries, Delete(e)
         PROVE  FreshCopyInv'
    BY <1>10 DEF Delete, Held
  <1>11. ASSUME NEW t \in Threads, Step(t)
         PROVE  FreshCopyInv'
    BY <1>4, <1>5, <1>6, <1>7, <1>8, <1>11 DEF Step
  <1>12. CASE Work
    BY <1>1, <1>2, <1>3, <1>7, <1>11, <1>12 DEF Work
  <1>13. CASE EntryPage \/ JournalPage \/ UNCHANGED vars
    BY <1>9, <1>10, <1>13
       DEF EntryPage, JournalPage, WriteLine, SaveJournalForm, vars
  <1>14. QED
    BY <1>12, <1>13 DEF Next

LEMMA FreshCopyInvariant == Spec => [](LedgerInv /\ HolderInv /\ FreshCopyInv)
  <1>1. Init => HolderInv /\ FreshCopyInv
    BY LedgerAssumption DEF Init, HolderInv, FreshCopyInv, FreshCopy
  <1>2. LedgerInv /\ HolderInv /\ FreshCopyInv /\ [Next]_vars => HolderInv' /\ FreshCopyInv'
    BY HolderStep, FreshCopyStep
  <1>3. QED
    BY <1>1, <1>2, LedgerInvariant, PTL DEF Spec

LEMMA FinalStep ==
  ASSUME LedgerInv, HolderInv, FreshCopyInv, [Next]_vars,
         NEW e \in Entries, e \notin raced' \cup edited', state[e] = "posted"
  PROVE  state'[e] = "posted" /\ name'[e] = name[e]
  <1> USE DEF LedgerInv, TypeOK, LockInv, HolderInv, FreshCopyInv, FreshCopy, entryVars,
              byHand, history
  <1>1. ASSUME NEW t \in Threads, Step(t)
        PROVE  state'[e] = "posted" /\ name'[e] = name[e]
    <2>1. CASE SavePosted(t) \/ SaveCancelled(t)
      <3>1. /\ \E s, j : SaveRow(t, s, j)
            /\ pc[t] \in {"loaded", "saving"} /\ act[t] \in {"post", "cancel"}
        BY <2>1 DEF SavePosted, SaveCancelled
      <3>2. raced' = raced
        BY <3>1 DEF SaveRow
      <3>3. cur[t] # e
        BY <3>1, <3>2
      <3>4. QED
        BY <3>1, <3>3 DEF SaveRow
    <2>2. ASSUME NEW s \in States, NEW j \in Journals, NEW b \in BOOLEAN,
                 SaveForm(t, s, j, b)
          PROVE  state'[e] = "posted" /\ name'[e] = name[e]
      BY <2>2 DEF SaveForm, SaveRow
    <2>3. CASE CommitLocal(t)
      BY <2>3 DEF CommitLocal
    <2>4. CASE CheckLines(t) \/ RefuseLines(t) \/ LockJournal(t) \/ Reserve(t)
      BY <2>4 DEF CheckLines, RefuseLines, LockJournal, Reserve
    <2>5. QED
      BY <1>1, <2>1, <2>2, <2>3, <2>4 DEF Step
  <1>2. ASSUME NEW f \in Entries, NEW j \in Journals, NEW b \in BOOLEAN, CreateDraft(f, j, b)
        PROVE  state'[e] = "posted" /\ name'[e] = name[e]
    BY <1>2 DEF CreateDraft
  <1>3. ASSUME NEW t \in Threads, NEW f \in Entries,
               \/ \E a \in Acts : Load(t, f, a)
               \/ \E j \in Journals : StartLocal(t, f, j)
        PROVE  UNCHANGED <<state, name>>
    BY <1>3 DEF Load, StartLocal
  <1>4. ASSUME NEW t \in Threads, Crash(t)
        PROVE  UNCHANGED <<state, name>>
    BY <1>4 DEF Crash
  <1>5. ASSUME NEW f \in Entries, Delete(f)
        PROVE  state'[e] = "posted" /\ name'[e] = name[e]
    BY <1>5 DEF Delete
  <1>6. CASE Work
    <2>1. ASSUME UNCHANGED <<state, name>>
          PROVE  state'[e] = "posted" /\ name'[e] = name[e]
      BY <2>1
    <2>2. QED
      BY <1>1, <1>2, <1>3, <1>4, <1>6, <2>1 DEF Work
  <1>7. CASE EntryPage \/ JournalPage \/ UNCHANGED vars
    BY <1>5, <1>7 DEF EntryPage, JournalPage, WriteLine, SaveJournalForm, vars
  <1>8. QED
    BY <1>6, <1>7 DEF Next

(* A posted entry that only one request at a time has held, and no human   *)
(* edited or deleted, stays posted under its number wherever processes     *)
(* die.                                                                    *)
THEOREM LedgerPostedIsFinal == Spec => PostedIsFinal
  <1>1. LedgerInv /\ HolderInv /\ FreshCopyInv /\ [Next]_vars =>
            [\A e \in Entries \ (raced' \cup edited') : state[e] = "posted" =>
                 state'[e] = "posted" /\ name'[e] = name[e]]_vars
    BY FinalStep
  <1>2. QED
    BY <1>1, FreshCopyInvariant, PTL DEF Spec, PostedIsFinal

-----------------------------------------------------------------------------
(* A number is lost only in a race, with a process or by a deletion. *)

NumberKept(e) ==
    \A j \in Journals, n \in 1 .. MaxNumber : e \in owner[j][n] =>
        \/ name[e] = EntryName(j, n)
        \/ \E t \in Threads : cur[t] = e /\ copyName[t] = EntryName(j, n)
        \/ state[e] = "deleted"

GapInv == /\ \A e \in Entries : state[e] = "absent" => name[e] = NoName
          /\ \A e \in Entries \ (raced \cup interrupted) : NumberKept(e)

LEMMA InitGapInv == Init => GapInv
  BY LedgerAssumption DEF Init, GapInv, NumberKept

(* A step after which entry e, or a request holding it, still has what it  *)
(* had.                                                                    *)
LEMMA KeptByFrame ==
  ASSUME NEW e \in Entries, NumberKept(e), name'[e] = name[e],
         state[e] = "deleted" => state'[e] = "deleted",
         \A j \in Journals, n \in 1 .. MaxNumber : e \in owner'[j][n] => e \in owner[j][n],
         \A t \in Threads : cur[t] = e /\ copyName[t] # NoName /\ copyName[t] # name[e] =>
                                cur'[t] = e /\ copyName'[t] = copyName[t]
  PROVE  NumberKept(e)'
  BY NameFacts DEF NumberKept

(* What a reservation does to the owners of the numbers. *)
LEMMA TakenNumber ==
  ASSUME LedgerInv, NEW t \in Threads, pc[t] \in Locking, TakeNumber(t, copyJournal[t])
  PROVE  /\ cur[t] \in Entries /\ copyJournal[t] \in Journals
         /\ number[t] \in 1 .. MaxNumber /\ number[t] = sequence[copyJournal[t]]
         /\ \A j \in Journals, n \in 1 .. MaxNumber :
                owner'[j][n] = IF j = copyJournal[t] /\ n = number[t]
                               THEN owner[j][n] \cup {cur[t]} ELSE owner[j][n]
  <1>1. /\ cur[t] \in Entries /\ copyJournal[t] \in Journals
        /\ number[t] \in 1 .. MaxNumber /\ number[t] = sequence[copyJournal[t]]
    BY DEF LedgerInv, LockInv, Locking
  <1>2. owner \in [Journals -> [1 .. MaxNumber -> SUBSET Entries]]
    BY DEF LedgerInv, TypeOK
  <1>3. PICK i \in Journals, m \in 1 .. MaxNumber, f \in Entries :
            i = copyJournal[t] /\ m = number[t] /\ f = cur[t]
    BY <1>1
  <1>4. owner' = [owner EXCEPT ![i] = [owner[i] EXCEPT ![m] = owner[i][m] \cup {f}]]
    BY <1>2, <1>3 DEF TakeNumber
  <1>5. \A j \in Journals, n \in 1 .. MaxNumber :
            owner'[j][n] = IF j = i /\ n = m THEN owner[i][m] \cup {f} ELSE owner[j][n]
    BY ONLY <1>2, <1>4, TwoLevels
  <1>6. QED
    BY ONLY <1>1, <1>3, <1>5

LEMMA AbsentIsUnnamed ==
  ASSUME LedgerInv, HolderInv, GapInv, [Next]_vars, NEW e \in Entries,
         state'[e] = "absent"
  PROVE  name'[e] = NoName
  <1> USE DEF LedgerInv, TypeOK, LockInv, HolderInv, GapInv, entryVars, States
  <1>1. ASSUME NEW t \in Threads, Step(t)
        PROVE  name'[e] = NoName
    <2>1. CASE CheckLines(t) \/ RefuseLines(t) \/ LockJournal(t) \/ Reserve(t)
      BY <2>1 DEF CheckLines, RefuseLines, LockJournal, Reserve
    <2>2. CASE \/ SavePosted(t) \/ SaveCancelled(t) \/ CommitLocal(t)
               \/ \E s \in States, j \in Journals, b \in BOOLEAN : SaveForm(t, s, j, b)
      <3>1. /\ \E s \in States : \E x : /\ state' = [state EXCEPT ![cur[t]] = s]
                                        /\ name' = [name EXCEPT ![cur[t]] = x]
            /\ cur[t] \in Entries
        <4>1. cur[t] \in Entries
          BY <2>2 DEF SavePosted, SaveCancelled, CommitLocal, SaveForm
        <4>2. CASE CommitLocal(t)
          BY <4>1, <4>2 DEF CommitLocal
        <4>3. CASE \E s \in States : \E j : SaveRow(t, s, j)
          BY <4>1, <4>3 DEF SaveRow
        <4>4. QED
          BY <2>2, <4>2, <4>3 DEF SavePosted, SaveCancelled, SaveForm
      <3>2. QED
        BY <3>1
    <2>3. QED
      BY <1>1, <2>1, <2>2 DEF Step
  <1>2. ASSUME UNCHANGED name,
               \A f \in Entries : state'[f] = "absent" => state[f] = "absent"
        PROVE  name'[e] = NoName
    BY <1>2
  <1>3. ASSUME NEW f \in Entries, NEW j \in Journals, NEW b \in BOOLEAN, CreateDraft(f, j, b)
        PROVE  name'[e] = NoName
    BY <1>2, <1>3 DEF CreateDraft
  <1>4. ASSUME NEW t \in Threads, NEW f \in Entries,
               \/ \E a \in Acts : Load(t, f, a)
               \/ \E j \in Journals : StartLocal(t, f, j)
               \/ Crash(t)
        PROVE  name'[e] = NoName
    BY <1>2, <1>4 DEF Load, StartLocal, Crash
  <1>5. ASSUME NEW t \in Threads, Crash(t)
        PROVE  name'[e] = NoName
    BY <1>2, <1>5 DEF Crash
  <1>6. ASSUME NEW f \in Entries, Delete(f)
        PROVE  name'[e] = NoName
    BY <1>6 DEF Delete
  <1>7. CASE Work
    BY <1>1, <1>3, <1>4, <1>5, <1>7 DEF Work
  <1>8. CASE EntryPage \/ JournalPage \/ UNCHANGED vars
    BY <1>2, <1>6, <1>8 DEF EntryPage, JournalPage, WriteLine, SaveJournalForm, vars
  <1>9. QED
    BY <1>7, <1>8 DEF Next

(* Steps on entry f or of a request that is not saving leave e its number. *)
LEMMA KeptBySave ==
  ASSUME LedgerInv, HolderInv, FreshCopyInv, NEW e \in Entries, NumberKept(e),
         NEW t \in Threads, pc[t] \in {"loaded", "saving"}, Done(t), owner' = owner,
         NEW s \in States, state' = [state EXCEPT ![cur[t]] = s],
         name' = [name EXCEPT ![cur[t]] = copyName[t]], e \notin raced
  PROVE  NumberKept(e)'
  <1> USE DEF LedgerInv, TypeOK, LockInv, States
  <1>1. \A q \in Threads : cur[t] = e /\ cur[q] = e => t = q
    BY LedgerAssumption DEF HolderInv
  <1>2. CASE cur[t] = e
    <2>1. FreshCopy(t)
      BY <1>2 DEF FreshCopyInv
    <2>2. Present(state[e]) /\ name[e] \in {NoName, copyName[t]}
      BY <1>2, <2>1 DEF FreshCopy
    <2>3. name'[e] = copyName[t]
      BY <1>2
    <2>4. ASSUME NEW j \in Journals, NEW n \in 1 .. MaxNumber, e \in owner[j][n]
          PROVE  copyName[t] = EntryName(j, n)
      <3>1. EntryName(j, n) # NoName
        BY NameFacts
      <3>2. \/ name[e] = EntryName(j, n)
            \/ \E q \in Threads : cur[q] = e /\ copyName[q] = EntryName(j, n)
        BY <2>2, <2>4 DEF NumberKept, Present
      <3>3. QED
        BY ONLY <1>1, <1>2, <2>2, <3>1, <3>2
    <2>5. QED
      BY <2>3, <2>4 DEF NumberKept
  <1>3. CASE cur[t] # e
    <2>1. name'[e] = name[e] /\ state'[e] = state[e]
      BY <1>3
    <2>2. \A q \in Threads : cur[q] = e => cur'[q] = e /\ copyName'[q] = copyName[q]
      BY <1>3 DEF Done
    <2>3. QED
      BY <2>1, <2>2, KeptByFrame
  <1>4. QED
    BY <1>2, <1>3

LEMMA KeptByReserve ==
  ASSUME LedgerInv, HolderInv, FreshCopyInv, GapInv, NEW e \in Entries, NumberKept(e),
         NEW t \in Threads, Reserve(t) \/ CommitLocal(t), e \notin raced
  PROVE  NumberKept(e)'
  <1> USE DEF LedgerInv
  <1>1. pc[t] \in {"locked", "local"} /\ TakeNumber(t, copyJournal[t])
    BY DEF Reserve, CommitLocal
  <1>2. PICK i \in Journals, m \in 1 .. MaxNumber, f \in Entries :
            /\ i = copyJournal[t] /\ m = number[t] /\ f = cur[t]
            /\ \A j \in Journals, n \in 1 .. MaxNumber :
                   owner'[j][n] = IF j = i /\ n = m THEN owner[j][n] \cup {f}
                                                    ELSE owner[j][n]
    <2>1. /\ cur[t] \in Entries /\ copyJournal[t] \in Journals /\ number[t] \in 1 .. MaxNumber
          /\ \A j \in Journals, n \in 1 .. MaxNumber :
                 owner'[j][n] = IF j = copyJournal[t] /\ n = number[t]
                                THEN owner[j][n] \cup {cur[t]} ELSE owner[j][n]
      BY ONLY LedgerInv, <1>1, TakenNumber DEF Locking
    <2>2. QED
      BY ONLY <2>1
  <1>3. CASE f = e
    <2>1. name[e] = NoName /\ copyName[t] = NoName /\ state[e] # "deleted"
      <3>1. CASE Reserve(t)
        <4>1. FreshCopy(t) /\ pc[t] = "locked"
          BY <1>2, <1>3, <3>1 DEF FreshCopyInv, Reserve
        <4>2. QED
          BY <1>2, <1>3, <4>1 DEF FreshCopy, Present, States
      <3>2. CASE CommitLocal(t)
        <4>1. pc[t] = "local" /\ cur[t] = e
          BY <1>2, <1>3, <3>2 DEF CommitLocal
        <4>2. state[e] = "absent" /\ copyName[t] = NoName
          BY ONLY <4>1, HolderInv, OwnerInv, LedgerInv DEF HolderInv, OwnerInv
        <4>3. QED
          BY ONLY <4>2, GapInv DEF GapInv
      <3>3. QED
        BY <3>1, <3>2
    <2>2. \A q \in Threads : cur[q] = e => q = t
      <3>1. cur[t] = e /\ e # NoEntry
        BY <1>2, <1>3, LedgerAssumption
      <3>2. QED
        BY ONLY <3>1, HolderInv, e \notin raced DEF HolderInv
    <2>3. \A j \in Journals, n \in 1 .. MaxNumber : e \notin owner[j][n]
      BY <2>1, <2>2, NameFacts DEF NumberKept
    <2>4. \A j \in Journals, n \in 1 .. MaxNumber : e \in owner'[j][n] => j = i /\ n = m
      BY <1>2, <2>3
    <2>5. \/ cur'[t] = e /\ copyName'[t] = EntryName(i, m)
          \/ name'[e] = EntryName(i, m)
      <3>1. CASE Reserve(t)
        <4>1. cur'[t] = e /\ copyName' = [copyName EXCEPT ![t] = EntryName(i, m)]
          BY <1>2, <1>3, <3>1 DEF Reserve
        <4>2. QED
          BY ONLY <4>1, LedgerInv DEF LedgerInv, TypeOK
      <3>2. CASE CommitLocal(t)
        <4>1. name' = [name EXCEPT ![e] = EntryName(i, m)]
          BY <1>2, <1>3, <3>2 DEF CommitLocal
        <4>2. QED
          BY ONLY <4>1, LedgerInv DEF LedgerInv, TypeOK
      <3>3. QED
        BY <3>1, <3>2
    <2>6. QED
      BY <2>4, <2>5 DEF NumberKept
  <1>4. CASE f # e
    <2>1. ASSUME NEW j \in Journals, NEW n \in 1 .. MaxNumber, e \in owner'[j][n]
          PROVE  e \in owner[j][n]
      <3>1. CASE j = i /\ n = m
        <4>1. owner'[j][n] = owner[j][n] \cup {f}
          BY ONLY <1>2, <3>1
        <4>2. QED
          BY ONLY <1>4, <2>1, <4>1
      <3>2. CASE ~(j = i /\ n = m)
        BY ONLY <1>2, <2>1, <3>2
      <3>3. QED
        BY ONLY <3>1, <3>2
    <2>2. /\ name'[e] = name[e] /\ state'[e] = state[e]
          /\ \A q \in Threads : cur[q] = e => cur'[q] = e /\ copyName'[q] = copyName[q]
      <3>1. CASE Reserve(t)
        BY <1>2, <1>4, <3>1 DEF Reserve, entryVars, TypeOK
      <3>2. CASE CommitLocal(t)
        BY <1>2, <1>4, <3>2 DEF CommitLocal, Done, TypeOK
      <3>3. QED
        BY <3>1, <3>2
    <2>3. QED
      BY <2>1, <2>2, KeptByFrame
  <1>5. QED
    BY <1>3, <1>4

LEMMA GapStep ==
  ASSUME LedgerInv, HolderInv, FreshCopyInv, GapInv, [Next]_vars
  PROVE  GapInv'
  <1> SUFFICES ASSUME NEW e \in Entries, e \notin raced' \cup interrupted'
               PROVE  NumberKept(e)'
    BY AbsentIsUnnamed DEF GapInv
  <1> USE DEF LedgerInv, TypeOK, LockInv, HolderInv
  <1>0. raced \subseteq raced' /\ interrupted \subseteq interrupted'
    <2>1. ASSUME NEW t \in Threads, Step(t)
          PROVE  UNCHANGED <<raced, interrupted>>
      BY <2>1
      DEF Step, CheckLines, RefuseLines, LockJournal, Reserve, SavePosted, SaveCancelled,
          SaveForm, SaveRow, CommitLocal, history
    <2>2. CASE Work
      BY <2>1, <2>2 DEF Work, CreateDraft, Load, StartLocal, Crash, history
    <2>3. CASE EntryPage \/ JournalPage \/ UNCHANGED vars
      BY <2>3 DEF EntryPage, JournalPage, WriteLine, SaveJournalForm, Delete, vars, history
    <2>4. QED
      BY <2>2, <2>3 DEF Next
  <1>a. e \notin raced /\ e \notin interrupted
    BY <1>0
  <1>b. NumberKept(e)
    BY <1>a DEF GapInv
  <1>1. ASSUME NEW f \in Entries, NEW j \in Journals, NEW b \in BOOLEAN, CreateDraft(f, j, b)
        PROVE  NumberKept(e)'
    <2>1. /\ UNCHANGED <<name, owner, cur, copyName>>
          /\ state[e] = "deleted" => state'[e] = "deleted"
      BY <1>1 DEF CreateDraft, localVars
    <2>2. QED
      BY <1>b, <2>1, KeptByFrame
  <1>2. ASSUME NEW t \in Threads, pc[t] = "idle", UNCHANGED <<state, name, owner>>,
               \A q \in Threads \ {t} : cur'[q] = cur[q] /\ copyName'[q] = copyName[q]
        PROVE  NumberKept(e)'
    <2>1. cur[t] # e
      BY <1>2, LedgerAssumption
    <2>2. \A q \in Threads : cur[q] = e => cur'[q] = e /\ copyName'[q] = copyName[q]
      BY <1>2, <2>1
    <2>3. QED
      BY ONLY <1>b, <1>2, <2>2, KeptByFrame
  <1>3. ASSUME NEW t \in Threads, NEW f \in Entries,
               \/ \E a \in Acts : Load(t, f, a)
               \/ \E j \in Journals : StartLocal(t, f, j)
        PROVE  NumberKept(e)'
    <2>1. /\ pc[t] = "idle" /\ UNCHANGED <<state, name, owner>>
          /\ \A q \in Threads \ {t} : cur'[q] = cur[q] /\ copyName'[q] = copyName[q]
      BY <1>3 DEF Load, StartLocal, Idle, entryVars
    <2>2. QED
      BY ONLY <1>2, <2>1
  <1>4. ASSUME UNCHANGED <<state, name, owner, cur, copyName>>
        PROVE  NumberKept(e)'
    BY <1>b, <1>4, KeptByFrame
  <1>5. ASSUME NEW t \in Threads, RefuseLines(t)
        PROVE  NumberKept(e)'
    <2>1. cur[t] = e => copyName[t] = name[e]
      <3>1. pc[t] = "loaded"
        BY <1>5 DEF RefuseLines
      <3>2. QED
        BY ONLY <3>1, <1>a, FreshCopyInv DEF FreshCopyInv, FreshCopy
    <2>2. Done(t) /\ UNCHANGED <<state, name, owner>>
      BY <1>5 DEF RefuseLines, entryVars
    <2>3. QED
      BY <1>b, <2>1, <2>2, KeptByFrame DEF Done
  <1>6. ASSUME NEW t \in Threads, Crash(t)
        PROVE  NumberKept(e)'
    <2>1. cur[t] # e \/ copyName[t] = NoName
      BY <1>6 DEF Crash, OwnerInv
    <2>2. Done(t) /\ UNCHANGED <<state, name, owner>>
      BY <1>6 DEF Crash, entryVars
    <2>3. QED
      BY <1>b, <2>1, <2>2, KeptByFrame DEF Done
  <1>7. ASSUME NEW t \in Threads,
               \/ SavePosted(t) \/ SaveCancelled(t)
               \/ \E s \in States, j \in Journals, b \in BOOLEAN : SaveForm(t, s, j, b)
        PROVE  NumberKept(e)'
    <2>1. /\ pc[t] \in {"loaded", "saving"} /\ Done(t) /\ owner' = owner
          /\ name' = [name EXCEPT ![cur[t]] = copyName[t]]
          /\ \E s \in States : state' = [state EXCEPT ![cur[t]] = s]
      BY <1>7 DEF SavePosted, SaveCancelled, SaveForm, SaveRow, States
    <2>2. PICK s \in States : state' = [state EXCEPT ![cur[t]] = s]
      BY <2>1
    <2>3. QED
      BY ONLY LedgerInv, HolderInv, FreshCopyInv, <1>a, <1>b, <2>1, <2>2, KeptBySave
  <1>8. ASSUME NEW f \in Entries, Delete(f)
        PROVE  NumberKept(e)'
    <2>1. CASE f = e
      <3>1. state'[e] = "deleted"
        BY <1>8, <2>1 DEF Delete
      <3>2. QED
        BY <3>1 DEF NumberKept
    <2>2. CASE f # e
      <3>1. /\ name'[e] = name[e] /\ state'[e] = state[e]
            /\ UNCHANGED <<owner, cur, copyName>>
        BY <1>8, <2>2 DEF Delete, localVars
      <3>2. QED
        BY <1>b, <3>1, KeptByFrame
    <2>3. QED
      BY <2>1, <2>2
  <1>9. ASSUME NEW t \in Threads, Step(t)
        PROVE  NumberKept(e)'
    <2>1. CASE CheckLines(t) \/ LockJournal(t)
      BY <1>4, <2>1 DEF CheckLines, LockJournal, entryVars
    <2>2. QED
      BY <1>5, <1>7, <1>9, <1>a, <1>b, <2>1, KeptByReserve DEF Step
  <1>10. CASE Work
    BY <1>1, <1>3, <1>6, <1>9, <1>10 DEF Work
  <1>11. CASE EntryPage \/ JournalPage \/ UNCHANGED vars
    BY <1>4, <1>8, <1>11
       DEF EntryPage, JournalPage, WriteLine, SaveJournalForm, vars, entryVars, localVars
  <1>12. QED
    BY <1>10, <1>11 DEF Next

(* Every number a journal handed out is on the entry it was reserved for,  *)
(* or its request is about to save it, unless requests raced for the entry,*)
(* its request died or it was deleted; and a number behind the sequence    *)
(* was handed out unless the journal's form skipped it.                    *)
THEOREM LedgerGapNeedsRaceOrCrash == Spec => []GapNeedsRaceOrCrash
  <1>1. LedgerInv /\ GapInv => GapNeedsRaceOrCrash
    <2> SUFFICES ASSUME LedgerInv, GapInv, NEW j \in Journals, NEW n \in 1 .. sequence[j] - 1
                 PROVE  /\ owner[j][n] = {} => j \in advanced
                        /\ \A e \in owner[j][n] :
                               \/ name[e] = EntryName(j, n)
                               \/ \E t \in Threads : cur[t] = e /\ copyName[t] = EntryName(j, n)
                               \/ state[e] = "deleted"
                               \/ e \in raced \cup interrupted
      BY DEF GapNeedsRaceOrCrash
    <2>1. n \in 1 .. MaxNumber /\ n < sequence[j]
      BY LedgerAssumption DEF LedgerInv, TypeOK
    <2>2. owner[j][n] \subseteq Entries
      <3>1. owner \in [Journals -> [1 .. MaxNumber -> SUBSET Entries]]
        BY DEF LedgerInv, TypeOK
      <3>2. QED
        BY ONLY <2>1, <3>1
    <2>3. \A e \in owner[j][n] : e \in raced \cup interrupted \/ NumberKept(e)
      BY <2>2 DEF GapInv
    <2>4. owner[j][n] = {} => j \in advanced
      BY <2>1 DEF LedgerInv, OwnerInv
    <2>5. QED
      BY <2>1, <2>3, <2>4 DEF NumberKept
  <1>2. LedgerInv /\ HolderInv /\ FreshCopyInv /\ GapInv /\ [Next]_vars => GapInv'
    BY GapStep
  <1>3. QED
    BY <1>1, <1>2, InitGapInv, FreshCopyInvariant, PTL DEF Spec

-----------------------------------------------------------------------------
(* Refinement of the entry's lifecycle. *)

LifecycleInv == LedgerInv /\ HolderInv /\ FreshCopyInv

(* A number in a copy is the entry's own. *)
LEMMA CopyIsOwn ==
  ASSUME LedgerInv, NEW t \in Threads, copyName[t] # NoName
  PROVE  copyName[t] \in Entry!Numbers /\ Entry!IsOwn(cur[t], copyName[t])
  <1>1. copyName[t] \in Names
    BY DEF LedgerInv, TypeOK
  <1>2. PICK j \in Journals, n \in 1 .. MaxNumber : copyName[t] = <<j, n>>
    BY <1>1 DEF Names
  <1>3. cur[t] \in owner[j][n]
    BY <1>2 DEF LedgerInv, OwnerInv, EntryName
  <1>4. QED
    BY <1>2, <1>3 DEF Entry!IsOwn, Entry!Numbers

(* Whatever a request saves over an entry that was raced for overwrites it *)
(* with a number of its own or none.                                       *)
LEMMA RacedSave ==
  ASSUME LedgerInv, NEW t \in Threads, NEW s \in States, NEW j \in Journals,
         cur[t] \in raced, SaveRow(t, s, j)
  PROVE  Entry!Next
  <1>1. PICK e \in Entries, x \in Names \cup {NoName} : e = cur[t] /\ x = copyName[t]
    BY DEF LedgerInv, TypeOK
  <1>2. x = NoName \/ (x \in Entry!Numbers /\ Entry!IsOwn(e, x))
    BY <1>1, CopyIsOwn
  <1>3. Entry!Overwrite(e, s, j, x)
    BY <1>1, <1>2 DEF Entry!Overwrite, SaveRow, journalVars
  <1>4. s \in Entry!Present
    BY DEF States, Entry!Present
  <1>5. QED
    BY <1>2, <1>3, <1>4 DEF Entry!Next

LEMMA PostedStep ==
  ASSUME LifecycleInv, NEW t \in Threads, SavePosted(t), cur[t] \notin raced
  PROVE  Entry!Next
  <1> USE DEF LifecycleInv, LedgerInv
  <1>1. pc[t] = "saving" /\ SaveRow(t, "posted", copyJournal[t])
    BY DEF SavePosted
  <1>2. PICK e \in Entries, x \in Names \cup {NoName} : e = cur[t] /\ x = copyName[t]
    BY <1>1 DEF LockInv, TypeOK
  <1>3. /\ state[e] = "draft" /\ x # NoName /\ name[e] \in {NoName, x}
        /\ copyJournal[t] = journal[e]
    <2>1. FreshCopy(t)
      BY <1>1 DEF FreshCopyInv
    <2>2. act[t] = "post"
      BY <1>1 DEF HolderInv
    <2>3. QED
      BY <1>1, <1>2, <2>1, <2>2 DEF FreshCopy
  <1>4. x \in Entry!Numbers /\ Entry!IsOwn(e, x)
    BY <1>2, <1>3, CopyIsOwn
  <1>5. journal' = journal
    BY <1>1, <1>2, <1>3 DEF SaveRow, TypeOK
  <1>6. Entry!Post(e, x)
    BY <1>1, <1>2, <1>3, <1>4, <1>5 DEF SaveRow, Entry!Post, journalVars
  <1>7. QED
    BY <1>4, <1>6 DEF Entry!Next

(* A copy saved without a post writes the number the entry has. *)
LEMMA OtherSaveStep ==
  ASSUME LifecycleInv, NEW t \in Threads, cur[t] \notin raced,
         \/ SaveCancelled(t)
         \/ \E s \in States, j \in Journals, b \in BOOLEAN : SaveForm(t, s, j, b)
  PROVE  Entry!Next
  <1> USE DEF LifecycleInv, LedgerInv
  <1>1. PICK e \in Entries : e = cur[t]
    BY DEF SaveCancelled, SaveForm, LockInv
  <1>2. FreshCopy(t) /\ pc[t] = "loaded"
    BY DEF SaveCancelled, SaveForm, FreshCopyInv
  <1>3. state[e] \in States /\ copyName[t] = name[e] /\ copyJournal[t] = journal[e]
    BY <1>1, <1>2 DEF FreshCopy, Present
  <1>4. [name EXCEPT ![e] = copyName[t]] = name /\ [journal EXCEPT ![e] = copyJournal[t]] = journal
    BY <1>3 DEF TypeOK
  <1>5. ASSUME SaveCancelled(t)
        PROVE  Entry!Cancel(e)
    <2>1. state[e] \in {"draft", "cancelled"}
      BY <1>1, <1>2, <1>3, <1>5 DEF SaveCancelled, FreshCopy, States
    <2>2. QED
      BY <1>1, <1>4, <1>5, <2>1 DEF SaveCancelled, SaveRow, Entry!Cancel, journalVars
  <1>6. ASSUME NEW s \in States, NEW j \in Journals, NEW b \in BOOLEAN,
               SaveForm(t, s, j, b)
        PROVE  Entry!Correct(e, s, j)
    BY <1>1, <1>3, <1>4, <1>6
       DEF SaveForm, SaveRow, Entry!Correct, Entry!Present, States, journalVars
  <1>7. QED
    BY <1>5, <1>6 DEF Entry!Next, Entry!Present, States

LEMMA NumberStep ==
  ASSUME LifecycleInv, NEW t \in Threads, Reserve(t) \/ CommitLocal(t)
  PROVE  Entry!Next
  <1> USE DEF LifecycleInv, LedgerInv
  <1>1. pc[t] \in Locking /\ TakeNumber(t, copyJournal[t])
    BY DEF Reserve, CommitLocal, Locking
  <1>2. PICK e \in Entries, j \in Journals, n \in 1 .. MaxNumber :
            e = cur[t] /\ j = copyJournal[t] /\ n = number[t] /\ n = sequence[j]
    BY <1>1, TakenNumber
  <1>3. Entry!HandOut(e, j)
    BY <1>1, <1>2, LedgerAssumption DEF TakeNumber, Following, Entry!HandOut, TypeOK
  <1>4. CASE Reserve(t)
    <2>1. e \in raced \/ (journal[e] = j /\ name[e] = NoName)
      <3>1. ASSUME e \notin raced
            PROVE  FreshCopy(t) /\ pc[t] = "locked"
        BY <1>2, <1>4, <3>1 DEF Reserve, FreshCopyInv
      <3>2. QED
        BY <1>2, <3>1 DEF FreshCopy
    <2>2. Entry!Reserve(e, j)
      BY <1>3, <1>4, <2>1 DEF Reserve, entryVars, history, Entry!Reserve
    <2>3. QED
      BY <2>2 DEF Entry!Next
  <1>5. CASE CommitLocal(t)
    <2>1. state[e] = "absent"
      BY <1>2, <1>5 DEF CommitLocal, HolderInv
    <2>2. Entry!PostAtOnce(e, j)
      BY <1>2, <1>3, <1>5, <2>1 DEF CommitLocal, history, EntryName, Entry!PostAtOnce
    <2>3. QED
      BY <2>2 DEF Entry!Next
  <1>6. QED
    BY <1>4, <1>5

LEMMA RequestImplementsEntry ==
  ASSUME LifecycleInv, NEW t \in Threads, Step(t)
  PROVE  Entry!Next \/ UNCHANGED Entry!entryVars
  <1>1. CASE CheckLines(t) \/ RefuseLines(t) \/ LockJournal(t)
    BY <1>1
    DEF CheckLines, RefuseLines, LockJournal, entryVars, journalVars, history,
        Entry!entryVars
  <1>2. CASE Reserve(t) \/ CommitLocal(t)
    BY <1>2, NumberStep
  <1>3. CASE \/ SavePosted(t) \/ SaveCancelled(t)
             \/ \E s \in States, j \in Journals, b \in BOOLEAN : SaveForm(t, s, j, b)
    <2>1. CASE cur[t] \in raced
      <3>1. \E s \in States, j \in Journals : SaveRow(t, s, j)
        <4>1. copyJournal[t] \in Journals
          BY <1>3 DEF SavePosted, SaveCancelled, SaveForm, LifecycleInv, LedgerInv, LockInv
        <4>2. QED
          BY <1>3, <4>1 DEF SavePosted, SaveCancelled, SaveForm, States
      <3>2. QED
        BY <2>1, <3>1, RacedSave DEF LifecycleInv
    <2>2. QED
      BY <1>3, <2>1, PostedStep, OtherSaveStep
  <1>4. QED
    BY <1>1, <1>2, <1>3 DEF Step

LEMMA StepImplementsEntry ==
  ASSUME LifecycleInv, [Next]_vars
  PROVE  [Entry!Next]_(Entry!entryVars)
  <1> USE DEF Entry!entryVars, entryVars, journalVars, history
  <1>1. ASSUME NEW e \in Entries, NEW j \in Journals, NEW b \in BOOLEAN, CreateDraft(e, j, b)
        PROVE  Entry!Next
    <2>1. Entry!Draft(e, j)
      BY <1>1 DEF CreateDraft, Entry!Draft
    <2>2. QED
      BY <2>1 DEF Entry!Next
  <1>2. ASSUME NEW t \in Threads, NEW e \in Entries, NEW a \in Acts, Load(t, e, a)
        PROVE  Entry!Next \/ UNCHANGED Entry!entryVars
    <2>1. CASE raced' = raced
      BY <1>2, <2>1 DEF Load
    <2>2. CASE raced' = raced \cup {e}
      <3>1. Entry!Race(e)
        BY <1>2, <2>2 DEF Load, Entry!Race
      <3>2. QED
        BY <3>1 DEF Entry!Next
    <2>3. QED
      BY <1>2, <2>1, <2>2 DEF Load
  <1>3. ASSUME NEW t \in Threads, NEW e \in Entries, NEW j \in Journals, StartLocal(t, e, j)
        PROVE  UNCHANGED Entry!entryVars
    BY <1>3 DEF StartLocal
  <1>4. ASSUME NEW t \in Threads, Crash(t)
        PROVE  UNCHANGED Entry!entryVars
    BY <1>4 DEF Crash
  <1>5. ASSUME NEW e \in Entries, Delete(e)
        PROVE  Entry!Next
    <2>1. Entry!Delete(e)
      BY <1>5 DEF Delete, Present, States, Entry!Delete, Entry!Present
    <2>2. QED
      BY <2>1 DEF Entry!Next
  <1>6. ASSUME NEW j \in Journals, NEW n \in 1 .. MaxNumber + 1, SaveJournalForm(j, n)
        PROVE  Entry!Next
    <2>1. Entry!Renumber(j, n)
      BY <1>6 DEF SaveJournalForm, Entry!Renumber
    <2>2. QED
      BY <2>1 DEF Entry!Next
  <1>7. CASE Work
    BY <1>1, <1>2, <1>3, <1>4, <1>7, RequestImplementsEntry DEF Work
  <1>8. CASE EntryPage
    BY <1>5, <1>8 DEF EntryPage, WriteLine
  <1>9. CASE JournalPage \/ UNCHANGED vars
    BY <1>6, <1>9 DEF JournalPage, vars
  <1>10. QED
    BY <1>7, <1>8, <1>9 DEF Next

(* Every behaviour of the ledger is one of the entry's lifecycle: a draft  *)
(* is posted once, under its own number, a number carried is kept until    *)
(* the entry is deleted, a standalone post is one step, and nothing else   *)
(* happens to an entry outside a race, the change form or a deletion, nor  *)
(* to a journal's sequence outside a reservation or its form.              *)
THEOREM LedgerImplementsEntryLifecycle == Spec => ImplementsEntryLifecycle
  <1>1. Init => Entry!Init
    BY DEF Init, Entry!Init
  <1>2. LedgerInv /\ HolderInv /\ FreshCopyInv /\ [Next]_vars
            => [Entry!Next]_(Entry!entryVars)
    BY StepImplementsEntry DEF LifecycleInv
  <1>3. QED
    BY <1>1, <1>2, FreshCopyInvariant, PTL DEF Spec, ImplementsEntryLifecycle, Entry!Spec
=============================================================================
