-------------------------------- MODULE Ledger --------------------------------
(***************************************************************************)
(* The Proof Ledger of a repository: src/ledger/file.ts and the file       *)
(* PROOF.md, which the user keeps under version control.                   *)
(*                                                                         *)
(* An append reads the whole file, renders it anew with one entry more and *)
(* writes it back; nothing locks it.  writeFile truncates first, so that a *)
(* reader or a kill can fall before the text is there, and a kill or a     *)
(* full disk may leave a prefix of it: the header with its statistics, and *)
(* some of the entries.                                                    *)
(*                                                                         *)
(* Simplifications: an entry is its key, its improvement and the command   *)
(* that appends it; the file holds the entries in order of time, so that   *)
(* a set of them will do; a block cut in two has no closing fence, is not  *)
(* found by the parser, and is not there.                                  *)
(***************************************************************************)
EXTENDS Naturals, FiniteSets

CONSTANTS
  Commands,   \* the commands that run on the repository
  Runs,       \* run ids
  PerRun,     \* accepted experiments of each run
  Tears       \* TRUE when a write may be cut

ASSUME LedgerAssumption ==
  /\ Runs \subseteq Nat /\ PerRun \in Nat
  /\ Tears \in BOOLEAN

VARIABLES
  ledger,     \* PROOF.md
  pc,         \* pc[c]: where command c is
  entry,      \* entry[c]: the entry it records
  seen,       \* seen[c]: the file as it read it
  recorded,   \* keys of the entries whose append returned
  unseen      \* keys of entries that a later append did not find in the file

ledgerVars == <<ledger, seen, recorded, unseen>>

-----------------------------------------------------------------------------
(* Entries and files *)

\* Accepted experiments.
Winners == Runs \X (1..PerRun)

TaskEntry(r, c) == [kind |-> "task", run |-> r, node |-> 0, pct |-> 0, by |-> c]
WinnerEntry(w, c) ==
  [kind |-> "optimization", run |-> w[1], node |-> w[2], pct |-> w[2], by |-> c]

\* entryKey.
Key(e) == IF e.kind = "optimization" THEN <<e.kind, e.run, e.node>> ELSE <<e.kind, e.run>>
Keys(entries) == {Key(e) : e \in entries}

NoStats == [optimizations |-> 0, tasks |-> 0, best |-> 0, stated |-> FALSE]

\* computeStats.
Stats(entries) ==
  LET won == {e \in entries : e.kind = "optimization"} IN
  [optimizations |-> Cardinality(won),
   tasks |-> Cardinality(entries \ won),
   best |-> IF won = {} THEN 0
            ELSE CHOOSE p \in {e.pct : e \in won} : \A e \in won : e.pct <= p,
   stated |-> TRUE]

\* The header's statistics, the entries that parse, and those the user has
\* spoilt (parseLedger names them as problems).
Absent == [exists |-> FALSE, stats |-> NoStats, entries |-> {}, spoilt |-> {}]
Blank == [Absent EXCEPT !.exists = TRUE]

\* renderLedger.
Rendered(entries) == [Blank EXCEPT !.stats = Stats(entries), !.entries = entries]

\* Mutant of Verified: the header is not compared to the entries.
VerifiedUncounted(f) == f.exists /\ f.spoilt = {} /\ f.stats.stated

\* verifyLedger: no problem, no key twice, and a header that agrees.
Verified(f) ==
  /\ f.exists /\ f.spoilt = {}
  /\ \A d, e \in f.entries : Key(d) = Key(e) => d = e
  /\ f.stats = Stats(f.entries)

-----------------------------------------------------------------------------
(* appendLedgerEntry, of command c *)

Go(c, from, to) == pc[c] = from /\ pc' = [pc EXCEPT ![c] = to]

LedgerInit ==
  /\ ledger = Absent
  /\ seen = [c \in Commands |-> Absent]
  /\ recorded = {} /\ unseen = {}

\* readFile, parse, and look for the key.  A file that is not there is an
\* empty ledger; one with a problem throws, which its callers only report.
ReadLedger(c) ==
  /\ LET known == Key(entry[c]) \in Keys(ledger.entries) IN
       Go(c, "ledger", IF ledger.spoilt # {} \/ known THEN "done" ELSE "truncate")
  /\ seen' = [seen EXCEPT ![c] = ledger]
  /\ UNCHANGED <<ledger, entry, recorded, unseen>>

TruncateLedger(c) ==
  /\ Go(c, "truncate", "write")
  /\ ledger' = Blank
  /\ UNCHANGED <<entry, seen, recorded, unseen>>

\* The file as it was read, and the entry.
Update(c) == seen[c].entries \cup {entry[c]}

Unread(c) == (recorded \ Keys(Update(c))) \ Keys(seen[c].spoilt)

WriteLedger(c) ==
  /\ Go(c, "write", "done")
  /\ ledger' = Rendered(Update(c))
  /\ recorded' = recorded \cup {Key(entry[c])}
  /\ unseen' = unseen \cup Unread(c)
  /\ UNCHANGED <<entry, seen>>

\* The disk is full, or the command is killed: some of the text is there.
TearLedger(c) ==
  /\ Tears
  /\ Go(c, "write", "done")
  /\ \E part \in SUBSET Update(c) :
       ledger' \in {Blank, [Rendered(part) EXCEPT !.stats = Stats(Update(c))]}
  /\ unseen' = unseen \cup Unread(c)
  /\ UNCHANGED <<entry, seen, recorded>>

\* The user breaks a block by hand, and mends it.
Spoil ==
  /\ \E e \in ledger.entries :
       ledger' = [ledger EXCEPT !.entries = @ \ {e}, !.spoilt = @ \cup {e}]
  /\ UNCHANGED <<pc, entry, seen, recorded, unseen>>

Mend ==
  /\ ledger.spoilt # {}
  /\ ledger' = [ledger EXCEPT !.entries = @ \cup ledger.spoilt, !.spoilt = {}]
  /\ UNCHANGED <<pc, entry, seen, recorded, unseen>>

AppendStep(c) == ReadLedger(c) \/ TruncateLedger(c) \/ WriteLedger(c) \/ TearLedger(c)

-----------------------------------------------------------------------------
(* Properties *)

\* `paxcli ledger verify` vouches for a ledger only if it holds every entry
\* whose append returned, but for those which a later append did not find: a
\* cut write never verifies, a block that does not parse is never dropped.
VerifiedComplete ==
  Verified(ledger) => recorded \subseteq Keys(ledger.entries) \cup unseen

\* Applying a winner or a task again records nothing twice, whatever appends
\* overlap and wherever writes are cut.
EntriesOnce ==
  \A d, e \in ledger.entries \cup ledger.spoilt : Key(d) = Key(e) => d = e

=============================================================================
