---------------------------- MODULE SessionTree -----------------------------
(***************************************************************************)
(* SessionManager of the coding agent: a session is a tree of entries,     *)
(* appended to one JSONL file, with a leaf that says where the             *)
(* conversation stands.  Several managers (processes, or sessions opened   *)
(* one after the other) may work on the same file, any of them may die     *)
(* between two calls, and a write may fail or be cut short.                *)
(*                                                                         *)
(* Ids stand for the random ids of the code, 0 for null.  Kind "user"      *)
(* stands for every entry that is neither an assistant message nor one of  *)
(* the other kinds named here.                                             *)
(***************************************************************************)
EXTENDS Naturals, Sequences, FiniteSets, SequencesExt, Selection

CONSTANTS
  Managers,      \* SessionManager instances of any process
  MaxFiles,      \* bound: session file names handed out
  MaxEntries,    \* bound: entries appended (a fork's labels come on top)
  MaxFaults      \* bound: writes that fail or are cut short

ASSUME BoundAssumption == MaxFiles \in Nat /\ MaxEntries \in Nat /\ MaxFaults \in Nat

VARIABLES
  mem,       \* per manager: its file, fileEntries, leafId and flushed
  exists,    \* the session files on disk
  lines,     \* the lines of each of them
  names,     \* file names handed out
  ids,       \* entry ids handed out
  faults,    \* writes that failed
  damaged    \* files a failed write touched, and copies of them

disk == <<exists, lines>>
vars == <<mem, exists, lines, names, ids, faults, damaged>>

Files == 1..MaxFiles
PlainKinds == {"user", "assistant"}
Kinds == PlainKinds \union {"label", "unlabel", "compaction", "branch_summary"}
Entry == [id : Nat, parent : Nat, kind : Kinds, ref : Nat]
Header == [id |-> 0, parent |-> 0, kind |-> "session", ref |-> 0]
Malformed == [id |-> 0, parent |-> 0, kind |-> "malformed", ref |-> 0]

(* Mutant: an entry is written without the end of its line.                 *)
LineUnended(e) == [entry |-> e, newline |-> FALSE]

(* A line is what JSON.parse makes of it; the last one of a file may lack   *)
(* its newline.                                                             *)
Line(e) == [entry |-> e, newline |-> TRUE]
Unfinished(e) == [entry |-> e, newline |-> FALSE]
LinesOf(es) == <<Line(Header)>> \o [i \in DOMAIN es |-> Line(es[i])]

Closed == [file |-> 0, entries |-> <<>>, leaf |-> 0, flushed |-> FALSE, failed |-> FALSE]
Fresh(f) == [Closed EXCEPT !.file = f]

IsOpen(m) == mem[m].file /= 0

Init ==
  /\ mem = [m \in Managers |-> Closed]
  /\ exists = {} /\ lines = [f \in Files |-> <<>>]
  /\ names = 0 /\ ids = 0 /\ faults = 0 /\ damaged = {}

-----------------------------------------------------------------------------
(* Reading entries.                                                         *)

IdsOf(es) == {es[i].id : i \in DOMAIN es}
ById(es, id) == es[CHOOSE i \in DOMAIN es : es[i].id = id]

(* getBranch: from an entry to its root, as far as parents can be found.    *)
Branch(es, leaf) ==
  LET path[id \in Nat] ==
        IF id \in IdsOf(es) THEN Append(path[ById(es, id).parent], ById(es, id)) ELSE <<>>
  IN  path[leaf]

(* What loadEntriesFromFile returns: every line but the malformed ones.     *)
Parsed(f) ==
  LET entries == [i \in DOMAIN lines[f] |-> lines[f][i].entry]
  IN  Selected(entries, Entry \union {Header})

Loadable(f) ==
  LET entries == Parsed(f) IN f \in exists /\ entries /= <<>> /\ Head(entries) = Header
Loaded(f) == Tail(Parsed(f))

Answered(es) == \E i \in DOMAIN es : es[i].kind = "assistant"

IsLabel(e) == e.kind \in {"label", "unlabel"}
Unlabelled == {e \in Entry : ~IsLabel(e)}

(* labelsById: the entries whose last label change set a label.             *)
Labelled(es) ==
  {es[i].ref : i \in {j \in DOMAIN es :
     /\ es[j].kind = "label"
     /\ \A k \in DOMAIN es : k > j /\ IsLabel(es[k]) /\ es[k].ref = es[j].ref
                               => es[k].kind = "label"}}

Compactions(path) == {i \in DOMAIN path : path[i].kind = "compaction"}
LatestCompaction(path) == CHOOSE c \in Compactions(path) : \A d \in Compactions(path) : d <= c
PositionOf(path, id) == {i \in DOMAIN path : path[i].id = id}

(* buildContextEntries: the latest compaction, what it kept, what follows.  *)
ContextEntries(path) ==
  IF Compactions(path) = {} THEN path
  ELSE LET c == LatestCompaction(path)
           kept == {i \in PositionOf(path, path[c].ref) : i < c}
           from == IF kept = {} THEN c ELSE CHOOSE i \in kept : TRUE
       IN  <<path[c]>> \o SubSeq(path, from, c - 1) \o SubSeq(path, c + 1, Len(path))

(* The messages of buildSessionContext: labels contribute none.             *)
ContextMessages(path) ==
  LET shown == Selected(ContextEntries(path), Unlabelled)
  IN  [i \in DOMAIN shown |-> shown[i].id]

-----------------------------------------------------------------------------
(* Writing.  What is appended to an unterminated line joins it, and neither *)
(* parses any more.                                                         *)
Appended(b, ls) ==
  IF b = <<>> \/ Last(b).newline THEN b \o ls
  ELSE Front(b) \o <<[Head(ls) EXCEPT !.entry = Malformed]>> \o Tail(ls)

(* What a write that is cut short may leave of the lines ls behind b: whole *)
(* lines, then perhaps one without its newline, complete JSON or not.       *)
Partials(b, ls) ==
  {Appended(b, ls2) : ls2 \in
     {SubSeq(ls, 1, k) : k \in 1..(Len(ls) - 1)} \union
     UNION {{Append(SubSeq(ls, 1, k - 1), Unfinished(e)) : e \in {Malformed, ls[k].entry}} :
              k \in DOMAIN ls}}
  \union {b}

(* The lines ls are written to f behind b, and m goes on as done; or the    *)
(* write fails, and m goes on as thrown or dies.                            *)
Write(m, f, b, ls, done, thrown, harmed) ==
  /\ exists' = exists \union {f}
  /\ \/ /\ lines' = [lines EXCEPT ![f] = Appended(b, ls)]
        /\ mem' = [mem EXCEPT ![m] = done]
        /\ damaged' = harmed /\ UNCHANGED faults
     \/ /\ faults < MaxFaults
        /\ faults' = faults + 1 /\ damaged' = damaged \union {f}
        /\ \E ls2 \in Partials(b, ls) : lines' = [lines EXCEPT ![f] = ls2]
        /\ \E after \in {thrown, Closed} : mem' = [mem EXCEPT ![m] = after]

(* The file is opened for appending, or to be written from its start.       *)
AppendTo(m, f, ls, done, thrown) == Write(m, f, lines[f], ls, done, thrown, damaged)
Rewrite(m, f, ls, done, thrown, harmed) == Write(m, f, <<>>, ls, done, thrown, harmed)

Remember(m, s) ==
  /\ mem' = [mem EXCEPT ![m] = s]
  /\ UNCHANGED <<disk, faults, damaged>>

-----------------------------------------------------------------------------
(* Opening a session.                                                       *)

NewSession(m) ==
  /\ names < MaxFiles
  /\ names' = names + 1
  /\ Remember(m, Fresh(names + 1))
  /\ UNCHANGED ids

(* A path given by hand that is not on disk yet; another manager of the     *)
(* same path may not have written it.                                       *)
OpenMissing(m, f) ==
  /\ f <= names /\ f \notin exists
  /\ Remember(m, Fresh(f))
  /\ UNCHANGED <<names, ids>>

(* An empty file gets a header, and counts as flushed.                      *)
OpenEmpty(m, f) ==
  /\ f \in exists /\ lines[f] = <<>>
  /\ Rewrite(m, f, <<Line(Header)>>, [Fresh(f) EXCEPT !.flushed = TRUE], mem[m],
             damaged \ {f})
  /\ UNCHANGED <<names, ids>>

(* _buildIndex puts the leaf at the last entry of the file.                 *)
Index(f, es) ==
  [Fresh(f) EXCEPT !.entries = es, !.leaf = IF es = <<>> THEN 0 ELSE Last(es).id,
                   !.flushed = TRUE]

Open(m, f) ==
  /\ Loadable(f)
  /\ Remember(m, Index(f, Loaded(f)))
  /\ UNCHANGED <<names, ids>>

(* The process of a manager ends between two calls.                         *)
Close(m) ==
  /\ IsOpen(m)
  /\ Remember(m, Closed)
  /\ UNCHANGED <<names, ids>>

-----------------------------------------------------------------------------
(* Appending: _appendEntry changes memory first and persists after.         *)

(* Mutant: a session without an answer does not append, flushed or not.     *)
AppendsNowOnceAnswered(s) == s.flushed /\ Answered(s.entries)

AppendsNow(s) == s.flushed

(* Nothing is written before the first assistant message; then everything.  *)
FirstWrite(s) == ~s.flushed /\ Answered(s.entries)

(* Mutant: the first write opens the file with "w".                         *)
MayCreateAnyway(f) == TRUE

(* The first write opens the file with "wx".                                *)
MayCreate(f) == f \notin exists

Persist(m, s, e) ==
  LET thrown == [s EXCEPT !.failed = TRUE]
  IN
  \/ AppendsNow(s) /\ AppendTo(m, s.file, <<Line(e)>>, s, thrown)
  \/ /\ FirstWrite(s) /\ MayCreate(s.file)
     /\ Rewrite(m, s.file, LinesOf(s.entries), [s EXCEPT !.flushed = TRUE], thrown, damaged)
  \/ FirstWrite(s) /\ ~MayCreate(s.file) /\ Remember(m, thrown)
  \/ ~AppendsNow(s) /\ ~FirstWrite(s) /\ Remember(m, s)

AppendEntry(m, parent, kind, ref) ==
  LET e == [id |-> ids + 1, parent |-> parent, kind |-> kind, ref |-> ref]
  IN
  /\ IsOpen(m) /\ ids < MaxEntries
  /\ ids' = ids + 1
  /\ Persist(m, [mem[m] EXCEPT !.entries = Append(@, e), !.leaf = e.id], e)
  /\ UNCHANGED names

AppendMessage(m) == \E kind \in PlainKinds : AppendEntry(m, mem[m].leaf, kind, 0)

AppendLabelChange(m, target) ==
  /\ target \in IdsOf(mem[m].entries)
  /\ \E kind \in {"label", "unlabel"} : AppendEntry(m, mem[m].leaf, kind, target)

(* Where a compaction of the path may start to keep entries: findCutPoint   *)
(* goes back from a message over the entries that contribute none, but not  *)
(* past what the previous compaction kept; something must be summarized.    *)
CutPoints(path) ==
  LET c == IF Compactions(path) = {} THEN 0 ELSE LatestCompaction(path)
      kept == IF c = 0 THEN {} ELSE PositionOf(path, path[c].ref)
      start == IF kept = {} THEN c + 1 ELSE CHOOSE i \in kept : TRUE
      Shown(i) == ~IsLabel(path[i]) /\ path[i].kind /= "compaction"
  IN  {path[i].id : i \in {j \in start..Len(path) :
        /\ path[j].kind /= "compaction"
        /\ j = start \/ Shown(j - 1) \/ path[j - 1].kind = "compaction"
        /\ \E k \in j..Len(path) : Shown(k) /\ \A l \in j..(k - 1) : IsLabel(path[l])
        /\ \E k \in start..(j - 1) : Shown(k)}}

AppendCompaction(m) ==
  \E kept \in CutPoints(Branch(mem[m].entries, mem[m].leaf)) :
    AppendEntry(m, mem[m].leaf, "compaction", kept)

-----------------------------------------------------------------------------
(* Moving in the tree.                                                      *)

MoveLeaf(m, id) ==
  /\ IsOpen(m)
  /\ Remember(m, [mem[m] EXCEPT !.leaf = id])
  /\ UNCHANGED <<names, ids>>

BranchTo(m, id) == id \in IdsOf(mem[m].entries) /\ MoveLeaf(m, id)
ResetLeaf(m) == MoveLeaf(m, 0)

BranchWithSummary(m, from) ==
  /\ from \in IdsOf(mem[m].entries) \union {0}
  /\ AppendEntry(m, from, "branch_summary", from)

(* Mutant: the entries after a dropped label keep it as their parent.       *)
RechainedNot(path) == Selected(path, Unlabelled)

(* The path without its labels, each entry a child of the one before.       *)
Rechained(path) ==
  LET kept == Selected(path, Unlabelled)
  IN  [i \in DOMAIN kept |-> [kept[i] EXCEPT !.parent = IF i = 1 THEN 0 ELSE kept[i - 1].id]]

(* Mutant: every label of the session is written to the new one.            *)
LabelsOfSession(es, path) == SetToSeq(Labelled(es))

(* The labels to write again.  The order of the map is not modelled.        *)
LabelsToWrite(es, path) == SetToSeq(Labelled(es) \intersect IdsOf(path))

(* A fork without an answer is written with its first one.                  *)
Unwritten(s) == [s EXCEPT !.flushed = FALSE]

(* createBranchedSession, as fork() of AgentSessionRuntime calls it: on the *)
(* file of the current session, opened anew.                                *)
CreateBranchedSession(m, leaf) ==
  LET es == Loaded(mem[m].file)
      path == Rechained(Branch(es, leaf))
      targets == LabelsToWrite(es, path)
      end == IF path = <<>> THEN 0 ELSE Last(path).id
      labels == [i \in DOMAIN targets |->
                   [id |-> ids + i, parent |-> IF i = 1 THEN end ELSE ids + i - 1,
                    kind |-> "label", ref |-> targets[i]]]
      s == Index(names + 1, path \o labels)
  IN
  /\ names < MaxFiles
  /\ IsOpen(m) /\ Loadable(mem[m].file) /\ leaf \in IdsOf(es)
  /\ names' = names + 1 /\ ids' = ids + Len(targets)
  /\ IF Answered(s.entries) THEN Rewrite(m, s.file, LinesOf(s.entries), s, mem[m], damaged)
                            ELSE Remember(m, Unwritten(s))

(* --fork: a whole session file is copied.                                  *)
ForkFrom(m, f) ==
  /\ names < MaxFiles /\ Loadable(f)
  /\ names' = names + 1
  /\ Rewrite(m, names + 1, LinesOf(Loaded(f)), Index(names + 1, Loaded(f)), mem[m],
             damaged \union {names + 1 : g \in damaged \intersect {f}})
  /\ UNCHANGED ids

-----------------------------------------------------------------------------

Next ==
  \E m \in Managers :
    \/ NewSession(m) \/ Close(m) \/ AppendMessage(m) \/ AppendCompaction(m) \/ ResetLeaf(m)
    \/ \E f \in Files : OpenMissing(m, f) \/ OpenEmpty(m, f) \/ Open(m, f) \/ ForkFrom(m, f)
    \/ \E id \in 0..MaxEntries : \/ AppendLabelChange(m, id) \/ BranchTo(m, id)
                                 \/ BranchWithSummary(m, id) \/ CreateBranchedSession(m, id)

Spec == Init /\ [][Next]_vars

-----------------------------------------------------------------------------

(* The types of the variables; a leaf is an entry of its session or none.   *)
TypeOK ==
  /\ names \in 0..MaxFiles /\ ids \in Nat /\ faults \in 0..MaxFaults
  /\ exists \subseteq 1..names /\ damaged \subseteq exists
  /\ \A m \in Managers : /\ mem[m].file \in 0..names
                         /\ mem[m].entries \in Seq(Entry)
                         /\ mem[m].leaf \in IdsOf(mem[m].entries) \union {0}
                         /\ {mem[m].flushed, mem[m].failed} \subseteq BOOLEAN
  /\ \A f \in Files : \A i \in DOMAIN lines[f] :
       lines[f][i].entry \in Entry \union {Header, Malformed}

(* Every entry of a session file has its parent before it in the file, so   *)
(* that the branch of every entry reaches a root, whichever managers        *)
(* append to the file (session-format.md: "reconstructed by following       *)
(* parent links").                                                          *)
ParentsComeFirst ==
  \A f \in exists \ damaged :
    LET es == Loaded(f)
    IN  \A i \in DOMAIN es : es[i].parent = 0 \/ \E j \in 1..(i - 1) : es[j].id = es[i].parent

(* Once a session has its first answer, what the model is sent can be       *)
(* rebuilt from the file, unless a write was refused or cut short.          *)
AnsweredIsSaved ==
  \A m \in Managers :
    LET s == mem[m]
    IN  IsOpen(m) /\ Answered(s.entries) /\ ~s.failed /\ s.file \notin damaged =>
          /\ Loadable(s.file)
          /\ Branch(Loaded(s.file), s.leaf) = Branch(s.entries, s.leaf)

(* The lines of a file but a last one that has no end.                      *)
Finished(ls) == IF ls = <<>> \/ Last(ls).newline THEN ls ELSE Front(ls)

(* History is never rewritten: what was once written to the end of its line *)
(* stays, whatever other managers of the same path do and however a later   *)
(* write fails (session-format.md: "append-only").                          *)
FilesOnlyGrow ==
  [][\A f \in exists : f \in exists' /\ IsPrefix(Finished(lines[f]), lines'[f])]_vars

(* A write that fails or is cut short, and what is then appended behind it  *)
(* by any manager, spoils one line and no more.                             *)
OneLinePerFailure ==
  \A f \in exists :
    Cardinality({i \in DOMAIN lines[f] : lines[f][i].entry = Malformed \/ ~lines[f][i].newline})
      <= faults

(* A fork keeps the conversation up to its entry; the label an older        *)
(* compaction may have kept as its first entry is CloneKeepsContext's case. *)
KeptFromLabel(path) ==
  Compactions(path) /= {} /\
    LET kept == PositionOf(path, path[LatestCompaction(path)].ref)
    IN  kept = {} \/ \E i \in kept : IsLabel(path[i])

Forks(m) == names' = names + 1 /\ mem'[m].file = names'
Fork(m, id) == CreateBranchedSession(m, id) /\ Forks(m)

ForkKeepsContext ==
  [][\A m \in Managers : Forks(m) => \A id \in 1..MaxEntries :
       LET path == Branch(Loaded(mem[m].file), id)
       IN  Fork(m, id) /\ ~KeptFromLabel(path) =>
             ContextMessages(Branch(mem'[m].entries, mem'[m].leaf)) = ContextMessages(path)]_vars

(* A fork carries the labels of the entries it keeps, and no others         *)
(* (test/session-manager/labels.test.ts).                                   *)
ForkKeepsLabels ==
  [][\A m \in Managers : Forks(m) => \A id \in 1..MaxEntries :
       LET es == Loaded(mem[m].file)
           kept == {e \in Range(Branch(es, id)) : ~IsLabel(e)}
       IN  Fork(m, id) => Labelled(mem'[m].entries) = Labelled(es) \intersect {e.id : e \in kept}]_vars

(* docs/sessions.md: /clone will "Duplicate the current active branch into  *)
(* a new session".                                                          *)
CloneKeepsContext ==
  [][\A m \in Managers : Forks(m) => \A id \in 1..MaxEntries :
       Fork(m, id) =>
         ContextMessages(Branch(mem'[m].entries, mem'[m].leaf))
           = ContextMessages(Branch(Loaded(mem[m].file), id))]_vars
==============================================================================
