------------------------------ MODULE NodeRefs ------------------------------
(***************************************************************************)
(* How a node id that a caller read in one command finds an element in the *)
(* next: the AT-SPI one-shot worker and the Android adapters number the    *)
(* elements of a screen in preorder, each time from one; inspect, find and *)
(* diff store the tree they saw; action, do and menu turn an id back into  *)
(* an element.  Meanwhile the application redraws, elements cannot be read,*)
(* a second caller stores its own tree, and a command may be killed.       *)
(*                                                                         *)
(* A screen maps the path of every element (the child indices from the     *)
(* desktop) to its label, which stands for role and name.                  *)
(*                                                                         *)
(* The stored tree has room for the registry of its walk, and the worker   *)
(* for a search by the path in it, but the program never fills the one nor *)
(* reaches the other: the tree port of every use case is _DispatchingTree, *)
(* which has no last_registry, so what is stored and passed on is nothing  *)
(* or the empty registry that diff puts there.  An id is a number only.    *)
(***************************************************************************)
EXTENDS Integers, Sequences, FiniteSets, SequencesExt

CONSTANTS
  Callers,      \* commands or MCP calls of one session, each by one process
  Screens,      \* what the application may show
  Plain,        \* the labels that pruning drops: unnamed containers
  Inert,        \* the labels whose elements list no action
  Wanted,       \* the labels that `do` is asked to find
  MenuPaths,    \* the menu paths, as sequences of labels
  Faults,       \* what one walk over the bus fails to read
  MaxChanges,   \* how often the application redraws
  MaxCalls,     \* how many calls the callers make together
  MaxRereads    \* how often menu looks for the next item

ASSUME ScreensAssumption ==
  \A s \in Screens : IsFiniteSet(DOMAIN s) /\ DOMAIN s \subseteq Seq(Nat) \ {<<>>}

VARIABLES
  backend,      \* "linux" or "android"
  hist,         \* the screens shown so far, the last one now
  file,         \* tree.json of the session
  dump,         \* /sdcard/window_dump.xml: index of the screen in it, or 0
  call,         \* per caller: the call under way
  known,        \* per caller: the nodes its last inspect, find or diff showed
  deed,         \* the element the last step acted on, if it was an action
  made          \* the number of calls begun

refsVars == <<backend, hist, file, dump, call, known, deed, made>>
-----------------------------------------------------------------------------
(* Paths, numbering and the two walks.                                     *)

screen == Last(hist)
NoPath == <<>>
Whole == [gone |-> {}, mute |-> {}]

(* p comes before q in a preorder walk.                                    *)
Before(p, q) ==
  \/ IsStrictPrefix(p, q)
  \/ \E i \in 1..Len(p) : /\ i <= Len(q)
                          /\ SubSeq(p, 1, i - 1) = SubSeq(q, 1, i - 1)
                          /\ p[i] < q[i]

Cut(paths, p) == \E q \in paths : IsPrefix(q, p)

(* The registry is fresh in each walk and every path is a new key: the     *)
(* n-th element met gets the id n.                                         *)
NumberIn(walked, p) == Cardinality({q \in walked : q = p \/ Before(q, p)})

(* The tree walk leaves out an element that is gone or whose role cannot   *)
(* be read, and everything below it.                                       *)
TreeOf(s, f) ==
  LET walked == {p \in DOMAIN s : ~Cut(f.gone \cup f.mute, p)}
  IN  {[path |-> p, id |-> NumberIn(walked, p), label |-> s[p]] : p \in walked}

\* Mutation: the search numbers the elements it meets from zero.
BugScan(s, f, id) ==
  LET walked == {p \in DOMAIN s : ~Cut(f.gone, p)}
      hits == {p \in walked : NumberIn(walked, p) = id + 1}
  IN  IF hits = {} THEN NoPath ELSE CHOOSE p \in hits : TRUE

(* The search of an action counts a mute element too and goes below it;    *)
(* what it hits is not compared with anything.                             *)
Scan(s, f, id) ==
  LET walked == {p \in DOMAIN s : ~Cut(f.gone, p)}
      hits == {p \in walked : NumberIn(walked, p) = id}
  IN  IF hits = {} THEN NoPath ELSE CHOOSE p \in hits : TRUE

(* The Android adapter searches a tree read for the action.                *)
FirstNode(nodes) == CHOOSE n \in nodes : \A m \in nodes : n.id <= m.id

ResolveFresh(nodes, id) ==
  LET same == {n \in nodes : n.id = id}
  IN  IF same = {} THEN NoPath ELSE FirstNode(same).path

Pruned(nodes) == {n \in nodes : n.label \notin Plain}

Ids == 1..Cardinality(UNION {DOMAIN s : s \in Screens})
-----------------------------------------------------------------------------
(* Calls.                                                                  *)

NoTree == [at |-> 0, nodes |-> {}]
Idle == [op |-> "none", pc |-> "idle", id |-> 0,
         tree |-> NoTree, names |-> <<>>, left |-> 0, began |-> 0]
NoDeed == [by |-> {}, op |-> "none", id |-> 0, path |-> NoPath, label |-> {},
           fault |-> Whole]
NoFile == [state |-> "none", nodes |-> {}, at |-> 0]

RefsInit ==
  /\ backend \in {"linux", "android"}
  /\ hist \in {<<s>> : s \in Screens}
  /\ file = NoFile
  /\ dump = 0
  /\ call = [c \in Callers |-> Idle]
  /\ known = [c \in Callers |-> NoTree]
  /\ deed = NoDeed
  /\ made = 0

\* The call s with the fields of r.
With(r, s) == [x \in DOMAIN s |-> IF x \in DOMAIN r THEN r[x] ELSE s[x]]

Begin(c, r) ==
  /\ call[c].pc = "idle"
  /\ made < MaxCalls
  /\ made' = made + 1
  /\ call' = [call EXCEPT ![c] = With([began |-> Len(hist)], With(r, Idle))]
  /\ deed' = NoDeed
  /\ UNCHANGED <<backend, hist, file, dump, known>>

Set(c, r) == call' = [call EXCEPT ![c] = With(r, call[c])]
End(c) == call' = [call EXCEPT ![c] = Idle]

(* inspect and find read the tree, then store it.                          *)
StartLook(c) == Begin(c, [op |-> "look", pc |-> "read"])

(* diff needs a stored tree; a torn file is a decoding error.              *)
StartDiff(c) ==
  /\ file.state = "whole"
  /\ Begin(c, [op |-> "diff", pc |-> "read"])

(* action takes any id the stored tree holds; without a stored tree, any.  *)
StartAct(c, id) ==
  /\ \/ file.state = "none"
     \/ file.state = "whole" /\ \E n \in file.nodes : n.id = id
  /\ Begin(c, [op |-> "act", id |-> id,
               pc |-> IF backend = "linux" THEN "resolve" ELSE "target",
               tree |-> [at |-> file.at, nodes |-> file.nodes]])

StartDo(c, l) == Begin(c, [op |-> "do", pc |-> "read", names |-> <<l>>])

(* menu begins on the stored tree, if there is one.                        *)
StartMenu(c, m) ==
  /\ backend = "linux"
  /\ file.state # "torn"
  /\ Begin(c, [op |-> "menu", names |-> m,
               pc |-> IF file.state = "none" THEN "read" ELSE "got",
               tree |-> [at |-> file.at, nodes |-> file.nodes]])
-----------------------------------------------------------------------------
(* Reading a tree, to show, search or store it ("read") or, on Android, to *)
(* find the target of an action ("target").                                *)

Reads(c) == call[c].pc \in {"read", "target"}

Got(c, tree) ==
  Set(c, [pc |-> IF call[c].pc = "read" THEN "got" ELSE "aim", tree |-> tree])

ReadWalk(c, f) ==
  /\ backend = "linux" /\ Reads(c)
  /\ Got(c, [at |-> Len(hist), nodes |-> TreeOf(screen, f)])
  /\ deed' = NoDeed
  /\ UNCHANGED <<backend, hist, file, dump, known, made>>

ReadPipe(c) ==
  /\ backend = "android" /\ Reads(c)
  /\ Got(c, [at |-> Len(hist), nodes |-> TreeOf(screen, Whole)])
  /\ deed' = NoDeed
  /\ UNCHANGED <<backend, hist, file, dump, known, made>>

\* Mutation: the exit code of the dump is ignored, the file may be an old one.
BugDumpFile(c) ==
  /\ backend = "android" /\ Reads(c)
  /\ dump' \in {dump, Len(hist)}
  /\ Set(c, [pc |-> IF call[c].pc = "read" THEN "readCat" ELSE "targetCat"])
  /\ deed' = NoDeed
  /\ UNCHANGED <<backend, hist, file, known, made>>

(* The pipe failed: the device writes the dump to its one file, ...        *)
DumpFile(c) ==
  /\ backend = "android" /\ Reads(c)
  /\ dump' = Len(hist)
  /\ Set(c, [pc |-> IF call[c].pc = "read" THEN "readCat" ELSE "targetCat"])
  /\ deed' = NoDeed
  /\ UNCHANGED <<backend, hist, file, known, made>>

(* ... a second command reads it and a third removes it, whatever happened;*)
(* cat fails on a file that another call has removed.                      *)
CatFile(c) ==
  /\ call[c].pc \in {"readCat", "targetCat"}
  /\ Set(c, [pc |-> IF call[c].pc = "readCat" THEN "readRm" ELSE "targetRm",
             tree |-> IF dump = 0 THEN NoTree
                      ELSE [at |-> dump, nodes |-> TreeOf(hist[dump], Whole)]])
  /\ deed' = NoDeed
  /\ UNCHANGED <<backend, hist, file, dump, known, made>>

RemoveFile(c) ==
  /\ call[c].pc \in {"readRm", "targetRm"}
  /\ dump' = 0
  /\ CASE call[c].pc = "targetRm" -> Set(c, [pc |-> "aim"])
       [] call[c].tree = NoTree -> End(c)
       [] OTHER -> Set(c, [pc |-> "got"])
  /\ deed' = NoDeed
  /\ UNCHANGED <<backend, hist, file, known, made>>

(* The read fails altogether: the call fails, but an Android action goes   *)
(* on without a target.                                                    *)
ReadFails(c) ==
  /\ Reads(c)
  /\ IF call[c].pc = "read" THEN End(c)
     ELSE Set(c, [pc |-> "aim", tree |-> NoTree])
  /\ deed' = NoDeed
  /\ UNCHANGED <<backend, hist, file, dump, known, made>>
-----------------------------------------------------------------------------
(* Storing a tree: the file is truncated, then written.                    *)

OpenFile(c) ==
  /\ call[c].pc = "got" /\ call[c].op \in {"look", "diff"}
  /\ file' = [NoFile EXCEPT !.state = "torn"]
  /\ Set(c, [pc |-> "write"])
  /\ deed' = NoDeed
  /\ UNCHANGED <<backend, hist, dump, known, made>>

(* inspect and find store the pruned tree, diff the whole one.             *)
WriteFile(c) ==
  LET t == call[c].tree
      shown == IF call[c].op = "diff" THEN t.nodes ELSE Pruned(t.nodes)
  IN  /\ call[c].pc = "write"
      /\ file' = [state |-> "whole", nodes |-> shown, at |-> t.at]
      /\ known' = [known EXCEPT ![c] = [at |-> t.at, nodes |-> shown]]
      /\ End(c)
      /\ deed' = NoDeed
      /\ UNCHANGED <<backend, hist, dump, made>>
-----------------------------------------------------------------------------
(* Acting.                                                                 *)

Matching(c) == {n \in call[c].tree.nodes : n.label = Head(call[c].names)}

\* Mutation: the match is numbered among the nodes that are not pruned.
BugPick(c) ==
  LET first == FirstNode(Matching(c))
      kept == {n.path : n \in Pruned(call[c].tree.nodes)}
  IN  /\ call[c].pc = "got" /\ call[c].op \in {"do", "menu"}
      /\ Matching(c) # {}
      /\ Set(c, [id |-> NumberIn(kept, first.path),
                 pc |-> IF backend = "linux" THEN "resolve" ELSE "target"])
      /\ deed' = NoDeed
      /\ UNCHANGED <<backend, hist, file, dump, known, made>>

(* do and menu act on the first match.                                     *)
Pick(c) ==
  /\ call[c].pc = "got" /\ call[c].op \in {"do", "menu"}
  /\ Matching(c) # {}
  /\ Set(c, [id |-> FirstNode(Matching(c)).id,
             pc |-> IF backend = "linux" THEN "resolve" ELSE "target"])
  /\ deed' = NoDeed
  /\ UNCHANGED <<backend, hist, file, dump, known, made>>

(* No match: do polls again until its deadline, menu for MaxRereads reads. *)
PickNone(c) ==
  /\ call[c].pc = "got" /\ call[c].op \in {"do", "menu"}
  /\ Matching(c) = {}
  /\ \/ End(c)
     \/ call[c].op = "do" /\ Set(c, [pc |-> "read"])
     \/ /\ call[c].op = "menu" /\ call[c].left > 0
        /\ Set(c, [pc |-> "read", left |-> call[c].left - 1])
  /\ deed' = NoDeed
  /\ UNCHANGED <<backend, hist, file, dump, known, made>>

(* Who acted on which element, and what the walk could not read.           *)
Deed(c, p, f) ==
  [by |-> {c}, op |-> call[c].op, id |-> call[c].id, path |-> p,
   label |-> {screen[p]}, fault |-> f]

(* menu goes on to the next item after a click, whether it worked or not.  *)
Onward(c) ==
  IF call[c].op = "menu" /\ Len(call[c].names) > 1
  THEN Set(c, [pc |-> "read", names |-> Tail(call[c].names),
               left |-> MaxRereads - 1])
  ELSE End(c)

(* The worker holds the element it resolved and acts on it.                *)
ActWorker(c, f) ==
  LET p == Scan(screen, f, call[c].id)
  IN  /\ call[c].pc = "resolve"
      /\ deed' = IF p = NoPath THEN NoDeed
                 ELSE IF screen[p] \in Inert THEN NoDeed
                 ELSE Deed(c, p, f)
      /\ Onward(c)
      /\ UNCHANGED <<backend, hist, file, dump, known, made>>

(* The worker cannot start, or dies: the call fails.                       *)
WorkerFails(c) ==
  /\ call[c].pc = "resolve"
  /\ End(c)
  /\ deed' = NoDeed
  /\ UNCHANGED <<backend, hist, file, dump, known, made>>

(* Android taps where the node was in the tree it read; what is there now  *)
(* takes the tap.                                                          *)
Tap(c) ==
  LET p == ResolveFresh(call[c].tree.nodes, call[c].id)
  IN  /\ call[c].pc = "aim"
      /\ deed' = IF p \in DOMAIN screen THEN Deed(c, p, Whole) ELSE NoDeed
      /\ Onward(c)
      /\ UNCHANGED <<backend, hist, file, dump, known, made>>
-----------------------------------------------------------------------------
(* The application redraws; a command is killed between two of its steps.  *)

Redraw(s) ==
  /\ Len(hist) <= MaxChanges /\ s # screen
  /\ hist' = Append(hist, s)
  /\ deed' = NoDeed
  /\ UNCHANGED <<backend, file, dump, call, known, made>>

Killed(c) ==
  /\ call[c].pc # "idle"
  /\ End(c)
  /\ deed' = NoDeed
  /\ UNCHANGED <<backend, hist, file, dump, known, made>>

StartCall(c) ==
  \/ StartLook(c) \/ StartDiff(c)
  \/ \E id \in Ids : StartAct(c, id)
  \/ \E l \in Wanted : StartDo(c, l)
  \/ \E m \in MenuPaths : StartMenu(c, m)

Read(c) ==
  \/ \E f \in Faults : ReadWalk(c, f)
  \/ ReadPipe(c) \/ DumpFile(c) \/ CatFile(c) \/ RemoveFile(c) \/ ReadFails(c)

Work(c) ==
  \/ OpenFile(c) \/ WriteFile(c) \/ Pick(c) \/ PickNone(c)
  \/ \E f \in Faults : ActWorker(c, f)
  \/ WorkerFails(c) \/ Tap(c)

RefsNext ==
  \/ \E c \in Callers : StartCall(c) \/ Read(c) \/ Work(c) \/ Killed(c)
  \/ \E s \in Screens : Redraw(s)

RefsSpec == RefsInit /\ [][RefsNext]_refsVars
-----------------------------------------------------------------------------
(* Properties.                                                             *)

Acts(c, op) == deed' # deed /\ deed'.by = {c} /\ deed'.op = op

AllRead(nodes) == nodes \subseteq TreeOf(screen, Whole)

\* The paths that a walk over the screen s meets before p.
Preceding(s, p) == {q \in DOMAIN s : Before(q, p)}

\* Up to now p stayed in its place since the k-th screen was shown, and
\* nothing before it came or went.
InPlace(k, p) ==
  \A j \in k .. Len(hist) :
    p \in DOMAIN hist[j] /\ Preceding(hist[j], p) = Preceding(hist[k], p)

(* An action by an id that the caller read acts on the element the caller  *)
(* saw, if nothing was unreadable then or now and the element kept its     *)
(* place and had nothing come or go before it; after it the screen may     *)
(* have changed, and anyone may have stored another tree.  The walk of the *)
(* tree, the search of the action and the pruned tree on disk must number  *)
(* the elements alike, over every caller's reads, redraws and kills.       *)
SeenIsHit ==
  [][\A c \in Callers : \A n \in known[c].nodes :
       /\ Acts(c, "act") /\ deed'.id = n.id
       /\ n \in TreeOf(hist[known[c].at], Whole) /\ deed'.fault = Whole
       /\ InPlace(known[c].at, n.path)
       => deed'.path = n.path]_refsVars

(* What "stable node identifier (session-scoped, path-based)" would say    *)
(* (docs/manual.md:50): an id leads to the element it was shown for as     *)
(* long as that is at its path under its label.  It fails: what comes or   *)
(* goes before the element shifts its number (MCNodeRefs_stale_id.cfg).    *)
IdIsPathBased ==
  [][\A c \in Callers : \A n \in known[c].nodes :
       /\ Acts(c, "act") /\ deed'.id = n.id
       /\ n \in TreeOf(hist[known[c].at], Whole) /\ deed'.fault = Whole
       /\ n.path \in DOMAIN screen /\ screen[n.path] = n.label
       => deed'.path = n.path]_refsVars

(* do and menu act on an element that carries the label they looked for,   *)
(* unless the screen changed since they found it or an element could not   *)
(* be read: an id is never looked up among the numbers of another tree.    *)
NamedIsHit ==
  [][\A c \in Callers :
       /\ Acts(c, "do") \/ Acts(c, "menu")
       /\ IF backend = "linux"
          THEN call[c].tree.at = Len(hist) /\ AllRead(call[c].tree.nodes)
          ELSE call[c].began = Len(hist)
       /\ deed'.fault = Whole
       => deed'.label = {Head(call[c].names)}]_refsVars

(* A screen that a call read itself is no older than the call, though the  *)
(* file on the device is shared by every command and left behind by a      *)
(* killed one: that goes for the tree that is shown, stored, compared or   *)
(* searched, and for the one that an action by id looks its target up in.  *)
DumpIsFresh ==
  \A c \in Callers :
    /\ call[c].tree # NoTree
    /\ \/ call[c].op \in {"look", "diff", "do"}
       \/ call[c].op = "act" /\ call[c].pc \in {"targetRm", "aim"}
    => call[c].tree.at >= call[c].began

-----------------------------------------------------------------------------
(***************************************************************************)
(* Why.  Every tree in use was read whole from one screen, so its ids are  *)
(* numbers of one walk and each belongs to one element; and what an        *)
(* Android call has read is no older than the call.                        *)
(***************************************************************************)
Fields == DOMAIN Idle

RefsTypeOK ==
  /\ backend \in {"linux", "android"}
  /\ hist \in Seq(Screens) /\ hist # <<>>
  /\ file.state \in {"none", "torn", "whole"}
  /\ dump \in 0 .. Len(hist)
  /\ call = [c \in Callers |-> call[c]] /\ known = [c \in Callers |-> known[c]]
  /\ \A c \in Callers :
       /\ DOMAIN call[c] = Fields
       /\ call[c].op \in {"none", "look", "diff", "act", "do", "menu"}
       /\ call[c].pc \in {"idle", "read", "readCat", "readRm", "got", "write",
                          "target", "targetCat", "targetRm", "aim", "resolve"}
       /\ call[c].began \in 0 .. Len(hist)
       /\ call[c].tree.at \in 0 .. Len(hist)
       /\ known[c].at \in 0 .. Len(hist)
  /\ file.at \in 0 .. Len(hist)

\* An id belongs to one node.
OneEach(nodes) ==
  \A m \in nodes : m.id \in Nat /\ \A n \in nodes : m.id = n.id => m = n

\* Read by the call c itself, from a screen as it was shown.
ReadWhole(c) ==
  \/ call[c].tree = NoTree
  \/ /\ call[c].tree.at \in call[c].began .. Len(hist)
     /\ call[c].tree.nodes = TreeOf(hist[call[c].tree.at], Whole)

\* The id that the call c goes by was that of an element it looked for.
Found(c, nodes) ==
  \E m \in nodes : m.id = call[c].id /\ m.label = Head(call[c].names)

RefAt(c) ==
  LET r == call[c]
  IN  /\ r.pc # "idle" => r.began > 0 /\ known[c].at <= r.began
      /\ backend = "linux" => r.pc \notin {"readCat", "readRm", "target", "targetCat", "targetRm", "aim"}
      /\ backend = "android" => r.pc # "resolve" /\ (r.pc # "idle" => r.op # "menu")
      /\ OneEach(r.tree.nodes)
      /\ r.pc \in {"readCat", "targetCat"} => dump = 0 \/ dump >= r.began
      /\ r.pc \in {"readRm", "targetRm", "aim"} \/ (backend = "android" /\ r.pc = "got") => ReadWhole(c)
      /\ r.op \in {"do", "menu"} /\ r.pc = "resolve" => Found(c, r.tree.nodes)
      /\ r.op = "do" /\ r.pc \in {"target", "targetCat", "targetRm", "aim"} =>
           \E k \in r.began .. Len(hist) : Found(c, TreeOf(hist[k], Whole))

FileAt ==
  IF file.state = "whole" THEN OneEach(file.nodes) ELSE file.nodes = {}

RefsInvariant ==
  /\ RefsTypeOK
  /\ FileAt
  /\ \A c \in Callers : RefAt(c)
  /\ DumpIsFresh
=============================================================================
