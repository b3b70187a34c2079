---------------------------- MODULE FoldersProofs ----------------------------
(***************************************************************************)
(* Proofs about Folders, for any clients, names, paths, relations, initial *)
(* tree and number of commands.                                            *)
(*                                                                         *)
(* A parent is older than its children, so what the model computes up the  *)
(* tree, recursively, is well defined, and facts about it follow from the  *)
(* least folder that would contradict them (the library's WFMin: no        *)
(* induction over a predicate is needed).  A step keeps the names and the  *)
(* ids above a folder unless one of them was renamed or deleted, and keeps *)
(* the ids unless one of them lost its parent.                             *)
(***************************************************************************)
EXTENDS Folders, WellFoundedInduction, TLAPS

\* A folder and those above it
Chain(g) == {g} \union Above(g)

\* What a command carries with it
Shape(k, present) ==
    /\ k.op \in {"create", "insert"} => k.rest # <<>>
    /\ k.op \in {"rename", "update"} => k.rest \in Name \X Name
    /\ k.op \in {"file", "copy", "rule"} => k.rows \subseteq present
    /\ k.op = "delete" => k.found = {}

\* A deletion under way has read, or will, all that hangs below what it has read and a
\* query told it of, and
\* nothing but what hangs below the folder it was called with
Deleting(k) == k.op = "scan" =>
    /\ 0 \in k.found \union k.todo => k.id = 0
    /\ \A g \in DOMAIN group : group[g].parent \in k.found \ {0} =>
          g \in k.found \union k.todo \union k.missed \union stray
    /\ \A g \in DOMAIN group \intersect (k.found \union k.todo) :
          k.id \in {0} \union Chain(g) \/ Chain(g) \intersect stray # {}

\* A path of a folder below p is the path it has, unless something above it was renamed
\* or deleted
True(path, p, name) ==
    path # LayerName(group, p, name) => Chain(p) \intersect renamed # {}

\* So is a path that is computed and not yet written, if every query was answered
Computing(k) ==
    /\ k.op = "insert" /\ k.whole => True(k.path, k.parent, k.rest[1])
    /\ k.op = "update" /\ k.whole /\ k.id \in DOMAIN group =>
          True(k.path, group[k.id].parent, k.rest[2])

Commands == \A c \in Client : Shape(cmd[c], Present) /\ Deleting(cmd[c]) /\ Computing(cmd[c])

\* A folder that is gone was deleted, and its deletion did not take its children
Removals ==
    /\ 1..made \subseteq DOMAIN group \union renamed
    /\ \A g \in DOMAIN group : Gone(group[g].parent) => g \in stray

Paths ==
    \A g \in DOMAIN group \ garbled : True(group[g].path, group[g].parent, group[g].name)

IInv == TypeOK /\ Commands /\ Removals /\ Paths /\ FiledIsExplained

\* Nobody made a folder of the name that was looked up in vain; a lookup that failed
\* leaves the command not alone
Alone ==
    \A c \in Client : cmd[c].op = "insert" /\ cmd[c].alone => Named(cmd[c].rest[1]) = {}

-----------------------------------------------------------------------------
\* What is computed up the tree

LEMMA Least ==
    ASSUME NEW T, T \subseteq Nat, T # {}
    PROVE  \E n \in T : \A m \in T : n <= m
<1>1. PICK R : IsWellFoundedOn(R, Nat) /\ R = {ss \in Nat \X Nat : ss[1] < ss[2]}
  BY NatLessThanWellFounded DEF OpToRel
<1>2. PICK n \in T : \A m \in T : <<m, n>> \notin R
  BY <1>1, WFMin
<1>3. \A m \in T : ~(m < n)
  <2>1. TAKE m \in T
  <2>2. <<m, n>> \in Nat \X Nat /\ <<m, n>>[1] = m /\ <<m, n>>[2] = n
    OBVIOUS
  <2> QED
    BY <1>1, <1>2, <2>2
<1>4. n \in Nat /\ \A m \in T : m \in Nat
  OBVIOUS
<1> QED
  BY <1>2, <1>3, <1>4

\* A parent is older than its children
Table(t) ==
    /\ DOMAIN t \subseteq 1..MaxGroup
    /\ \A g \in DOMAIN t : t[g].parent \in 0..(g - 1)

\* The bodies of the two recursive functions
LayerOf(f, t, g) == IF g \in DOMAIN t THEN Append(f[t[g].parent], t[g].name) ELSE <<>>
LineOf(f, t, g)  == IF g \in DOMAIN t THEN {t[g].parent} \union f[t[g].parent] ELSE {}

\* getLayerName comes to an end: the names above a folder are those above its parent
\* and its own
LEMMA LayersExist ==
    ASSUME NEW t, Table(t)
    PROVE  \E f : f = [g \in 0..MaxGroup |-> LayerOf(f, t, g)]
<1> DEFINE T == {n \in 0..MaxGroup : ~ \E f : f = [g \in 0..n |-> LayerOf(f, t, g)]}
<1>0. MaxGroup \in 0..MaxGroup
  BY FoldersAssumption
<1>1. SUFFICES ASSUME T # {} PROVE FALSE
  BY <1>0, Zenon
<1>. T \subseteq Nat
  BY FoldersAssumption
<1>2. PICK n \in T : \A m \in T : n <= m
  BY <1>1, Least, Zenon
<1>3. CASE n = 0
  <2>1. DOMAIN [g \in 0..0 |-> <<>>] = 0..0 /\ \A g \in 0..0 : LayerOf([k \in 0..0 |-> <<>>], t, g) = <<>>
    BY DEF Table, LayerOf
  <2>2. [g \in 0..0 |-> <<>>] = [g \in 0..0 |-> LayerOf([k \in 0..0 |-> <<>>], t, g)]
    BY <2>1
  <2> QED
    BY <1>2, <1>3, <2>2
<1>4. CASE n # 0
  <2>1. n - 1 \in 0..MaxGroup /\ n - 1 \notin T /\ n \in Nat
    BY <1>2, <1>4, FoldersAssumption
  <2>2. PICK f : f = [g \in 0..(n - 1) |-> LayerOf(f, t, g)]
    BY <2>1
  <2> DEFINE h == [g \in 0..n |-> IF g < n THEN f[g] ELSE LayerOf(f, t, n)]
  <2>3. \A g \in 0..n : h[g] = LayerOf(f, t, g)
    BY SMTT(30), <2>1, <2>2
  <2>4. \A g \in 0..n : LayerOf(h, t, g) = LayerOf(f, t, g)
    <3>1. \A g \in 0..n : g \in DOMAIN t => h[t[g].parent] = f[t[g].parent]
      BY <2>1 DEF Table
    <3> QED
      BY <3>1 DEF LayerOf
  <2>5. h = [g \in 0..n |-> LayerOf(h, t, g)]
    BY <2>3, <2>4
  <2> QED
    BY <1>2, <2>5
<1> QED
  BY <1>3, <1>4

LEMMA LayersDef ==
    ASSUME NEW t, Table(t)
    PROVE  Layers(t) = [g \in 0..MaxGroup |-> LayerOf(Layers(t), t, g)]
<1>1. Layers(t) = CHOOSE f : f = [g \in 0..MaxGroup |-> LayerOf(f, t, g)]
  BY Zenon DEF Layers, LayerOf
<1> QED
  BY <1>1, LayersExist, Zenon

LEMMA LinesExist ==
    ASSUME NEW t, Table(t)
    PROVE  \E f : f = [g \in 0..MaxGroup |-> LineOf(f, t, g)]
<1> DEFINE T == {n \in 0..MaxGroup : ~ \E f : f = [g \in 0..n |-> LineOf(f, t, g)]}
<1>0. MaxGroup \in 0..MaxGroup
  BY FoldersAssumption
<1>1. SUFFICES ASSUME T # {} PROVE FALSE
  BY <1>0, Zenon
<1>. T \subseteq Nat
  BY FoldersAssumption
<1>2. PICK n \in T : \A m \in T : n <= m
  BY <1>1, Least, Zenon
<1>3. CASE n = 0
  <2>1. DOMAIN [g \in 0..0 |-> {}] = 0..0 /\ \A g \in 0..0 : LineOf([k \in 0..0 |-> {}], t, g) = {}
    BY DEF Table, LineOf
  <2>2. [g \in 0..0 |-> {}] = [g \in 0..0 |-> LineOf([k \in 0..0 |-> {}], t, g)]
    BY <2>1
  <2> QED
    BY <1>2, <1>3, <2>2
<1>4. CASE n # 0
  <2>1. n - 1 \in 0..MaxGroup /\ n - 1 \notin T /\ n \in Nat
    BY <1>2, <1>4, FoldersAssumption
  <2>2. PICK f : f = [g \in 0..(n - 1) |-> LineOf(f, t, g)]
    BY <2>1
  <2> DEFINE h == [g \in 0..n |-> IF g < n THEN f[g] ELSE LineOf(f, t, n)]
  <2>3. \A g \in 0..n : h[g] = LineOf(f, t, g)
    BY SMTT(30), <2>1, <2>2
  <2>4. \A g \in 0..n : LineOf(h, t, g) = LineOf(f, t, g)
    <3>1. \A g \in 0..n : g \in DOMAIN t => h[t[g].parent] = f[t[g].parent]
      BY <2>1 DEF Table
    <3> QED
      BY <3>1 DEF LineOf
  <2>5. h = [g \in 0..n |-> LineOf(h, t, g)]
    BY <2>3, <2>4
  <2> QED
    BY <1>2, <2>5
<1> QED
  BY <1>3, <1>4

LEMMA LinesDef ==
    ASSUME NEW t, Table(t)
    PROVE  Lines(t) = [g \in 0..MaxGroup |-> LineOf(Lines(t), t, g)]
<1>1. Lines(t) = CHOOSE f : f = [g \in 0..MaxGroup |-> LineOf(f, t, g)]
  BY Zenon DEF Lines, LineOf
<1> QED
  BY <1>1, LinesExist, Zenon

\* The same equations, one folder at a time
LEMMA UpTheTree ==
    ASSUME NEW t, Table(t), NEW g \in 0..MaxGroup
    PROVE  /\ g \in DOMAIN t => /\ t[g].parent \in 0..MaxGroup /\ t[g].parent < g
                                /\ Layers(t)[g] = Append(Layers(t)[t[g].parent], t[g].name)
                                /\ Lines(t)[g] = {t[g].parent} \union Lines(t)[t[g].parent]
           /\ g \notin DOMAIN t => Layers(t)[g] = <<>> /\ Lines(t)[g] = {}
<1>1. Layers(t)[g] = LayerOf(Layers(t), t, g)
  BY LayersDef, Zenon
<1>2. Lines(t)[g] = LineOf(Lines(t), t, g)
  BY LinesDef, Zenon
<1>3. g \in DOMAIN t => t[g].parent \in 0..MaxGroup /\ t[g].parent < g
  BY FoldersAssumption DEF Table
<1> QED
  BY <1>1, <1>2, <1>3 DEF LayerOf, LineOf

LEMMA LayersType ==
    ASSUME NEW t, Table(t), \A g \in DOMAIN t : t[g].name \in Name
    PROVE  \A g \in 0..MaxGroup : Layers(t)[g] \in Seq(Name)
<1> DEFINE T == {n \in 0..MaxGroup : Layers(t)[n] \notin Seq(Name)}
<1>1. SUFFICES ASSUME T # {} PROVE FALSE
  OBVIOUS
<1>. T \subseteq Nat
  BY FoldersAssumption
<1>2. PICK n \in T : \A m \in T : n <= m
  BY <1>1, Least, Zenon
<1>3. n \in DOMAIN t
  <2>1. SUFFICES ASSUME n \notin DOMAIN t PROVE FALSE
    OBVIOUS
  <2>2. Layers(t)[n] = <<>> /\ n \in 0..MaxGroup
    BY <1>2, <2>1, UpTheTree
  <2>3. <<>> \in Seq(Name)
    OBVIOUS
  <2> QED
    BY <1>2, <2>2, <2>3
<1>4. t[n].parent \in 0..MaxGroup /\ t[n].parent \notin T
  BY <1>2, <1>3, UpTheTree
<1>5. Layers(t)[t[n].parent] \in Seq(Name) /\ t[n].name \in Name
  BY <1>3, <1>4
<1>6. Layers(t)[n] = Append(Layers(t)[t[n].parent], t[n].name)
  BY <1>2, <1>3, UpTheTree
<1>7. Layers(t)[n] \in Seq(Name)
  BY <1>5, <1>6
<1> QED
  BY <1>2, <1>7

\* From the table t to the table u, the ids up to m kept their parents, those in R
\* excepted they kept their names, and those that are gone are in R
Evolves(t, u, m, R) ==
    /\ \A k \in 1..m \intersect DOMAIN u :
          k \in DOMAIN t /\ u[k].parent = t[k].parent /\ (u[k].name = t[k].name \/ k \in R)
    /\ DOMAIN t \ DOMAIN u \subseteq R

\* Then what is above a folder is the same, or has something of R in it
LEMMA AboveKept ==
    ASSUME NEW t, NEW u, Table(t), Table(u), NEW m \in 0..MaxGroup, NEW R, Evolves(t, u, m, R)
    PROVE  \A p \in 0..m :
              \/ ({p} \union Lines(u)[p]) \intersect R # {}
              \/ Layers(u)[p] = Layers(t)[p] /\ Lines(u)[p] = Lines(t)[p]
<1> DEFINE Same(p) == Layers(u)[p] = Layers(t)[p] /\ Lines(u)[p] = Lines(t)[p]
           Met(p)  == ({p} \union Lines(u)[p]) \intersect R # {}
           T       == {p \in 0..m : ~Met(p) /\ ~Same(p)}
<1>1. SUFFICES ASSUME T # {} PROVE FALSE
  OBVIOUS
<1>. T \subseteq Nat
  BY FoldersAssumption
<1>2. PICK p \in T : \A q \in T : p <= q
  BY <1>1, Least, Zenon
<1>3. p \in 0..MaxGroup /\ p \in 0..m
  BY <1>2, FoldersAssumption
<1>4. p \in DOMAIN t
  <2>1. SUFFICES ASSUME p \notin DOMAIN t PROVE FALSE
    OBVIOUS
  <2>2. p \notin DOMAIN u
    BY <1>3, <2>1 DEF Evolves, Table
  <2> QED
    BY <1>2, <1>3, <2>1, <2>2, UpTheTree
<1>5. p \in DOMAIN u
  BY <1>2, <1>4 DEF Evolves
<1>6. p \in 1..m
  BY <1>3, <1>4 DEF Table
<1> DEFINE q == t[p].parent
<1>7. q \in 0..MaxGroup /\ q < p /\ q \in 0..m /\ u[p].parent = q /\ u[p].name = t[p].name
  BY <1>2, <1>3, <1>4, <1>5, <1>6, UpTheTree DEF Evolves
<1>8. Met(q) \/ Same(q)
  BY <1>2, <1>3, <1>7
<1>9. /\ Lines(u)[p] = {q} \union Lines(u)[q] /\ Lines(t)[p] = {q} \union Lines(t)[q]
      /\ Layers(u)[p] = Append(Layers(u)[q], u[p].name)
      /\ Layers(t)[p] = Append(Layers(t)[q], t[p].name)
  <2>1. Lines(u)[p] = {q} \union Lines(u)[q] /\ Layers(u)[p] = Append(Layers(u)[q], u[p].name)
    <3>1. /\ Lines(u)[p] = {u[p].parent} \union Lines(u)[u[p].parent]
          /\ Layers(u)[p] = Append(Layers(u)[u[p].parent], u[p].name)
      BY <1>3, <1>5, UpTheTree
    <3>2. u[p].parent = q
      BY <1>7
    <3> QED
      BY <3>1, <3>2, Zenon
  <2>2. Lines(t)[p] = {q} \union Lines(t)[q] /\ Layers(t)[p] = Append(Layers(t)[q], t[p].name)
    BY <1>3, <1>4, UpTheTree
  <2> QED
    BY <2>1, <2>2
<1>10. ~Met(q)
  BY <1>2, <1>9
<1> QED
  BY <1>2, <1>7, <1>8, <1>9, <1>10

\* What is above a folder is the same, or somebody on the way lost its parent
LEMMA LineKept ==
    ASSUME NEW t, NEW u, Table(t), Table(u), NEW m \in 0..MaxGroup, NEW L,
           \A k \in 1..m \intersect DOMAIN u : k \in DOMAIN t /\ u[k].parent = t[k].parent,
           \A k \in DOMAIN u : u[k].parent \in {0} \union DOMAIN u \/ k \in L
    PROVE  \A p \in 1..m \intersect DOMAIN u :
              \/ ({p} \union Lines(u)[p]) \intersect L # {}
              \/ Lines(u)[p] = Lines(t)[p]
<1> DEFINE Same(p) == Lines(u)[p] = Lines(t)[p]
           Met(p)  == ({p} \union Lines(u)[p]) \intersect L # {}
           T       == {p \in 1..m \intersect DOMAIN u : ~Met(p) /\ ~Same(p)}
<1>1. SUFFICES ASSUME T # {} PROVE FALSE
  OBVIOUS
<1>. T \subseteq Nat
  BY FoldersAssumption
<1>2. PICK p \in T : \A q \in T : p <= q
  BY <1>1, Least, Zenon
<1>3. p \in 0..MaxGroup /\ p \in 1..m /\ p \in DOMAIN u /\ p \in DOMAIN t
  BY <1>2, FoldersAssumption
<1> DEFINE q == t[p].parent
<1>4. q \in 0..MaxGroup /\ q < p /\ u[p].parent = q
  BY <1>3, UpTheTree
<1>5. Lines(u)[p] = {q} \union Lines(u)[q] /\ Lines(t)[p] = {q} \union Lines(t)[q]
  BY <1>3, <1>4, UpTheTree
<1>6. q = 0 \/ q \in DOMAIN u
  BY <1>2, <1>3, <1>4
<1>7. CASE q = 0
  <2>1. 0 \in 0..MaxGroup /\ 0 \notin DOMAIN t /\ 0 \notin DOMAIN u
    BY FoldersAssumption DEF Table
  <2>2. Lines(u)[0] = {} /\ Lines(t)[0] = {}
    BY <2>1, UpTheTree
  <2> QED
    BY <1>2, <1>5, <1>7, <2>2
<1>8. CASE q # 0 /\ q \in DOMAIN u
  <2>1. q \in 1..m /\ q \notin T
    BY <1>2, <1>3, <1>4, <1>8
  <2>2. Met(q) \/ Same(q)
    BY <1>8, <2>1
  <2> QED
    BY <1>2, <1>5, <2>2
<1> QED
  BY <1>6, <1>7, <1>8

-----------------------------------------------------------------------------
\* The table of the folders

LEMMA IsTable ==
    ASSUME NEW t, NEW m \in 0..MaxGroup, DOMAIN t \subseteq 1..m,
           \A g \in DOMAIN t : t[g] \in Folder /\ t[g].parent < g
    PROVE  Table(t) /\ 0..m \subseteq 0..MaxGroup /\ 1..m \subseteq 1..MaxGroup
<1>1. 0..m \subseteq 0..MaxGroup /\ 1..m \subseteq 1..MaxGroup
  BY FoldersAssumption
<1>2. \A g \in DOMAIN t : t[g].parent \in 0..(g - 1)
  BY FoldersAssumption DEF Folder
<1> QED
  BY <1>1, <1>2 DEF Table

LEMMA GroupTable ==
    ASSUME TypeOK
    PROVE  Table(group) /\ 0..made \subseteq 0..MaxGroup /\ 1..made \subseteq 1..MaxGroup
  BY IsTable DEF TypeOK

LEMMA NameType ==
    ASSUME TypeOK, NEW p \in 0..made, NEW name \in Name
    PROVE  LayerName(group, p, name) \in Seq(Name)
<1>1. \A g \in DOMAIN group : group[g].name \in Name
  BY DEF TypeOK, Folder
<1>2. Layers(group)[p] \in Seq(Name)
  BY <1>1, GroupTable, LayersType
<1> QED
  BY <1>2 DEF LayerName

\* A query that fails leaves a path
LEMMA AnswersType ==
    ASSUME NEW path \in Seq(Name), NEW answer \in Answers(path)
    PROVE  answer \in Seq(Name)
<1>1. PICK k \in 1..Len(path) : answer = SubSeq(path, k, Len(path))
  BY DEF Answers
<1> QED
  BY <1>1

LEMMA ChainUp ==
    ASSUME TypeOK, NEW g \in DOMAIN group
    PROVE  /\ group[g].parent \in 0..made /\ Above(g) = Chain(group[g].parent)
           /\ Chain(g) = {g} \union Chain(group[g].parent)
<1>1. g \in 1..made /\ g \in 0..MaxGroup /\ group[g].parent \in 0..made
  BY GroupTable DEF TypeOK, Folder
<1> QED
  BY <1>1, GroupTable, UpTheTree DEF Chain, Above

LEMMA PathsAreTrue == TypeOK /\ Paths => PathIsTrue
  BY ChainUp DEF Paths, True, PathIsTrue, ListName

LEMMA HiddenAreExplained == TypeOK /\ Removals => HiddenIsExplained
<1> SUFFICES ASSUME TypeOK, Removals, NEW g \in DOMAIN group, g \notin Shown,
                    g \notin stray
             PROVE  group[g].parent \in DOMAIN group
  BY DEF HiddenIsExplained
<1>1. 0 \notin Chain(group[g].parent)
  BY ChainUp DEF Shown
<1>2. group[g].parent # 0
  BY <1>1 DEF Chain
<1> QED
  BY <1>2 DEF Removals, Gone

\* What a step that makes, renames or deletes folders does to what is above the others
LEMMA TableStep ==
    ASSUME TypeOK, TypeOK', Removals', made' >= made,
           renamed \subseteq renamed', stray \subseteq stray',
           \A k \in 1..made \intersect DOMAIN group' :
              /\ k \in DOMAIN group /\ group'[k].parent = group[k].parent
              /\ group'[k].name = group[k].name \/ k \in renamed',
           DOMAIN group \ DOMAIN group' \subseteq renamed'
    PROVE  /\ \A p \in 0..made : \A path, name : True(path, p, name) => True(path, p, name)'
           /\ \A g \in DOMAIN group' \intersect 1..made :
                 \/ Chain(g)' \intersect stray' # {}
                 \/ Chain(g)' = Chain(g)
<1>1. Table(group) /\ Table(group') /\ made \in 0..MaxGroup
  BY GroupTable, IsTable DEF TypeOK
<1>2. \A p \in 0..made : \/ Chain(p)' \intersect renamed' # {}
                         \/ /\ Layers(group')[p] = Layers(group)[p]
                            /\ Chain(p)' = Chain(p)
  <2>1. Evolves(group, group', made, renamed')
    BY DEF Evolves
  <2> QED
    BY <1>1, <2>1, AboveKept DEF Chain, Above
<1>3. \A p \in 0..made : \A path, name : True(path, p, name) => True(path, p, name)'
  BY <1>2 DEF True, LayerName
<1>4. \A g \in DOMAIN group' \intersect 1..made :
         \/ Chain(g)' \intersect stray' # {}
         \/ Chain(g)' = Chain(g)
  <2>1. \A k \in DOMAIN group' :
           group'[k].parent \in {0} \union DOMAIN group' \/ k \in stray'
    BY DEF Removals, Gone
  <2> QED
    BY <1>1, <2>1, LineKept DEF Chain, Above
<1> QED
  BY <1>3, <1>4

-----------------------------------------------------------------------------
\* Steps that leave the table as it is

LEMMA CommandStep ==
    ASSUME IInv, NEW next, cmd' = next,
           \A d \in Client : \/ next[d] = cmd[d]
                             \/ Shape(next[d], Present') /\ Deleting(next[d]) /\ Computing(next[d]),
           UNCHANGED <<group, made, renamed, garbled, stray>>, Present \subseteq Present'
    PROVE  Commands' /\ Removals' /\ Paths'
<1>1. \A g : Chain(g)' = Chain(g)
  BY DEF Chain, Above
<1>2. \A path, p, name : True(path, p, name)' <=> True(path, p, name)
  BY <1>1 DEF True, LayerName
<1>3. \A d \in Client : Shape(next[d], Present') /\ Deleting(next[d]) /\ Computing(next[d])
  BY DEF IInv, Commands, Shape
<1>4. \A d \in Client : Shape(cmd[d], Present)'
  BY <1>3 DEF Shape
<1>5. \A d \in Client : Deleting(cmd[d])'
  BY <1>1, <1>3 DEF Deleting
<1>6. \A d \in Client : Computing(cmd[d])'
  BY <1>2, <1>3 DEF Computing
<1>7. Removals' /\ Paths'
  BY <1>2 DEF IInv, Removals, Paths, Gone
<1> QED
  BY <1>4, <1>5, <1>6, <1>7 DEF Commands

LEMMA IdleIsFine ==
    ASSUME TypeOK
    PROVE  Idle \in Command /\ Shape(Idle, Present) /\ Deleting(Idle) /\ Computing(Idle)
<1>1. 0 \in 0..made
  BY FoldersAssumption DEF TypeOK
<1> QED
  BY <1>1 DEF Idle, Command, Shape, Deleting, Computing

\* Commands that are issued, look something up or read on
LEMMA LookStep ==
    ASSUME IInv, NEW c \in Client, NEW k \in Command, cmd' = [cmd EXCEPT ![c] = k],
           UNCHANGED <<group, made, row, rule, history>>, issued' \in 0..MaxCommand,
           cmd[c].op # "unfile", Shape(k, Present), Deleting(k), Computing(k)
    PROVE  IInv'
<1> USE DEF history
<1>1. Commands' /\ Removals' /\ Paths'
  <2> DEFINE next == [cmd EXCEPT ![c] = k]
  <2>1. \A d \in Client : \/ next[d] = cmd[d]
                          \/ Shape(next[d], Present) /\ Deleting(next[d]) /\ Computing(next[d])
    BY DEF IInv, TypeOK
  <2>2. cmd' = next /\ Present' = Present /\ UNCHANGED <<group, made, renamed, garbled, stray>>
    BY DEF Present
  <2> HIDE DEF next
  <2> QED
    BY <2>1, <2>2, CommandStep
<1>2. TypeOK'
  BY DEF IInv, TypeOK, Command
<1>3. FiledIsExplained'
  BY DEF IInv, TypeOK, FiledIsExplained, Gone
<1> QED
  BY <1>1, <1>2, <1>3 DEF IInv

LEMMA IssueStep ==
    ASSUME IInv, NEW c \in Client, NEW k \in Command, Issue(c, k),
           Shape(k, Present), Deleting(k), k.op \notin {"insert", "update"}
    PROVE  IInv'
<1>1. issued' \in 0..MaxCommand
  BY FoldersAssumption DEF IInv, TypeOK, Issue
<1>2. Computing(k)
  BY DEF Computing
<1> QED
  BY <1>1, <1>2, LookStep DEF Issue

LEMMA IssueSteps ==
    ASSUME IInv, NEW c \in Client,
           Create(c) \/ AddGroup(c) \/ Rename(c) \/ Delete(c) \/ Move(c) \/ Copy(c)
    PROVE  IInv'
<1>0. /\ Idle \in Command /\ DOMAIN group \subseteq 0..made
      /\ Idle.op = "idle" /\ Idle.rest = <<>> /\ Idle.found = {}
  BY IdleIsFine DEF IInv, TypeOK, Idle
<1>1. ASSUME Create(c) PROVE IInv'
  <2>1. PICK p \in Path : Issue(c, [Idle EXCEPT !.op = "create", !.rest = p])
    BY <1>1 DEF Create
  <2> DEFINE k == [Idle EXCEPT !.op = "create", !.rest = p]
  <2>2. p \in Seq(Name) /\ p # <<>>
    BY FoldersAssumption
  <2>3. k \in Command /\ Shape(k, Present) /\ Deleting(k) /\ k.op \notin {"insert", "update"}
    BY <1>0, <2>2 DEF Command, Shape, Deleting
  <2> HIDE DEF k
  <2> QED
    BY <2>1, <2>3, IssueStep DEF k
<1>2. ASSUME AddGroup(c) PROVE IInv'
  <2>1. PICK n \in Name, g \in DOMAIN group : Issue(c, [Idle EXCEPT !.op = "create", !.rest = <<n>>, !.parent = g])
    BY <1>2 DEF AddGroup
  <2> DEFINE k == [Idle EXCEPT !.op = "create", !.rest = <<n>>, !.parent = g]
  <2>2. <<n>> \in Seq(Name) /\ <<n>> # <<>>
    OBVIOUS
  <2>3. k \in Command /\ Shape(k, Present) /\ Deleting(k) /\ k.op \notin {"insert", "update"}
    BY <1>0, <2>2 DEF Command, Shape, Deleting
  <2> HIDE DEF k
  <2> QED
    BY <2>1, <2>3, IssueStep DEF k
<1>3. ASSUME Rename(c) PROVE IInv'
  <2>1. PICK old \in Name, new \in Name : Issue(c, [Idle EXCEPT !.op = "rename", !.rest = <<old, new>>])
    BY <1>3 DEF Rename
  <2> DEFINE k == [Idle EXCEPT !.op = "rename", !.rest = <<old, new>>]
  <2>2. <<old, new>> \in Seq(Name) /\ <<old, new>> \in Name \X Name
    OBVIOUS
  <2>3. k \in Command /\ Shape(k, Present) /\ Deleting(k) /\ k.op \notin {"insert", "update"}
    BY <1>0, <2>2 DEF Command, Shape, Deleting
  <2> HIDE DEF k
  <2> QED
    BY <2>1, <2>3, IssueStep DEF k
<1>4. ASSUME Delete(c) PROVE IInv'
  <2>1. PICK n \in Name : Issue(c, [Idle EXCEPT !.op = "delete", !.rest = <<n>>])
    BY <1>4 DEF Delete
  <2> DEFINE k == [Idle EXCEPT !.op = "delete", !.rest = <<n>>]
  <2>2. <<n>> \in Seq(Name)
    OBVIOUS
  <2>3. k \in Command /\ Shape(k, Present) /\ Deleting(k) /\ k.op \notin {"insert", "update"}
    BY <1>0, <2>2 DEF Command, Shape, Deleting
  <2> HIDE DEF k
  <2> QED
    BY <2>1, <2>3, IssueStep DEF k
<1>5. ASSUME Move(c) PROVE IInv'
  <2>1. PICK g \in DOMAIN group, rows \in SUBSET Present : Issue(c, [Idle EXCEPT !.op = "file", !.id = g, !.rows = rows])
    BY <1>5 DEF Move
  <2> DEFINE k == [Idle EXCEPT !.op = "file", !.id = g, !.rows = rows]
  <2>2. rows \subseteq Row
    BY DEF Present
  <2>3. k \in Command /\ Shape(k, Present) /\ Deleting(k) /\ k.op \notin {"insert", "update"}
    BY <1>0, <2>2 DEF Command, Shape, Deleting
  <2> HIDE DEF k
  <2> QED
    BY <2>1, <2>3, IssueStep DEF k
<1>6. ASSUME Copy(c) PROVE IInv'
  <2>1. PICK g \in DOMAIN group, r \in Present : Issue(c, [Idle EXCEPT !.op = "copy", !.id = g, !.rows = {r}])
    BY <1>6 DEF Copy
  <2> DEFINE k == [Idle EXCEPT !.op = "copy", !.id = g, !.rows = {r}]
  <2>2. {r} \subseteq Row /\ {r} \subseteq Present
    BY DEF Present
  <2>3. k \in Command /\ Shape(k, Present) /\ Deleting(k) /\ k.op \notin {"insert", "update"}
    BY <1>0, <2>2 DEF Command, Shape, Deleting
  <2> HIDE DEF k
  <2> QED
    BY <2>1, <2>3, IssueStep DEF k
<1> QED
  BY <1>1, <1>2, <1>3, <1>4, <1>5, <1>6

\* What the lookup of a name, and of the folders to delete, goes on with
LEMMA SegmentIsFine ==
    ASSUME IInv, NEW c \in Client, cmd[c].op \in {"create", "insert"}, NEW g \in 0..made
    PROVE  /\ NextSegment(c, g) \in Command /\ NextSegment(c, g).op \in {"idle", "create"}
           /\ Shape(NextSegment(c, g), Present)
<1>1. cmd[c] \in Command /\ cmd[c].rest \in Seq(Name) /\ cmd[c].rest # <<>>
  BY DEF IInv, TypeOK, Commands, Shape, Command
<1>2. CASE Len(cmd[c].rest) = 1
  BY <1>2, IdleIsFine DEF NextSegment, IInv, Idle
<1>3. CASE Len(cmd[c].rest) # 1
  <2>1. Tail(cmd[c].rest) \in Seq(Name) /\ Tail(cmd[c].rest) # <<>>
    <3>1. Len(cmd[c].rest) \in Nat \ {0, 1}
      BY <1>1, <1>3
    <3>2. Len(Tail(cmd[c].rest)) = Len(cmd[c].rest) - 1 /\ Tail(cmd[c].rest) \in Seq(Name)
      BY <1>1
    <3>3. Len(Tail(cmd[c].rest)) # 0
      BY <3>1, <3>2
    <3>4. Len(<<>>) = 0
      OBVIOUS
    <3> QED
      BY <3>2, <3>3, <3>4, Zenon
  <2>2. Idle \in Command
    BY IdleIsFine DEF IInv
  <2> DEFINE k == [Idle EXCEPT !.op = "create", !.rest = Tail(cmd[c].rest), !.parent = g]
  <2>3. k \in Command /\ k.op = "create" /\ k.rest = Tail(cmd[c].rest)
    BY <2>1, <2>2 DEF Command
  <2>4. NextSegment(c, g) = k
    BY <1>3 DEF NextSegment
  <2> HIDE DEF k
  <2> QED
    BY <2>1, <2>3, <2>4 DEF Shape
<1> QED
  BY <1>2, <1>3

LEMMA CreateFindStep ==
    ASSUME IInv, NEW c \in Client, CreateFind(c)
    PROVE  IInv'
<1>1. /\ cmd[c] \in Command /\ cmd[c].op = "create" /\ cmd[c].parent \in 0..made
      /\ cmd[c].rest \in Seq(Name) /\ cmd[c].rest # <<>>
      /\ Head(cmd[c].rest) = cmd[c].rest[1] /\ Head(cmd[c].rest) \in Name
      /\ issued \in 0..MaxCommand /\ DOMAIN group \subseteq 0..made
  <2>1. cmd[c] \in Command /\ issued \in 0..MaxCommand /\ DOMAIN group \subseteq 0..made
    BY DEF IInv, TypeOK
  <2>2. cmd[c].op = "create" /\ cmd[c].rest # <<>>
    BY DEF CreateFind, IInv, Commands, Shape
  <2>3. cmd[c].parent \in 0..made /\ cmd[c].rest \in Seq(Name)
    BY <2>1 DEF Command
  <2> QED
    BY <2>1, <2>2, <2>3
<1>2. ASSUME NEW g \in DOMAIN group, cmd' = [cmd EXCEPT ![c] = NextSegment(c, g)]
      PROVE  IInv'
  <2>1. /\ NextSegment(c, g) \in Command /\ Shape(NextSegment(c, g), Present)
        /\ Deleting(NextSegment(c, g)) /\ Computing(NextSegment(c, g))
    BY <1>1, SegmentIsFine DEF Deleting, Computing
  <2> QED
    BY <1>1, <1>2, <2>1, LookStep DEF CreateFind
<1> DEFINE true == LayerName(group, cmd[c].parent, Head(cmd[c].rest))
<1>3. ASSUME NEW path \in Answers(true), NEW alone \in BOOLEAN,
             cmd' = [cmd EXCEPT ![c].op = "insert", ![c].path = path, ![c].whole = path = true,
                                ![c].alone = alone]
      PROVE  IInv'
  <2> DEFINE whole == path = true
             k == [cmd[c] EXCEPT !.op = "insert", !.path = path, !.whole = whole, !.alone = alone]
  <2>1. path \in Seq(Name) /\ whole \in BOOLEAN
    BY <1>1, NameType, AnswersType DEF IInv
  <2>2. k \in Command /\ Shape(k, Present) /\ Deleting(k) /\ Computing(k)
    BY <1>1, <2>1 DEF Command, Shape, Deleting, Computing, True
  <2>3. cmd' = [cmd EXCEPT ![c] = k]
    BY <1>3
  <2> HIDE DEF k
  <2> QED
    BY <1>1, <2>2, <2>3, LookStep DEF CreateFind
<1>4. (\A g \in DOMAIN group : ~Lookup(Head(cmd[c].rest), g)) \in BOOLEAN
  OBVIOUS
<1> HIDE DEF true
<1> QED
  BY <1>2, <1>3, <1>4 DEF CreateFind, true

LEMMA RenameFindStep ==
    ASSUME IInv, NEW c \in Client, RenameFind(c)
    PROVE  IInv'
<1>1. /\ cmd[c] \in Command /\ cmd[c].op = "rename" /\ cmd[c].rest \in Name \X Name
      /\ issued \in 0..MaxCommand /\ DOMAIN group \subseteq 0..made
  <2>1. cmd[c] \in Command /\ issued \in 0..MaxCommand /\ DOMAIN group \subseteq 0..made
    BY DEF IInv, TypeOK
  <2> QED
    BY <2>1 DEF RenameFind, IInv, Commands, Shape
<1> DEFINE true(g) == LayerName(group, group[g].parent, cmd[c].rest[2])
<1>2. ASSUME NEW g \in DOMAIN group, NEW path \in Answers(true(g)),
             cmd' = [cmd EXCEPT ![c].op = "update", ![c].id = g,
                                ![c].path = path, ![c].whole = path = true(g)]
      PROVE  IInv'
  <2> DEFINE whole == path = true(g)
             k == [cmd[c] EXCEPT !.op = "update", !.id = g, !.path = path, !.whole = whole]
  <2>1. path \in Seq(Name) /\ whole \in BOOLEAN
    BY <1>1, NameType, ChainUp, AnswersType DEF IInv
  <2>2. k \in Command /\ Shape(k, Present) /\ Deleting(k) /\ Computing(k)
    BY <1>1, <2>1 DEF Command, Shape, Deleting, Computing, True
  <2>3. cmd' = [cmd EXCEPT ![c] = k]
    BY <1>2
  <2> HIDE DEF k
  <2> QED
    BY <1>1, <2>2, <2>3, LookStep DEF RenameFind
<1>3. ASSUME Done(c) PROVE IInv'
  BY <1>1, <1>3, IdleIsFine, LookStep DEF RenameFind, Done, IInv
<1> QED
  BY <1>2, <1>3 DEF RenameFind, Named

LEMMA FailsStep ==
    ASSUME IInv, NEW c \in Client, Fails(c)
    PROVE  IInv'
<1>1. cmd[c].op # "unfile" /\ issued' \in 0..MaxCommand /\ Done(c)
  BY DEF Fails, IInv, TypeOK
<1> QED
  BY <1>1, IdleIsFine, LookStep DEF Fails, Done, IInv

LEMMA DeleteFindStep ==
    ASSUME IInv, NEW c \in Client, DeleteFind(c) \/ DelGroup(c)
    PROVE  IInv'
<1>1. /\ cmd[c] \in Command /\ DOMAIN group \subseteq 1..made /\ made \in Nat
      /\ issued \in 0..MaxCommand
  BY FoldersAssumption DEF IInv, TypeOK
<1>2. ASSUME DeleteFind(c) PROVE IInv'
  <2>1. PICK g \in {0} \union DOMAIN group :
           cmd' = [cmd EXCEPT ![c].op = "scan", ![c].id = g, ![c].todo = {g}]
    BY <1>2 DEF DeleteFind, Named
  <2> DEFINE k == [cmd[c] EXCEPT !.op = "scan", !.id = g, !.todo = {g}]
  <2>2. cmd[c].found = {} /\ cmd[c].op = "delete"
    BY <1>2 DEF DeleteFind, IInv, Commands, Shape
  <2>3. k \in Command /\ k.op = "scan" /\ k.found = {} /\ k.todo = {g} /\ k.id = g
    <3>1. g \in 0..made /\ {g} \in SUBSET (0..made)
      BY <1>1
    <3> QED
      BY <1>1, <2>2, <3>1 DEF Command
  <2>4. cmd' = [cmd EXCEPT ![c] = k]
    BY <2>1
  <2> HIDE DEF k
  <2>5. Shape(k, Present) /\ Deleting(k) /\ Computing(k)
    BY <2>3 DEF Shape, Deleting, Computing, Chain
  <2> QED
    BY <1>1, <1>2, <2>2, <2>3, <2>4, <2>5, LookStep DEF DeleteFind
<1>3. ASSUME DelGroup(c) PROVE IInv'
  <2>1. PICK g \in DOMAIN group : Issue(c, [Idle EXCEPT !.op = "scan", !.id = g, !.todo = {g}])
    BY <1>3 DEF DelGroup
  <2> DEFINE k == [Idle EXCEPT !.op = "scan", !.id = g, !.todo = {g}]
  <2>2. Idle \in Command /\ Idle.found = {}
    BY IdleIsFine DEF IInv, Idle
  <2>3. k \in Command /\ k.op = "scan" /\ k.found = {} /\ k.todo = {g} /\ k.id = g
    <3>1. g \in 0..made /\ {g} \in SUBSET (0..made)
      BY <1>1
    <3> QED
      BY <2>2, <3>1 DEF Command
  <2> HIDE DEF k
  <2>4. Shape(k, Present) /\ Deleting(k)
    BY <1>1, <2>3 DEF Shape, Deleting, Chain
  <2> QED
    BY <2>1, <2>3, <2>4, IssueStep DEF k
<1> QED
  BY <1>2, <1>3

\* The children of a folder that was read are to be read; one of a folder that is gone
\* came too late
LEMMA ScanStep ==
    ASSUME IInv, NEW c \in Client, Scan(c)
    PROVE  IInv'
<1>1. PICK g \in cmd[c].todo, answered \in BOOLEAN :
         cmd' = [cmd EXCEPT
                    ![c].todo   = (@ \ {g}) \union (IF answered THEN Children(g) ELSE {}),
                    ![c].found  = @ \union {g},
                    ![c].missed = IF answered THEN @ ELSE @ \union Children(g)]
  BY DEF Scan
<1> DEFINE k == [cmd[c] EXCEPT
                    !.todo   = (@ \ {g}) \union (IF answered THEN Children(g) ELSE {}),
                    !.found  = @ \union {g},
                    !.missed = IF answered THEN @ ELSE @ \union Children(g)]
<1>2. /\ cmd[c] \in Command /\ cmd[c].op = "scan" /\ g \in 0..made
      /\ issued \in 0..MaxCommand /\ DOMAIN group \subseteq 1..made /\ made \in Nat
  <2>1. cmd[c] \in Command /\ issued \in 0..MaxCommand
    BY DEF IInv, TypeOK
  <2>2. DOMAIN group \subseteq 1..made /\ made \in Nat
    BY FoldersAssumption DEF IInv, TypeOK
  <2> QED
    BY <2>1, <2>2 DEF Scan, Command
<1>3. cmd' = [cmd EXCEPT ![c] = k]
  BY <1>1
<1>4. /\ k \in Command /\ k.op = "scan" /\ k.id = cmd[c].id
      /\ k.todo = (cmd[c].todo \ {g}) \union (IF answered THEN Children(g) ELSE {})
      /\ k.found = cmd[c].found \union {g}
      /\ k.missed = IF answered THEN cmd[c].missed ELSE cmd[c].missed \union Children(g)
  <2>1. /\ {g} \in SUBSET (0..made) /\ Children(g) \in SUBSET (0..made)
        /\ Children(g) \in SUBSET (1..made)
    BY <1>2 DEF Children
  <2> QED
    BY <1>2, <2>1 DEF Command
<1> HIDE DEF k
<1>5. Deleting(cmd[c])
  BY DEF IInv, Commands
<1>6. 0 \in k.found \union k.todo => k.id = 0
  BY <1>2, <1>4, <1>5 DEF Deleting, Children
<1>7. \A h \in DOMAIN group : group[h].parent \in k.found \ {0} =>
         h \in k.found \union k.todo \union k.missed \union stray
  BY <1>2, <1>4, <1>5 DEF Deleting, Children
<1>8. ASSUME NEW h \in Children(g)
      PROVE  k.id \in {0} \union Chain(h) \/ Chain(h) \intersect stray # {}
  <2>1. h \in DOMAIN group /\ group[h].parent = g /\ h \in Chain(h)
    BY DEF Children, Chain
  <2>2. Chain(h) = {h} \union Chain(g)
    BY <2>1, ChainUp DEF IInv
  <2>3. CASE g = 0
    BY <1>2, <1>4, <1>5, <2>3 DEF Deleting
  <2>4. CASE g # 0 /\ g \notin DOMAIN group
    BY <2>1, <2>4 DEF IInv, Removals, Gone
  <2>5. CASE g \in DOMAIN group
    BY <1>2, <1>4, <1>5, <2>2, <2>5 DEF Deleting
  <2> QED
    BY <2>3, <2>4, <2>5
<1>9. Deleting(k)
  <2>1. \A h \in DOMAIN group \intersect (k.found \union k.todo) :
           h \in cmd[c].found \union cmd[c].todo \/ h \in Children(g)
    BY <1>4
  <2> QED
    BY <1>2, <1>4, <1>5, <1>6, <1>7, <1>8, <2>1 DEF Deleting
<1> QED
  BY <1>2, <1>3, <1>4, <1>9, LookStep DEF Scan, Shape, Computing

-----------------------------------------------------------------------------
\* Steps that file mails

\* A command that ends leaves the commands of the others as they are
LEMMA DoneStep ==
    ASSUME IInv, NEW c \in Client, Done(c),
           UNCHANGED <<group, made, renamed, garbled, stray>>, Present \subseteq Present'
    PROVE  /\ Commands' /\ Removals' /\ Paths' /\ cmd' \in [Client -> Command]
           /\ \A d \in Client : cmd'[d] = cmd[d] \/ (d = c /\ cmd'[d].op = "idle")
<1>1. \A d \in Client : cmd'[d] = IF d = c THEN Idle ELSE cmd[d]
  BY DEF Done, IInv, TypeOK
<1>2. /\ Idle \in Command /\ Shape(Idle, Present') /\ Deleting(Idle) /\ Computing(Idle)
      /\ Idle.op = "idle"
  BY IdleIsFine DEF IInv, Idle, Shape
<1>3. cmd' \in [Client -> Command]
  BY <1>2 DEF Done, IInv, TypeOK
<1>4. \A d \in Client : \/ cmd'[d] = cmd[d]
                        \/ Shape(cmd'[d], Present') /\ Deleting(cmd'[d]) /\ Computing(cmd'[d])
  BY <1>1, <1>2
<1>5. Commands' /\ Removals' /\ Paths'
  BY <1>4, CommandStep
<1> QED
  BY <1>1, <1>2, <1>3, <1>5

\* A relation is filed in a folder that is there, or marked
LEMMA FiledStep ==
    ASSUME IInv, UNCHANGED <<group, made, torn>>, NEW g \in 0..made, NEW rows \in SUBSET Row,
           \A r \in Row : row'[r].folder = IF r \in rows THEN g ELSE row[r].folder,
           lateFiled' = Late(g, rows),
           \A c \in Client : cmd[c].op = "unfile" => cmd'[c] = cmd[c]
    PROVE  FiledIsExplained'
<1> SUFFICES ASSUME NEW r \in Row, Gone(row'[r].folder), r \notin lateFiled'
             PROVE  \/ row'[r].folder \in torn
                    \/ \E c \in Client : cmd'[c].op = "unfile" /\ row'[r].folder \in cmd'[c].found
  BY DEF FiledIsExplained, Gone
<1>1. CASE r \in rows
  BY <1>1 DEF Late, Gone
<1>2. CASE r \notin rows
  BY <1>2 DEF Late, IInv, FiledIsExplained
<1> QED
  BY <1>1, <1>2

LEMMA MoveStep ==
    ASSUME IInv, NEW c \in Client, MoveMailToGroup(c) \/ RuleMove(c)
    PROVE  IInv'
<1>1. /\ row' = [r \in Row |-> IF r \in cmd[c].rows THEN [row[r] EXCEPT !.folder = cmd[c].id]
                               ELSE row[r]]
      /\ lateFiled' = Late(cmd[c].id, cmd[c].rows) /\ Done(c)
      /\ UNCHANGED <<group, made, rule, issued, renamed, rival, garbled, stray, torn>>
      /\ cmd[c].op \in {"file", "rule"}
  BY DEF MoveMailToGroup, RuleMove
<1>2. cmd[c].id \in 0..made /\ cmd[c].rows \subseteq Row /\ cmd[c].rows \subseteq Present
  BY <1>1 DEF IInv, TypeOK, Command, Commands, Shape
<1>3. \A r \in Row : /\ row[r] \in [status : Status, folder : 0..made] \union {Absent}
                     /\ r \in Present => row[r] \in [status : Status, folder : 0..made]
  BY DEF IInv, TypeOK, Present
<1>4. /\ row' \in [Row -> [status : Status, folder : 0..made] \union {Absent}]
      /\ \A r \in Row : row'[r].folder = IF r \in cmd[c].rows THEN cmd[c].id ELSE row[r].folder
      /\ \A r \in Row : row'[r] = Absent => row[r] = Absent
  <2>1. \A r \in Row : row'[r] = IF r \in cmd[c].rows THEN [row[r] EXCEPT !.folder = cmd[c].id]
                                 ELSE row[r]
    BY <1>1
  <2>2. ASSUME NEW r \in cmd[c].rows
        PROVE  /\ row'[r] \in [status : Status, folder : 0..made] /\ row'[r] # Absent
               /\ row'[r].folder = cmd[c].id
    <3>0. r \in Row /\ r \in Present
      BY <1>2
    <3>1. row[r] \in [status : Status, folder : 0..made] /\ r \in Row
      BY <1>3, <3>0
    <3>2. row'[r] = [row[r] EXCEPT !.folder = cmd[c].id]
      BY <2>1, <3>1
    <3>3. row'[r].status \in Status
      BY <3>1, <3>2
    <3> QED
      BY <1>2, <3>1, <3>2, <3>3 DEF Absent, Status
  <2>3. \A r \in Row : row'[r] \in [status : Status, folder : 0..made] \union {Absent}
    BY <1>3, <2>1, <2>2
  <2>4. row' \in [Row -> [status : Status, folder : 0..made] \union {Absent}]
    BY <1>1, <2>3
  <2> QED
    BY <2>1, <2>2, <2>4
<1>5. Present \subseteq Present'
  BY <1>4 DEF Present
<1>6. /\ Commands' /\ Removals' /\ Paths' /\ cmd' \in [Client -> Command]
      /\ \A d \in Client : cmd'[d] = cmd[d] \/ (d = c /\ cmd'[d].op = "idle")
  BY <1>1, <1>5, DoneStep
<1>7. lateFiled' \subseteq Row
  BY <1>1, <1>2 DEF Late, IInv, TypeOK
<1>8. TypeOK'
  BY <1>1, <1>4, <1>6, <1>7 DEF IInv, TypeOK, Command
<1>9. FiledIsExplained'
  <2>1. \A d \in Client : cmd[d].op = "unfile" => cmd'[d] = cmd[d]
    BY <1>1, <1>6
  <2> QED
    BY <1>1, <1>2, <1>4, <2>1, FiledStep
<1> QED
  BY <1>6, <1>8, <1>9 DEF IInv

LEMMA CopyStep ==
    ASSUME IInv, NEW c \in Client, CopyInsert(c)
    PROVE  IInv'
<1>1. PICK r \in Row \ Present, s \in cmd[c].rows :
         /\ row' = [row EXCEPT ![r] = [status |-> row[s].status, folder |-> cmd[c].id]]
         /\ lateFiled' = Late(cmd[c].id, {r})
  BY DEF CopyInsert
<1>2. /\ cmd[c].op = "copy" /\ Done(c)
      /\ UNCHANGED <<group, made, rule, issued, renamed, rival, garbled, stray, torn>>
  BY DEF CopyInsert
<1>3. cmd[c].id \in 0..made /\ s \in Row /\ s \in Present
  BY <1>2 DEF IInv, TypeOK, Command, Commands, Shape
<1>4. row[s].status \in Status
  BY <1>3 DEF IInv, TypeOK, Present
<1> DEFINE new == [status |-> row[s].status, folder |-> cmd[c].id]
<1>5. new \in [status : Status, folder : 0..made] /\ new # Absent /\ new.folder = cmd[c].id
  BY <1>3, <1>4 DEF Absent, Status
<1> HIDE DEF new
<1>6. \A q \in Row : row'[q] = IF q = r THEN new ELSE row[q]
  BY <1>1 DEF IInv, TypeOK, new
<1>7. /\ row' \in [Row -> [status : Status, folder : 0..made] \union {Absent}]
      /\ \A q \in Row : row'[q].folder = IF q \in {r} THEN cmd[c].id ELSE row[q].folder
  <2>1. row' = [row EXCEPT ![r] = new]
    BY <1>1 DEF new
  <2> QED
    BY <1>5, <1>6, <2>1 DEF IInv, TypeOK
<1>8. Present \subseteq Present'
  BY <1>5, <1>6 DEF Present
<1>9. /\ Commands' /\ Removals' /\ Paths' /\ cmd' \in [Client -> Command]
      /\ \A d \in Client : cmd'[d] = cmd[d] \/ (d = c /\ cmd'[d].op = "idle")
  BY <1>2, <1>8, DoneStep
<1>10. lateFiled' \subseteq Row
  BY <1>1 DEF Late, IInv, TypeOK
<1>11. TypeOK'
  BY <1>2, <1>7, <1>9, <1>10 DEF IInv, TypeOK, Command
<1>12. FiledIsExplained'
  <2>1. \A d \in Client : cmd[d].op = "unfile" => cmd'[d] = cmd[d]
    BY <1>2, <1>9
  <2> QED
    BY <1>1, <1>2, <1>3, <1>7, <2>1, FiledStep
<1> QED
  BY <1>9, <1>11, <1>12 DEF IInv

\* Every mail of the folders that were deleted is released, or they are marked
LEMMA UnfileStep ==
    ASSUME IInv, NEW c \in Client, Unfile(c)
    PROVE  IInv'
<1>1. /\ cmd[c].op = "unfile" /\ Done(c) /\ Released(c) = cmd[c].found
      /\ UNCHANGED <<group, made, rule, issued, renamed, rival, garbled, stray, lateFiled>>
  BY DEF Unfile, Released
<1>2. cmd[c].found \subseteq 0..made /\ made \in Nat
  BY FoldersAssumption DEF IInv, TypeOK, Command
<1>3. \/ /\ row' = [r \in Row |-> IF row[r].folder \in cmd[c].found
                                THEN [row[r] EXCEPT !.folder = 0] ELSE row[r]]
         /\ torn' = torn
      \/ torn' = torn \union (cmd[c].found \ {0}) /\ row' = row
  BY <1>1 DEF Unfile
<1>4. ASSUME NEW r \in Row
      PROVE  /\ row'[r] \in [status : Status, folder : 0..made] \union {Absent}
             /\ row'[r] = Absent => row[r] = Absent
             /\ row'[r].folder # 0 => row'[r].folder = row[r].folder
             /\ row'[r].folder \in cmd[c].found \ {0} => row'[r].folder \in torn'
  <2>1. row[r] \in [status : Status, folder : 0..made] \union {Absent}
    BY DEF IInv, TypeOK
  <2>2. row'[r] = row[r] \/ row'[r] = [row[r] EXCEPT !.folder = 0]
    BY <1>3
  <2>3. [row[r] EXCEPT !.folder = 0].folder = 0
    BY <2>1 DEF Absent
  <2>4. CASE row[r] = Absent
    BY <1>2, <2>2, <2>4 DEF Absent
  <2>5. CASE row[r] \in [status : Status, folder : 0..made]
    <3>1. /\ [row[r] EXCEPT !.folder = 0] \in [status : Status, folder : 0..made]
          /\ [row[r] EXCEPT !.folder = 0] # Absent
      BY <1>2, <2>5 DEF Status, Absent
    <3>2. row'[r].folder \in cmd[c].found \ {0} => row'[r].folder \in torn'
      BY <1>3, <2>3
    <3>3. row[r] # Absent
      BY <2>5 DEF Status, Absent
    <3> QED
      BY <2>2, <2>3, <2>5, <3>1, <3>2, <3>3
  <2> QED
    BY <2>1, <2>4, <2>5
<1>5. Present \subseteq Present'
  BY <1>4 DEF Present
<1>6. /\ Commands' /\ Removals' /\ Paths' /\ cmd' \in [Client -> Command]
      /\ \A d \in Client : cmd'[d] = cmd[d] \/ (d = c /\ cmd'[d].op = "idle")
  BY <1>1, <1>5, DoneStep
<1>7. row' \in [Row -> [status : Status, folder : 0..made] \union {Absent}]
  <2>1. row' = [r \in Row |-> row'[r]]
    BY <1>3 DEF IInv, TypeOK
  <2> QED
    BY <1>4, <2>1
<1>8. torn' \subseteq 1..made
  BY <1>2, <1>3 DEF IInv, TypeOK
<1>9. TypeOK'
  BY <1>1, <1>6, <1>7, <1>8 DEF IInv, TypeOK, Command
<1>10. FiledIsExplained'
  <2> SUFFICES ASSUME NEW r \in Row, Gone(row'[r].folder), r \notin lateFiled,
                      row'[r].folder \notin torn'
               PROVE  \E d \in Client : cmd'[d].op = "unfile" /\ row'[r].folder \in cmd'[d].found
    BY <1>1 DEF FiledIsExplained, Gone
  <2>1. row[r].folder = row'[r].folder /\ row'[r].folder \notin cmd[c].found
    BY <1>4 DEF Gone
  <2>2. PICK d \in Client : cmd[d].op = "unfile" /\ row[r].folder \in cmd[d].found
    BY <1>3, <2>1 DEF IInv, FiledIsExplained
  <2> QED
    BY <1>6, <2>1, <2>2
<1> QED
  BY <1>6, <1>9, <1>10 DEF IInv

LEMMA DefaultBoxStep ==
    ASSUME IInv, Move2DefaultBox
    PROVE  IInv'
<1>1. PICK rows \in SUBSET Present, status \in {"inbox", "deleted"} :
         /\ row' = [r \in Row |-> IF r \in rows THEN [status |-> status, folder |-> 0] ELSE row[r]]
         /\ lateFiled' = lateFiled \ rows
         /\ UNCHANGED <<group, made, rule, cmd, issued, renamed, rival, garbled, stray, torn>>
  BY DEF Move2DefaultBox
<1> DEFINE new == [status |-> status, folder |-> 0]
<1>2. new \in [status : Status, folder : 0..made] /\ new # Absent /\ new.folder = 0
  BY FoldersAssumption DEF IInv, TypeOK, Status, Absent
<1>3. row' = [r \in Row |-> IF r \in rows THEN new ELSE row[r]]
  BY <1>1
<1> HIDE DEF new
<1>4. /\ row' \in [Row -> [status : Status, folder : 0..made] \union {Absent}]
      /\ Present \subseteq Present'
  BY <1>2, <1>3 DEF IInv, TypeOK, Present
<1>5. Commands' /\ Removals' /\ Paths'
  BY <1>1, <1>4, CommandStep
<1>6. TypeOK'
  BY <1>1, <1>4 DEF IInv, TypeOK, Command
<1>7. rows \in SUBSET Row /\ 0 \in 0..made /\ Late(0, rows) = lateFiled \ rows
  BY FoldersAssumption DEF Present, Late, IInv, TypeOK
<1>8. \A r \in Row : row'[r].folder = IF r \in rows THEN 0 ELSE row[r].folder
  BY <1>2, <1>3
<1>9. FiledIsExplained'
  BY <1>1, <1>7, <1>8, FiledStep
<1> QED
  BY <1>5, <1>6, <1>9 DEF IInv

LEMMA RuleStep ==
    ASSUME IInv, UpsertRule \/ DelRule
    PROVE  IInv'
<1>1. /\ UNCHANGED <<group, made, row, cmd, issued, renamed, rival, garbled, stray, lateFiled, torn>>
      /\ rule' \in {0} \union DOMAIN group
  BY DEF UpsertRule, DelRule, history
<1>2. Present' = Present
  BY <1>1 DEF Present
<1>3. Commands' /\ Removals' /\ Paths'
  BY <1>1, <1>2, CommandStep
<1>4. TypeOK'
  BY <1>1, FoldersAssumption DEF IInv, TypeOK, Command
<1>5. FiledIsExplained'
  BY <1>1 DEF IInv, FiledIsExplained, Gone
<1> QED
  BY <1>3, <1>4, <1>5 DEF IInv

LEMMA ArriveStep ==
    ASSUME IInv, NEW c \in Client, Arrive(c)
    PROVE  IInv'
<1>1. PICK r \in Row \ Present :
         /\ row' = [row EXCEPT ![r] = [status |-> "inbox", folder |-> 0]]
         /\ cmd' = [cmd EXCEPT ![c] = IF rule = 0 THEN Idle
                                     ELSE [Idle EXCEPT !.op = "rule", !.id = rule, !.rows = {r}]]
  BY DEF Arrive
<1>2. /\ cmd[c].op = "idle" /\ issued' \in 0..MaxCommand
      /\ UNCHANGED <<group, made, rule, renamed, rival, garbled, stray, lateFiled, torn>>
  BY FoldersAssumption DEF Arrive, history, IInv, TypeOK
<1> DEFINE new == [status |-> "inbox", folder |-> 0]
           k   == IF rule = 0 THEN Idle ELSE [Idle EXCEPT !.op = "rule", !.id = rule, !.rows = {r}]
<1>3. new \in [status : Status, folder : 0..made] /\ new # Absent /\ new.folder = 0
  BY FoldersAssumption DEF IInv, TypeOK, Status, Absent
<1>4. row' = [row EXCEPT ![r] = new] /\ cmd' = [cmd EXCEPT ![c] = k]
  BY <1>1
<1>5. /\ Idle \in Command /\ rule \in 0..made /\ {r} \in SUBSET Row
      /\ Idle.op = "idle" /\ Idle.rest = <<>>
  BY IdleIsFine DEF IInv, TypeOK, Idle
<1>6. k \in Command /\ k.op \in {"idle", "rule"} /\ (k.op = "rule" => k.rows = {r})
  BY <1>5 DEF Command
<1> HIDE DEF new, k
<1>7. /\ row' \in [Row -> [status : Status, folder : 0..made] \union {Absent}]
      /\ \A q \in Row : row'[q] = IF q = r THEN new ELSE row[q]
  BY <1>3, <1>4 DEF IInv, TypeOK
<1>8. Present \subseteq Present' /\ r \in Present'
  BY <1>3, <1>7 DEF Present
<1>9. cmd' \in [Client -> Command] /\ \A d \in Client : cmd'[d] = IF d = c THEN k ELSE cmd[d]
  BY <1>4, <1>6 DEF IInv, TypeOK
<1>10. Commands' /\ Removals' /\ Paths'
  <2>1. Shape(k, Present') /\ Deleting(k) /\ Computing(k)
    BY <1>6, <1>8 DEF Shape, Deleting, Computing
  <2>2. \A d \in Client : \/ cmd'[d] = cmd[d]
                          \/ Shape(cmd'[d], Present') /\ Deleting(cmd'[d]) /\ Computing(cmd'[d])
    BY <1>9, <2>1
  <2>3. UNCHANGED <<group, made, renamed, garbled, stray>>
    BY <1>2
  <2> QED
    BY <1>8, <2>2, <2>3, CommandStep
<1>11. TypeOK'
  BY <1>2, <1>7, <1>9 DEF IInv, TypeOK, Command
<1>12. FiledIsExplained'
  BY <1>2, <1>3, <1>7, <1>9 DEF IInv, FiledIsExplained, Gone
<1> QED
  BY <1>10, <1>11, <1>12 DEF IInv

\* A deletion that a crash stops between its two statements is marked
LEMMA CrashStep ==
    ASSUME IInv, Crash
    PROVE  IInv'
<1>1. /\ cmd' = [c \in Client |-> Idle]
      /\ torn' = torn \union ((UNION {cmd[c].found : c \in {k \in Client : cmd[k].op = "unfile"}}) \ {0})
      /\ UNCHANGED <<group, made, row, rule, issued, renamed, rival, garbled, stray, lateFiled>>
  BY DEF Crash
<1>2. /\ Idle \in Command /\ Shape(Idle, Present') /\ Deleting(Idle) /\ Computing(Idle)
  BY IdleIsFine DEF IInv, Shape, Idle
<1>3. Present' = Present
  BY <1>1 DEF Present
<1>4. Commands' /\ Removals' /\ Paths'
  <2>1. \A d \in Client : Shape(cmd'[d], Present') /\ Deleting(cmd'[d]) /\ Computing(cmd'[d])
    BY <1>1, <1>2
  <2>2. UNCHANGED <<group, made, renamed, garbled, stray>>
    BY <1>1
  <2> QED
    BY <1>3, <2>1, <2>2, CommandStep
<1>5. torn' \subseteq 1..made
  <2>1. \A c \in Client : cmd[c].found \subseteq 0..made
    BY DEF IInv, TypeOK, Command
  <2>2. (UNION {cmd[c].found : c \in {k \in Client : cmd[k].op = "unfile"}}) \subseteq 0..made
    BY <2>1
  <2>3. 0..made \ {0} \subseteq 1..made
    BY FoldersAssumption DEF IInv, TypeOK
  <2> QED
    BY <1>1, <2>2, <2>3 DEF IInv, TypeOK
<1>6. TypeOK'
  BY <1>1, <1>2, <1>5 DEF IInv, TypeOK, Command
<1>7. FiledIsExplained'
  BY <1>1 DEF IInv, FiledIsExplained, Gone
<1> QED
  BY <1>4, <1>6, <1>7 DEF IInv

-----------------------------------------------------------------------------
\* Steps that make, rename and delete folders

LEMMA DisturbedType ==
    ASSUME IInv, NEW c \in Client, NEW next, cmd' = Disturbed(c, next)
    PROVE  /\ \A d \in Client : cmd'[d] = IF d = c THEN next ELSE [cmd[d] EXCEPT !.alone = FALSE]
           /\ made' >= made /\ made' \in Nat /\ next \in Command' => cmd' \in [Client -> Command']
<1>1. \A d \in Client : cmd'[d] = IF d = c THEN next ELSE [cmd[d] EXCEPT !.alone = FALSE]
  BY DEF Disturbed
<1>2. ASSUME made' >= made, made' \in Nat, next \in Command', NEW d \in Client
      PROVE  cmd'[d] \in Command'
  <2>1. cmd[d] \in Command /\ made \in Nat
    BY FoldersAssumption DEF IInv, TypeOK
  <2>2. 0..made \subseteq 0..made' /\ 1..made \subseteq 1..made'
    BY <1>2, <2>1
  <2>3. [cmd[d] EXCEPT !.alone = FALSE] \in Command'
    <3>1. Command \subseteq Command'
      BY <2>2 DEF Command
    <3>2. [cmd[d] EXCEPT !.alone = FALSE] \in Command
      BY <2>1 DEF Command
    <3> QED
      BY <3>1, <3>2
  <2> QED
    BY <1>1, <1>2, <2>3
<1> QED
  BY <1>1, <1>2 DEF Disturbed

\* The commands of the others after a step on the table
LEMMA OthersStep ==
    ASSUME IInv, TypeOK', Removals', NEW c \in Client, NEW next, cmd' = Disturbed(c, next),
           made' >= made, row' = row,
           renamed \subseteq renamed', stray \subseteq stray',
           \A k \in 1..made \intersect DOMAIN group' :
              /\ k \in DOMAIN group /\ group'[k].parent = group[k].parent
              /\ group'[k].name = group[k].name \/ k \in renamed',
           DOMAIN group \ DOMAIN group' \subseteq renamed',
           \A k \in DOMAIN group' \ 1..made : group'[k].parent \in Doomed \ {0} => k \in stray'
    PROVE  /\ \A d \in Client \ {c} : Shape(cmd[d], Present)'
           /\ \A d \in Client \ {c} : Deleting(cmd[d])'
           /\ \A d \in Client \ {c} : Computing(cmd[d])'
<1>1. /\ \A p \in 0..made : \A path, name : True(path, p, name) => True(path, p, name)'
      /\ \A g \in DOMAIN group' \intersect 1..made :
            \/ Chain(g)' \intersect stray' # {}
            \/ Chain(g)' = Chain(g)
  BY TableStep DEF IInv
<1> SUFFICES ASSUME NEW d \in Client \ {c}
             PROVE  Shape(cmd[d], Present)' /\ Deleting(cmd[d])' /\ Computing(cmd[d])'
  OBVIOUS
<1>2. /\ cmd[d] \in Command /\ DOMAIN group \subseteq 1..made /\ made \in Nat
      /\ Shape(cmd[d], Present) /\ Deleting(cmd[d]) /\ Computing(cmd[d])
  BY FoldersAssumption DEF IInv, TypeOK, Commands
<1>3. /\ cmd'[d].op = cmd[d].op /\ cmd'[d].rest = cmd[d].rest /\ cmd'[d].id = cmd[d].id
      /\ cmd'[d].parent = cmd[d].parent /\ cmd'[d].path = cmd[d].path
      /\ cmd'[d].todo = cmd[d].todo /\ cmd'[d].found = cmd[d].found /\ cmd'[d].rows = cmd[d].rows
      /\ cmd'[d].missed = cmd[d].missed /\ cmd'[d].whole = cmd[d].whole
  <2>1. cmd'[d] = [cmd[d] EXCEPT !.alone = FALSE]
    BY DEF Disturbed
  <2> QED
    BY <1>2, <2>1 DEF Command
<1>4. /\ cmd[d].id \in 0..made /\ cmd[d].parent \in 0..made
      /\ cmd[d].found \subseteq 0..made /\ cmd[d].todo \subseteq 0..made
  BY <1>2 DEF Command
<1>5. Shape(cmd[d], Present)'
  BY <1>2, <1>3 DEF Shape, Present
<1>6. Deleting(cmd[d])'
  <2> SUFFICES ASSUME cmd[d].op = "scan" PROVE Deleting(cmd[d])'
    BY <1>3 DEF Deleting
  <2>1. \A k \in DOMAIN group' : group'[k].parent \in cmd[d].found \ {0} =>
           k \in cmd[d].found \union cmd[d].todo \union cmd[d].missed \union stray'
    <3>1. ASSUME NEW k \in DOMAIN group' \ 1..made, group'[k].parent \in cmd[d].found \ {0}
          PROVE  k \in stray'
      BY <3>1 DEF Doomed
    <3>2. ASSUME NEW k \in 1..made \intersect DOMAIN group', group'[k].parent \in cmd[d].found \ {0}
          PROVE  k \in cmd[d].found \union cmd[d].todo \union cmd[d].missed \union stray'
      BY <1>2, <3>2 DEF Deleting
    <3> QED
      BY <3>1, <3>2
  <2>2. \A k \in DOMAIN group' \intersect (cmd[d].found \union cmd[d].todo) :
           cmd[d].id \in {0} \union Chain(k)' \/ Chain(k)' \intersect stray' # {}
    <3> SUFFICES ASSUME NEW k \in DOMAIN group' \intersect (cmd[d].found \union cmd[d].todo)
                 PROVE  cmd[d].id \in {0} \union Chain(k)' \/ Chain(k)' \intersect stray' # {}
      OBVIOUS
    <3>1. k \in 1..made
      BY <1>4 DEF TypeOK
    <3>2. k \in DOMAIN group
      BY <3>1
    <3> QED
      BY <1>1, <1>2, <3>1, <3>2 DEF Deleting
  <2> QED
    BY <1>2, <1>3, <2>1, <2>2 DEF Deleting
<1>7. Computing(cmd[d])'
  <2>1. ASSUME cmd[d].op = "insert", cmd[d].whole PROVE True(cmd[d].path, cmd[d].parent, cmd[d].rest[1])'
    <3>1. True(cmd[d].path, cmd[d].parent, cmd[d].rest[1])
      BY <1>2, <2>1 DEF Computing
    <3> QED
      BY <1>1, <1>3, <1>4, <3>1
  <2>2. ASSUME cmd[d].op = "update", cmd[d].whole, cmd[d].id \in DOMAIN group'
        PROVE  True(cmd[d].path, group[cmd[d].id].parent, cmd[d].rest[2])'
    <3>1. cmd[d].id \in 1..made /\ cmd[d].id \in DOMAIN group
      BY <1>4, <2>2 DEF TypeOK
    <3>2. /\ group[cmd[d].id].parent \in 0..made
          /\ group'[cmd[d].id].parent = group[cmd[d].id].parent
      BY <2>2, <3>1, ChainUp DEF IInv
    <3>3. True(cmd[d].path, group[cmd[d].id].parent, cmd[d].rest[2])
      BY <1>2, <2>2, <3>1 DEF Computing
    <3> QED
      BY <1>1, <1>3, <3>2, <3>3
  <2> QED
    BY <1>3, <2>1, <2>2 DEF Computing
<1> QED
  BY <1>5, <1>6, <1>7

LEMMA CreateInsertStep ==
    ASSUME IInv, NEW c \in Client, CreateInsert(c)
    PROVE  IInv'
<1>1. /\ cmd[c].op = "insert" /\ cmd[c] \in Command /\ Shape(cmd[c], Present)
      /\ Computing(cmd[c]) /\ issued \in 0..MaxCommand
      /\ UNCHANGED <<row, rule, issued, renamed, lateFiled, torn>>
  BY DEF CreateInsert, IInv, TypeOK, Commands
<1> DEFINE g   == made + 1
           p   == cmd[c].parent
           new == [name |-> Head(cmd[c].rest), parent |-> p, path |-> cmd[c].path]
<1>2. ASSUME made < MaxGroup,
             group' = [k \in DOMAIN group \union {g} |-> IF k = g THEN new ELSE group[k]],
             made' = g,
             rival' = IF cmd[c].alone THEN rival ELSE rival \union {g},
             garbled' = IF cmd[c].whole THEN garbled ELSE garbled \union {g},
             stray' = IF p # 0 /\ (p \in Doomed \/ p \notin DOMAIN group)
                      THEN stray \union {g} ELSE stray,
             cmd' = Disturbed(c, NextSegment(c, g))
      PROVE  IInv'
  <2>1. /\ made \in Nat /\ g \in 1..MaxGroup /\ 0..made \subseteq 0..g /\ 1..g = 1..made \union {g}
        /\ g \notin 1..made /\ DOMAIN group \subseteq 1..made
    BY <1>2, FoldersAssumption DEF IInv, TypeOK
  <2>2. /\ p \in 0..made /\ cmd[c].path \in Seq(Name) /\ cmd[c].rest \in Seq(Name)
        /\ cmd[c].rest # <<>> /\ Head(cmd[c].rest) = cmd[c].rest[1] /\ Head(cmd[c].rest) \in Name
    BY <1>1 DEF Command, Shape
  <2>3. new \in Folder /\ new.parent = p /\ new.name = cmd[c].rest[1] /\ new.path = cmd[c].path
    BY <2>1, <2>2, FoldersAssumption DEF Folder
  <2> HIDE DEF new
  <2>4. /\ DOMAIN group' = DOMAIN group \union {g} /\ group'[g] = new
        /\ \A k \in DOMAIN group : group'[k] = group[k]
    BY <1>2, <2>1
  <2>5. /\ NextSegment(c, g) \in Command' /\ NextSegment(c, g).op \in {"idle", "create"}
        /\ Shape(NextSegment(c, g), Present)
    <3>1. IF Len(cmd[c].rest) = 1 THEN NextSegment(c, g) = Idle
          ELSE NextSegment(c, g) = [NextSegment(c, 0) EXCEPT !.parent = g]
      BY DEF NextSegment, Idle
    <3>2. 0 \in 0..made /\ 0 \in 0..g
      BY <2>1
    <3>3. /\ NextSegment(c, 0) \in Command /\ NextSegment(c, 0).op \in {"idle", "create"}
          /\ Shape(NextSegment(c, 0), Present)
      BY <1>1, <3>2, SegmentIsFine
    <3>4. /\ Idle \in Command' /\ Shape(Idle, Present) /\ Idle.op = "idle"
      BY <1>2, <3>2 DEF Idle, Command, Shape
    <3>5. [NextSegment(c, 0) EXCEPT !.parent = g] \in Command'
      <4>1. Command \subseteq Command'
        BY <1>2, <2>1 DEF Command
      <4>2. g \in 0..made'
        BY <1>2, <2>1
      <4>3. ASSUME NEW k \in Command', NEW n \in 0..made' PROVE [k EXCEPT !.parent = n] \in Command'
        BY <4>3 DEF Command
      <4> QED
        BY <3>3, <4>1, <4>2, <4>3
    <3>6. /\ [NextSegment(c, 0) EXCEPT !.parent = g].op \in {"idle", "create"}
          /\ Shape([NextSegment(c, 0) EXCEPT !.parent = g], Present)
      BY <3>3 DEF Shape, Command
    <3> QED
      BY <3>1, <3>4, <3>5, <3>6
  <2>6. TypeOK'
    <3>1. made' \in 0..MaxGroup /\ DOMAIN group' \subseteq 1..made'
      BY <1>2, <2>1, <2>4
    <3>2. \A k \in DOMAIN group' : group'[k] \in Folder /\ group'[k].parent < k
      BY <2>1, <2>2, <2>3, <2>4 DEF IInv, TypeOK
    <3>3. /\ row' \in [Row -> [status : Status, folder : 0..made'] \union {Absent}]
          /\ rule' \in 0..made'
      BY <1>1, <1>2, <2>1 DEF IInv, TypeOK
    <3>4. cmd' \in [Client -> Command']
      BY <1>2, <2>1, <2>5, DisturbedType
    <3>5. renamed' \union rival' \union garbled' \union stray' \union torn' \subseteq 1..made'
      BY <1>1, <1>2, <2>1 DEF IInv, TypeOK
    <3> QED
      BY <1>1, <3>1, <3>2, <3>3, <3>4, <3>5 DEF IInv, TypeOK
  <2>7. Removals'
    <3>1. 1..made' \subseteq DOMAIN group' \union renamed'
      BY <1>1, <1>2, <2>1, <2>4 DEF IInv, Removals
    <3>2. \A k \in DOMAIN group' : group'[k].parent # 0 /\ group'[k].parent \notin DOMAIN group'
             => k \in stray'
      BY <1>2, <2>1, <2>3, <2>4 DEF IInv, Removals, Gone
    <3> QED
      BY <3>1, <3>2 DEF Removals, Gone
  <2>8. /\ renamed \subseteq renamed' /\ stray \subseteq stray' /\ made' >= made
        /\ \A k \in 1..made \intersect DOMAIN group' :
              /\ k \in DOMAIN group /\ group'[k].parent = group[k].parent
              /\ group'[k].name = group[k].name \/ k \in renamed'
        /\ DOMAIN group \ DOMAIN group' \subseteq renamed'
        /\ \A k \in DOMAIN group' \ 1..made : group'[k].parent \in Doomed \ {0} => k \in stray'
    BY <1>1, <1>2, <2>1, <2>3, <2>4
  <2>9. Commands'
    <3>1. \A d \in Client \ {c} :
             Shape(cmd[d], Present)' /\ Deleting(cmd[d])' /\ Computing(cmd[d])'
      BY <1>1, <1>2, <2>6, <2>7, <2>8, OthersStep
    <3>2. cmd'[c] = NextSegment(c, g)
      BY <1>2 DEF Disturbed
    <3>3. Shape(cmd[c], Present)' /\ Deleting(cmd[c])' /\ Computing(cmd[c])'
      BY <1>1, <2>5, <3>2 DEF Shape, Deleting, Computing, Present
    <3> QED
      BY <3>1, <3>3 DEF Commands
  <2>10. Paths'
    <3>1. \A q \in 0..made : \A path, name : True(path, q, name) => True(path, q, name)'
      BY <2>6, <2>7, <2>8, TableStep DEF IInv
    <3>2. g \notin garbled' => True(new.path, new.parent, new.name)
      BY <1>1, <1>2, <2>3 DEF Computing
    <3>3. \A k \in DOMAIN group :
             /\ k \notin garbled => True(group[k].path, group[k].parent, group[k].name)
             /\ group[k].parent \in 0..made
      BY ChainUp DEF IInv, Paths
    <3>4. \A k \in DOMAIN group' \ garbled' :
             True(group[k].path, group[k].parent, group[k].name)'
      BY <1>2, <2>2, <2>3, <2>4, <3>1, <3>2, <3>3
    <3> QED
      BY <3>4 DEF Paths
  <2>11. FiledIsExplained'
    <3>1. \A d \in Client : cmd[d].op = "unfile" =>
             cmd'[d].op = "unfile" /\ cmd'[d].found = cmd[d].found
      BY <1>1, <1>2 DEF Disturbed, IInv, TypeOK, Command
    <3> QED
      BY <1>1, <2>4, <3>1 DEF IInv, FiledIsExplained, Gone
  <2> QED
    BY <2>6, <2>7, <2>9, <2>10, <2>11 DEF IInv
<1> QED
  BY <1>2 DEF CreateInsert

LEMMA RenameUpdateStep ==
    ASSUME IInv, NEW c \in Client, RenameUpdate(c)
    PROVE  IInv'
<1>1. /\ cmd[c].op = "update" /\ cmd[c] \in Command /\ Shape(cmd[c], Present)
      /\ Computing(cmd[c]) /\ issued \in 0..MaxCommand
      /\ UNCHANGED <<made, row, rule, issued, rival, stray, lateFiled, torn>>
  BY DEF RenameUpdate, IInv, TypeOK, Commands
<1>2. Idle \in Command /\ Shape(Idle, Present) /\ Deleting(Idle) /\ Computing(Idle)
  BY IdleIsFine DEF IInv
<1>3. CASE cmd[c].id \notin DOMAIN group
  <2>1. UNCHANGED <<group, made, row, rule, history>> /\ Done(c)
    BY <1>1, <1>3 DEF history, RenameUpdate
  <2> QED
    BY <1>1, <1>2, <2>1, LookStep DEF Done
<1> DEFINE g == cmd[c].id
<1>4. CASE g \in DOMAIN group
  <2>1. /\ group' = [group EXCEPT ![g] = Renamed(c)] /\ renamed' = renamed \union {g}
        /\ garbled' = IF cmd[c].whole THEN garbled \ {g} ELSE garbled \union {g}
        /\ cmd' = Disturbed(c, Idle)
    BY <1>4 DEF RenameUpdate
  <2>2. /\ group[g] \in Folder /\ group[g].parent < g /\ cmd[c].path \in Seq(Name)
        /\ cmd[c].rest \in Name \X Name /\ g \in 1..made /\ made \in Nat
    BY <1>1, <1>4, FoldersAssumption DEF IInv, TypeOK, Command, Shape
  <2>3. /\ Renamed(c) \in Folder /\ Renamed(c).parent = group[g].parent
        /\ Renamed(c).name = cmd[c].rest[2] /\ Renamed(c).path = cmd[c].path
    BY <2>2 DEF Renamed, Folder
  <2>4. /\ DOMAIN group' = DOMAIN group
        /\ \A k \in DOMAIN group : group'[k] = IF k = g THEN Renamed(c) ELSE group[k]
    BY <2>1
  <2>5. TypeOK'
    <3>1. cmd' \in [Client -> Command']
      <4>1. Idle \in Command' /\ made' >= made /\ made' \in Nat
        BY <1>1, <1>2, <2>2 DEF Command
      <4> QED
        BY <2>1, <4>1, DisturbedType
    <3>2. \A k \in DOMAIN group' : group'[k] \in Folder /\ group'[k].parent < k
      BY <2>2, <2>3, <2>4 DEF IInv, TypeOK
    <3>3. renamed' \subseteq 1..made /\ garbled' \subseteq 1..made
      BY <2>1, <2>2 DEF IInv, TypeOK
    <3> QED
      BY <1>1, <2>4, <3>1, <3>2, <3>3 DEF IInv, TypeOK
  <2>6. Removals'
    BY <1>1, <2>1, <2>3, <2>4 DEF IInv, Removals, Gone
  <2>7. /\ renamed \subseteq renamed' /\ stray \subseteq stray' /\ made' >= made
        /\ \A k \in 1..made \intersect DOMAIN group' :
              /\ k \in DOMAIN group /\ group'[k].parent = group[k].parent
              /\ group'[k].name = group[k].name \/ k \in renamed'
        /\ DOMAIN group \ DOMAIN group' \subseteq renamed'
        /\ \A k \in DOMAIN group' \ 1..made : group'[k].parent \in Doomed \ {0} => k \in stray'
    <3>1. DOMAIN group' \ 1..made = {}
      BY <2>4 DEF IInv, TypeOK
    <3> QED
      BY <1>1, <2>1, <2>2, <2>3, <2>4, <3>1
  <2>8. Commands'
    <3>1. \A d \in Client \ {c} :
             Shape(cmd[d], Present)' /\ Deleting(cmd[d])' /\ Computing(cmd[d])'
      BY <1>1, <2>1, <2>5, <2>6, <2>7, OthersStep
    <3>2. cmd'[c] = Idle
      BY <2>1 DEF Disturbed
    <3>3. Shape(cmd[c], Present)' /\ Deleting(cmd[c])' /\ Computing(cmd[c])'
      BY <3>2 DEF Shape, Deleting, Computing, Idle
    <3> QED
      BY <3>1, <3>3 DEF Commands
  <2>9. Paths'
    <3>1. \A q \in 0..made : \A path, name : True(path, q, name) => True(path, q, name)'
      BY <2>5, <2>6, <2>7, TableStep DEF IInv
    <3>2. g \notin garbled' => True(cmd[c].path, group[g].parent, cmd[c].rest[2])
      BY <1>1, <1>4, <2>1 DEF Computing
    <3>3. \A k \in DOMAIN group :
             /\ k \notin garbled => True(group[k].path, group[k].parent, group[k].name)
             /\ group[k].parent \in 0..made
      BY ChainUp DEF IInv, Paths
    <3>4. \A k \in DOMAIN group' \ garbled' :
             True(group[k].path, group[k].parent, group[k].name)'
      BY <1>4, <2>1, <2>3, <2>4, <3>1, <3>2, <3>3
    <3> QED
      BY <3>4 DEF Paths
  <2>10. FiledIsExplained'
    <3>1. \A d \in Client : cmd[d].op = "unfile" =>
             cmd'[d].op = "unfile" /\ cmd'[d].found = cmd[d].found
      BY <1>1, <2>1 DEF Disturbed, IInv, TypeOK, Command
    <3> QED
      BY <1>1, <2>4, <3>1 DEF IInv, FiledIsExplained, Gone
  <2> QED
    BY <2>5, <2>6, <2>8, <2>9, <2>10 DEF IInv
<1> QED
  BY <1>3, <1>4

\* What hangs below a folder that is deleted is deleted too, but for the late children
LEMMA DropStep ==
    ASSUME IInv, NEW c \in Client, Drop(c)
    PROVE  IInv'
<1>1. /\ cmd[c].op = "scan" /\ cmd[c].todo = {} /\ cmd[c] \in Command
      /\ Shape(cmd[c], Present) /\ Deleting(cmd[c]) /\ issued \in 0..MaxCommand
      /\ UNCHANGED <<made, row, rule, issued, rival, garbled, lateFiled, torn>>
  BY DEF Drop, IInv, TypeOK, Commands
<1>2. ASSUME Done(c), UNCHANGED <<group, renamed, stray>> PROVE IInv'
  <2>1. UNCHANGED <<group, made, row, rule, history>>
    BY <1>1, <1>2 DEF history
  <2>2. Idle \in Command /\ Shape(Idle, Present) /\ Deleting(Idle) /\ Computing(Idle)
    BY IdleIsFine DEF IInv
  <2> QED
    BY <1>1, <1>2, <2>1, <2>2, LookStep DEF Done
<1> DEFINE found == cmd[c].found
           next  == [cmd[c] EXCEPT !.op = "unfile"]
<1>3. ASSUME group' = [g \in DOMAIN group \ found |-> group[g]],
             renamed' = renamed \union (found \ {0}), stray' = stray \union cmd[c].missed,
             cmd' = Disturbed(c, next)
      PROVE  IInv'
  <2>1. found \subseteq 0..made /\ made \in Nat
    BY <1>1, FoldersAssumption DEF Command, IInv, TypeOK
  <2>2. next \in Command /\ next.op = "unfile" /\ next.found = found
    BY <1>1 DEF Command
  <2> HIDE DEF next
  <2>3. DOMAIN group' = DOMAIN group \ found /\ \A k \in DOMAIN group' : group'[k] = group[k]
    BY <1>3
  <2>4. cmd'[c] = next /\ cmd' \in [Client -> Command']
    <3>1. next \in Command' /\ made' >= made /\ made' \in Nat
      BY <1>1, <2>1, <2>2 DEF Command
    <3> QED
      BY <1>3, <3>1, DisturbedType
  <2>5. TypeOK'
    <3>1. renamed' \subseteq 1..made /\ stray' \subseteq 1..made
      BY <1>1, <1>3, <2>1 DEF IInv, TypeOK, Command
    <3> QED
      BY <1>1, <2>3, <2>4, <3>1 DEF IInv, TypeOK
  <2>6. Removals'
    <3>1. 1..made' \subseteq DOMAIN group' \union renamed'
      BY <1>1, <1>3, <2>1, <2>3 DEF IInv, Removals
    <3>2. \A k \in DOMAIN group' : Gone(group[k].parent)' => k \in stray'
      BY <1>1, <1>3, <2>1, <2>3 DEF IInv, Removals, Gone, Deleting
    <3> QED
      BY <3>1, <3>2 DEF Removals
  <2>7. /\ renamed \subseteq renamed' /\ stray \subseteq stray' /\ made' >= made
        /\ \A k \in 1..made \intersect DOMAIN group' :
              /\ k \in DOMAIN group /\ group'[k].parent = group[k].parent
              /\ group'[k].name = group[k].name \/ k \in renamed'
        /\ DOMAIN group \ DOMAIN group' \subseteq renamed'
        /\ \A k \in DOMAIN group' \ 1..made : group'[k].parent \in Doomed \ {0} => k \in stray'
    <3>1. DOMAIN group' \ 1..made = {} /\ 0 \notin DOMAIN group
      BY <2>3 DEF IInv, TypeOK
    <3> QED
      BY <1>1, <1>3, <2>1, <2>3, <3>1
  <2>8. Commands'
    <3>1. \A d \in Client \ {c} :
             Shape(cmd[d], Present)' /\ Deleting(cmd[d])' /\ Computing(cmd[d])'
      BY <1>1, <1>3, <2>5, <2>6, <2>7, OthersStep
    <3>2. Shape(cmd[c], Present)' /\ Deleting(cmd[c])' /\ Computing(cmd[c])'
      BY <2>2, <2>4 DEF Shape, Deleting, Computing
    <3> QED
      BY <3>1, <3>2 DEF Commands
  <2>9. Paths'
    <3>1. \A q \in 0..made : \A path, name : True(path, q, name) => True(path, q, name)'
      BY <2>5, <2>6, <2>7, TableStep DEF IInv
    <3>2. \A k \in DOMAIN group :
             /\ k \notin garbled => True(group[k].path, group[k].parent, group[k].name)
             /\ group[k].parent \in 0..made
      BY ChainUp DEF IInv, Paths
    <3>3. \A k \in DOMAIN group' \ garbled' :
             True(group[k].path, group[k].parent, group[k].name)'
      BY <1>1, <2>3, <3>1, <3>2
    <3> QED
      BY <3>3 DEF Paths
  <2>10. FiledIsExplained'
    <3>1. \A d \in Client : cmd[d].op = "unfile" =>
             cmd'[d].op = "unfile" /\ cmd'[d].found = cmd[d].found
      BY <1>1, <1>3 DEF Disturbed, IInv, TypeOK, Command
    <3>2. ASSUME NEW r \in Row, row[r].folder \in found
          PROVE  \E d \in Client : cmd'[d].op = "unfile" /\ row[r].folder \in cmd'[d].found
      BY <2>2, <2>4, <3>2
    <3> QED
      BY <1>1, <2>3, <3>1, <3>2 DEF IInv, FiledIsExplained, Gone
  <2> QED
    BY <2>5, <2>6, <2>8, <2>9, <2>10 DEF IInv
<1> QED
  BY <1>2, <1>3 DEF Drop, Collected

-----------------------------------------------------------------------------
\* The invariant

LEMMA InitInv == Init => IInv
<1> SUFFICES ASSUME Init PROVE IInv
  OBVIOUS
<1> DEFINE bare == [g \in DOMAIN InitialTree |-> [name |-> InitialTree[g][1],
                                                 parent |-> InitialTree[g][2], path |-> <<>>]]
<1>1. /\ DOMAIN InitialTree = 1..made /\ made \in 0..MaxGroup /\ made \in Nat
      /\ \A g \in 1..made : /\ InitialTree[g][1] \in Name /\ InitialTree[g][2] \in Nat
                            /\ InitialTree[g][2] < g
  <2>1. InitialTree \in Seq(Name \X Nat) /\ made = Len(InitialTree) /\ made <= MaxGroup
    BY FoldersAssumption DEF Init
  <2>2. DOMAIN InitialTree = 1..made /\ made \in Nat
    BY <2>1
  <2>3. \A g \in 1..made : InitialTree[g] \in Name \X Nat
    BY <2>1
  <2>4. \A g \in 1..made : InitialTree[g][2] < g
    BY <2>2, FoldersAssumption
  <2> QED
    BY <2>1, <2>2, <2>3, <2>4, FoldersAssumption
<1>2. /\ DOMAIN group = 1..made
      /\ \A g \in 1..made : group[g] = [name |-> InitialTree[g][1], parent |-> InitialTree[g][2],
                                       path |-> LayerName(bare, InitialTree[g][2], InitialTree[g][1])]
  BY <1>1 DEF Init, Tree
<1>3. /\ DOMAIN bare = 1..made
      /\ \A g \in 1..made : bare[g].name = InitialTree[g][1] /\ bare[g].parent = InitialTree[g][2]
  BY <1>1
<1> HIDE DEF bare
<1>4. Table(bare)
  <2>1. DOMAIN bare \subseteq 1..MaxGroup
    BY <1>1, <1>3, FoldersAssumption
  <2>2. \A g \in DOMAIN bare : bare[g].parent \in 0..(g - 1)
    BY <1>1, <1>3
  <2> QED
    BY <2>1, <2>2 DEF Table
<1>5. \A p \in 0..MaxGroup : Layers(bare)[p] \in Seq(Name)
  BY <1>1, <1>3, <1>4, LayersType
<1>6. \A g \in 1..made : InitialTree[g][2] \in 0..made /\ InitialTree[g][2] \in 0..MaxGroup
  BY <1>1, FoldersAssumption
<1>7. \A g \in DOMAIN group : group[g] \in Folder /\ group[g].parent < g
  <2> SUFFICES ASSUME NEW g \in 1..made PROVE group[g] \in Folder /\ group[g].parent < g
    BY <1>2
  <2>1. LayerName(bare, InitialTree[g][2], InitialTree[g][1]) \in Seq(Name)
    BY <1>1, <1>5, <1>6 DEF LayerName
  <2> QED
    BY <1>1, <1>2, <1>6, <2>1 DEF Folder
<1>8. TypeOK
  <2>1. Idle \in Command
    BY <1>1 DEF Idle, Command
  <2> QED
    BY <1>1, <1>2, <1>7, <2>1, FoldersAssumption DEF Init, TypeOK
<1>9. Commands
  BY DEF Init, Commands, Shape, Deleting, Computing, Idle
<1>10. Removals
  <2>1. \A g \in DOMAIN group : ~Gone(group[g].parent)
    BY <1>1, <1>2 DEF Gone
  <2> QED
    BY <1>2, <2>1 DEF Removals
<1>11. Paths
  <2>1. Table(group)
    BY <1>8, GroupTable
  <2>2. Evolves(bare, group, made, {})
    BY <1>2, <1>3 DEF Evolves
  <2>3. \A p \in 0..made : Layers(group)[p] = Layers(bare)[p]
    BY <1>1, <1>4, <2>1, <2>2, AboveKept
  <2>4. ASSUME NEW g \in 1..made
        PROVE  group[g].path = LayerName(group, group[g].parent, group[g].name)
    <3>1. /\ group[g].name = InitialTree[g][1] /\ group[g].parent = InitialTree[g][2]
          /\ group[g].path = LayerName(bare, InitialTree[g][2], InitialTree[g][1])
      BY <1>2
    <3>2. Layers(group)[group[g].parent] = Layers(bare)[InitialTree[g][2]]
      BY <1>6, <2>3, <3>1
    <3> QED
      BY <3>1, <3>2 DEF LayerName
  <2> QED
    BY <1>2, <2>4 DEF Paths, True
<1>12. FiledIsExplained
  BY DEF Init, FiledIsExplained, Gone, Absent
<1> QED
  BY <1>8, <1>9, <1>10, <1>11, <1>12 DEF IInv

LEMMA NextInv == IInv /\ [Next]_vars => IInv'
<1> SUFFICES ASSUME IInv, [Next]_vars PROVE IInv'
  OBVIOUS
<1>1. ASSUME NEW c \in Client,
             \/ Create(c) \/ AddGroup(c) \/ Rename(c) \/ Delete(c) \/ DelGroup(c) \/ Move(c)
             \/ Copy(c) \/ CreateFind(c) \/ CreateInsert(c) \/ RenameFind(c) \/ RenameUpdate(c)
             \/ DeleteFind(c) \/ Scan(c) \/ Drop(c) \/ Unfile(c)
             \/ MoveMailToGroup(c) \/ CopyInsert(c) \/ Arrive(c) \/ RuleMove(c)
             \/ Fails(c)
      PROVE  IInv'
  BY <1>1, IssueSteps, DeleteFindStep, CreateFindStep, CreateInsertStep, RenameFindStep,
     RenameUpdateStep, ScanStep, DropStep, UnfileStep, MoveStep, CopyStep, ArriveStep,
     FailsStep
<1>2. ASSUME Move2DefaultBox \/ UpsertRule \/ DelRule \/ Crash PROVE IInv'
  BY <1>2, DefaultBoxStep, RuleStep, CrashStep
<1>3. ASSUME UNCHANGED vars PROVE IInv'
  <2> USE <1>3 DEF vars, history
  <2>1. Present' = Present
    BY DEF Present
  <2>2. Commands' /\ Removals' /\ Paths'
    BY <2>1, CommandStep
  <2>3. TypeOK'
    BY DEF IInv, TypeOK, Command
  <2>4. FiledIsExplained'
    BY DEF IInv, FiledIsExplained, Gone
  <2> QED
    BY <2>2, <2>3, <2>4 DEF IInv
<1> QED
  BY <1>1, <1>2, <1>3 DEF Next

\* The table, the commands under way and the mails filed agree at every moment, whatever
\* the commands of several sessions do to each other statement by statement.
THEOREM Invariance == Spec => []IInv
  BY InitInv, NextInv, PTL DEF Spec

\* Every row, folder and command under way has its type; a parent is older than its
\* children, so the tree has no cycle.
THEOREM TypeCorrect == Spec => []TypeOK
<1>1. IInv => TypeOK
  BY DEF IInv
<1> QED
  BY <1>1, Invariance, PTL

\* A mail whose folder is gone was filed by a stale id, or the deletion of the folder is
\* about to release it, or stopped half way (DelGroup, MoveMailToGroup, doMove).
THEOREM FiledMailsAreExplained == Spec => []FiledIsExplained
<1>1. IInv => FiledIsExplained
  BY DEF IInv
<1> QED
  BY <1>1, Invariance, PTL

\* What buildChildren does not reach is a folder that the deletion of its parent did not
\* take, as it came too late or a query of getAllChildId failed, or hangs below another.
THEOREM HiddenFoldersAreExplained == Spec => []HiddenIsExplained
<1>1. IInv => HiddenIsExplained
  BY HiddenAreExplained DEF IInv
<1> QED
  BY <1>1, Invariance, PTL

\* The path cached in full_path is the one getLayerName computes when its queries are
\* answered, unless one failed at the time or something above the folder was renamed or
\* deleted, also while a CREATE or a RENAME has computed a path and not written it yet.
THEOREM CachedPathsAreTrue == Spec => []PathIsTrue
<1>1. IInv => PathIsTrue
  BY PathsAreTrue DEF IInv
<1> QED
  BY <1>1, Invariance, PTL

-----------------------------------------------------------------------------
\* What a deletion takes

LEMMA ContainedStep ==
    ASSUME IInv, Next, NEW g \in DOMAIN group \ DOMAIN group'
    PROVE  \E c \in Client : /\ cmd[c].op = "scan" /\ cmd'[c].op = "unfile"
                             /\ \/ cmd[c].id \in {0, g} \union Above(g)
                                \/ Above(g) \intersect stray # {} \/ g \in stray
<1>1. PICK c \in Client : Drop(c)
  <2>1. ASSUME NEW c \in Client, RenameUpdate(c) PROVE DOMAIN group' = DOMAIN group
    BY <2>1 DEF RenameUpdate
  <2>2. ASSUME NEW c \in Client, CreateInsert(c) PROVE DOMAIN group \subseteq DOMAIN group'
    BY <2>2 DEF CreateInsert
  <2> QED
    BY <2>1, <2>2 DEF Next, Create, AddGroup, Rename, Delete, DelGroup, Move, Copy, Issue,
          CreateFind, RenameFind, DeleteFind, Scan, Unfile, MoveMailToGroup, CopyInsert,
          Arrive, RuleMove, Fails, Move2DefaultBox, UpsertRule, DelRule, Crash
<1>2. /\ cmd[c].op = "scan" /\ cmd[c] \in Command /\ Deleting(cmd[c])
      /\ group' = [k \in DOMAIN group \ cmd[c].found |-> group[k]]
      /\ cmd' = Disturbed(c, [cmd[c] EXCEPT !.op = "unfile"])
  BY <1>1 DEF Drop, Collected, IInv, TypeOK, Commands
<1>3. g \in cmd[c].found
  BY <1>2
<1>4. cmd[c].id \in {0} \union Chain(g) \/ Chain(g) \intersect stray # {}
  BY <1>2, <1>3 DEF Deleting
<1>5. cmd'[c].op = "unfile"
  BY <1>2 DEF Disturbed, Command
<1> QED
  BY <1>2, <1>4, <1>5 DEF Chain

\* What one step of DelGroup removes lies below the folder it was called with (or the
\* lookup gave nothing and it removes all), or below one that an earlier deletion left.
THEOREM DeletionsAreContained == Spec => DeleteIsContained
<1>1. IInv /\ [Next]_vars =>
         [\A g \in DOMAIN group \ DOMAIN group' :
             \E c \in Client : /\ cmd[c].op = "scan" /\ cmd'[c].op = "unfile"
                               /\ cmd[c].id \in {0, g} \union Above(g)
                                  \/ Above(g) \intersect stray # {} \/ g \in stray]_vars
  BY ContainedStep
<1> QED
  BY <1>1, Invariance, PTL DEF Spec, DeleteIsContained

-----------------------------------------------------------------------------
\* Names

\* The folders of the beginning have different names
Distinct == \A i, j \in DOMAIN InitialTree : InitialTree[i][1] = InitialTree[j][1] => i = j

NamesInv == Alone /\ NamesAreUnique

\* No command but CreateFind begins an insertion
LEMMA NamesKept ==
    ASSUME NamesInv, UNCHANGED <<group, renamed, rival>>,
           \A d \in Client : cmd'[d] = cmd[d] \/ cmd'[d].op # "insert"
    PROVE  NamesInv'
  BY DEF NamesInv, Alone, NamesAreUnique, Named

LEMMA NamesCreate ==
    ASSUME IInv, NamesInv, NEW c \in Client, CreateFind(c) \/ CreateInsert(c)
    PROVE  NamesInv'
<1>1. /\ cmd[c] \in Command /\ Shape(cmd[c], Present) /\ made \in Nat
      /\ DOMAIN group \subseteq 1..made /\ cmd \in [Client -> Command]
  BY FoldersAssumption DEF IInv, TypeOK, Commands
<1>2. ASSUME cmd[c].op \in {"create", "insert"}
      PROVE  /\ cmd[c].rest \in Seq(Name) /\ Head(cmd[c].rest) = cmd[c].rest[1]
             /\ \A g : NextSegment(c, g).op \in {"idle", "create"}
  BY <1>1, <1>2 DEF Command, Shape, NextSegment, Idle
<1>3. CASE CreateFind(c)
  <2>1. UNCHANGED <<group, renamed, rival>> /\ cmd[c].op = "create"
    BY <1>3 DEF CreateFind, history
  <2>2. ASSUME NEW g \in DOMAIN group, cmd' = [cmd EXCEPT ![c] = NextSegment(c, g)]
        PROVE  NamesInv'
    BY <1>1, <1>2, <2>1, <2>2, NamesKept
  <2>3. ASSUME NEW path, NEW whole,
               cmd' = [cmd EXCEPT ![c].op = "insert", ![c].path = path, ![c].whole = whole,
                          ![c].alone = \A g \in DOMAIN group : ~Lookup(Head(cmd[c].rest), g)]
        PROVE  NamesInv'
    <3>1. cmd'[c].alone => Named(cmd[c].rest[1]) = {}
      <4>1. cmd'[c].alone = \A g \in DOMAIN group : ~Lookup(Head(cmd[c].rest), g)
        BY <1>1, <2>3 DEF Command
      <4> QED
        BY <1>2, <2>1, <4>1 DEF Lookup, Named
    <3>2. cmd'[c].rest = cmd[c].rest /\ \A d \in Client \ {c} : cmd'[d] = cmd[d]
      BY <1>1, <2>3 DEF Command
    <3> QED
      BY <2>1, <3>1, <3>2 DEF NamesInv, Alone, NamesAreUnique, Named
  <2> QED
    BY <1>3, <2>2, <2>3 DEF CreateFind
<1>4. CASE CreateInsert(c)
  <2>1. cmd[c].op = "insert" /\ renamed' = renamed
    BY <1>4 DEF CreateInsert
  <2> DEFINE g   == made + 1
             new == [name |-> Head(cmd[c].rest), parent |-> cmd[c].parent, path |-> cmd[c].path]
  <2>3. ASSUME group' = [k \in DOMAIN group \union {g} |-> IF k = g THEN new ELSE group[k]],
               rival' = IF cmd[c].alone THEN rival ELSE rival \union {g},
               cmd' = Disturbed(c, NextSegment(c, g))
        PROVE  NamesInv'
    <3>1. /\ g \notin DOMAIN group /\ DOMAIN group' = DOMAIN group \union {g}
          /\ group'[g].name = cmd[c].rest[1]
          /\ \A k \in DOMAIN group : group'[k] = group[k]
      BY <1>1, <1>2, <2>1, <2>3
    <3>2. Alone'
      <4>1. \A d \in Client : ~(cmd'[d].op = "insert" /\ cmd'[d].alone)
        BY <1>1, <1>2, <2>1, <2>3 DEF Disturbed, Command
      <4> QED
        BY <4>1 DEF Alone
    <3>3. cmd[c].alone => \A k \in DOMAIN group : group[k].name # cmd[c].rest[1]
      BY <2>1 DEF NamesInv, Alone, Named
    <3>4. g \in rival' \/ cmd[c].alone
      BY <2>3
    <3>5. rival \subseteq rival'
      BY <2>3
    <3>6. NamesAreUnique'
      BY <2>1, <3>1, <3>3, <3>4, <3>5 DEF NamesInv, NamesAreUnique
    <3> QED
      BY <3>2, <3>6 DEF NamesInv
  <2> QED
    BY <1>4, <2>3 DEF CreateInsert
<1> QED
  BY <1>3, <1>4

LEMMA NamesRename ==
    ASSUME IInv, NamesInv, NEW c \in Client, RenameUpdate(c) \/ Drop(c)
    PROVE  NamesInv'
<1>1. cmd \in [Client -> Command] /\ rival' = rival
  BY DEF IInv, TypeOK, RenameUpdate, Drop
<1>2. ASSUME Done(c), UNCHANGED <<group, renamed>> PROVE NamesInv'
  BY <1>1, <1>2, NamesKept DEF Done, Idle
<1>3. ASSUME NEW next, cmd' = Disturbed(c, next), next.op # "insert"
      PROVE  Alone'
  <2>1. \A d \in Client : ~(cmd'[d].op = "insert" /\ cmd'[d].alone)
    BY <1>1, <1>3 DEF Disturbed, Command
  <2> QED
    BY <2>1 DEF Alone
<1>4. CASE RenameUpdate(c) /\ cmd[c].id \in DOMAIN group
  <2>1. /\ group' = [group EXCEPT ![cmd[c].id] = Renamed(c)]
        /\ renamed' = renamed \union {cmd[c].id} /\ cmd' = Disturbed(c, Idle)
    BY <1>4 DEF RenameUpdate
  <2>2. Alone'
    BY <1>3, <2>1 DEF Idle
  <2>3. NamesAreUnique'
    BY <1>1, <2>1 DEF NamesInv, NamesAreUnique
  <2> QED
    BY <2>2, <2>3 DEF NamesInv
<1>5. ASSUME group' = [g \in DOMAIN group \ Collected(c) |-> group[g]],
             renamed' = renamed \union (Collected(c) \ {0}),
             cmd' = Disturbed(c, [cmd[c] EXCEPT !.op = "unfile"])
      PROVE  NamesInv'
  <2>1. Alone'
    BY <1>1, <1>3, <1>5 DEF Command
  <2>2. NamesAreUnique'
    BY <1>1, <1>5 DEF NamesInv, NamesAreUnique
  <2> QED
    BY <2>1, <2>2 DEF NamesInv
<1> QED
  BY <1>2, <1>4, <1>5 DEF RenameUpdate, Drop

LEMMA NamesStep == IInv /\ NamesInv /\ [Next]_vars => NamesInv'
<1> SUFFICES ASSUME IInv, NamesInv, [Next]_vars PROVE NamesInv'
  OBVIOUS
<1>1. cmd \in [Client -> Command] /\ Idle.op = "idle"
  BY DEF IInv, TypeOK, Idle
<1>2. ASSUME NEW c \in Client,
             \/ CreateFind(c) \/ CreateInsert(c) \/ RenameUpdate(c) \/ Drop(c)
      PROVE  NamesInv'
  BY <1>2, NamesCreate, NamesRename
<1>3. ASSUME NEW c \in Client,
             \/ Create(c) \/ AddGroup(c) \/ Rename(c) \/ Delete(c) \/ DelGroup(c) \/ Move(c) \/ Copy(c)
      PROVE  NamesInv'
  <2>1. PICK k : k.op # "insert" /\ Issue(c, k)
    BY <1>3 DEF Create, AddGroup, Rename, Delete, DelGroup, Move, Copy, Idle
  <2> QED
    BY <1>1, <2>1, NamesKept DEF Issue, history
<1>4. ASSUME NEW c \in Client, RenameFind(c) \/ DeleteFind(c) \/ Scan(c) PROVE NamesInv'
  <2>1. CASE RenameFind(c)
    <3>1. UNCHANGED <<group, renamed, rival>>
      BY <2>1 DEF RenameFind, history
    <3>2. ASSUME NEW g, NEW path, NEW whole,
                 cmd' = [cmd EXCEPT ![c].op = "update", ![c].id = g,
                                    ![c].path = path, ![c].whole = whole]
          PROVE  NamesInv'
      <4>1. \A d \in Client : cmd'[d] = cmd[d] \/ cmd'[d].op = "update"
        BY <1>1, <3>2 DEF Command
      <4> QED
        BY <3>1, <4>1, NamesKept
    <3>3. ASSUME Done(c) PROVE NamesInv'
      BY <1>1, <3>1, <3>3, NamesKept DEF Done
    <3>4. CASE ~Done(c)
      <4> DEFINE true(g) == LayerName(group, group[g].parent, cmd[c].rest[2])
      <4>1. PICK g \in Named(cmd[c].rest[1]) : \E path \in Answers(true(g)) :
               cmd' = [cmd EXCEPT ![c].op = "update", ![c].id = g,
                                  ![c].path = path, ![c].whole = path = true(g)]
        BY <2>1, <3>4 DEF RenameFind
      <4> HIDE DEF true
      <4>2. PICK path \in Answers(true(g)) :
               cmd' = [cmd EXCEPT ![c].op = "update", ![c].id = g,
                                  ![c].path = path, ![c].whole = path = true(g)]
        BY <4>1
      <4> QED
        BY <3>2, <4>2
    <3> QED
      BY <3>3, <3>4
  <2>2. CASE DeleteFind(c)
    BY <1>1, <2>2, NamesKept DEF DeleteFind, Done, history, Command
  <2>3. CASE Scan(c)
    BY <1>1, <2>3, NamesKept DEF Scan, Done, history, Command
  <2> QED
    BY <1>4, <2>1, <2>2, <2>3
<1>5. ASSUME NEW c \in Client,
             \/ Unfile(c) \/ MoveMailToGroup(c) \/ CopyInsert(c) \/ Arrive(c) \/ RuleMove(c)
             \/ Fails(c)
      PROVE  NamesInv'
  BY <1>1, <1>5, NamesKept DEF Unfile, MoveMailToGroup, CopyInsert, Arrive, RuleMove, Fails, Done, history, Idle
<1>6. ASSUME Move2DefaultBox \/ UpsertRule \/ DelRule \/ Crash \/ UNCHANGED vars PROVE NamesInv'
  BY <1>1, <1>6, NamesKept DEF Move2DefaultBox, UpsertRule, DelRule, Crash, vars, history
<1> QED
  BY <1>2, <1>3, <1>4, <1>5, <1>6 DEF Next

LEMMA NamesInit == Distinct /\ Init => NamesInv
<1> SUFFICES ASSUME Distinct, Init PROVE NamesInv
  OBVIOUS
<1>1. Alone
  BY DEF Init, Alone, Idle
<1>2. /\ DOMAIN group = DOMAIN InitialTree
      /\ \A g \in DOMAIN group : group[g].name = InitialTree[g][1]
  BY DEF Init, Tree
<1> QED
  BY <1>1, <1>2 DEF NamesInv, NamesAreUnique, Distinct

\* If the folders had different names to begin with, two of one name come from RENAME,
\* from clients that created at once or from a lookup of CreateGroup that failed.
THEOREM NamesStayUnique == Distinct => (Spec => []NamesAreUnique)
<1>1. NamesInv => NamesAreUnique
  BY DEF NamesInv
<1> QED
  BY <1>1, NamesInit, NamesStep, Invariance, PTL DEF Spec

=============================================================================
