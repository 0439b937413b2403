--------------------------- MODULE RecordsProofs ---------------------------
(***************************************************************************)
(* What a process leaves behind for the next one, for all values of the    *)
(* constants: the files of the workspaces of a root, and the warehouse and *)
(* the ledger after the daily commands.  The models that MCMaintenanceRun  *)
(* composes are values of the parameter of one instance of each component. *)
(***************************************************************************)
EXTENDS MCMaintenanceRun, SequenceTheorems, TLAPS

Calls == {"record", "compact", "archive", "reactivate", "resume", "create", "new", "recover"}

\* What a model must satisfy: no process has the name of "nobody".
Fit(m) == 0 \notin m.procs /\ m.workspaces \in Nat /\ m.limit \in Nat /\ m.operations \subseteq Calls

-----------------------------------------------------------------------------
(* The steps that an operation has left.                                    *)

\* A step of A comes before any of B.
Ahead(t, A, B) == \E j \in 1..Len(t) : t[j] \in A /\ \A i \in 1..(j - 1) : t[i] \notin B

Loading == {"loadInput", "loadCompact", "loadArchive", "loadReactivate", "loadResume", "layout"}
Naming == {"layout", "readPrevious", "list", "probe", "readLatest", "select", "temporary"}
Using == Loading \cup {"lock", "unlock", "retain", "state", "readIndex", "index", "latest", "clearOwn",
                       "quarantine", "loadLatest"}

\* The lock is held; a state is loaded and will be saved; the workspace is known;
\* it was saved and will be named; it was named.
Held(t) == Ahead(t, {"unlock"}, {"lock"})
Carries(t) == Ahead(t, {"state"}, Loading)
Named(t) == Ahead(t, Using \ Naming, Naming)
Publishes(t) == Ahead(t, {"latest"}, {"state", "loadResume"})
Settles(t) == Ahead(t, {"unlock"}, {"latest"})

Labels == Using \cup {"readPrevious", "list", "probe", "readLatest", "select", "clear", "mendLatest", "temporary"}

First(t, l) == t # <<>> /\ Head(t) = l

Brief == {"readPrevious", "list", "probe", "readLatest", "loadLatest", "select", "latest", "unlock", "temporary",
          "index"}

\* How the steps of an operation follow each other.
Rule(l, t) ==
  /\ l \in {"lock", "loadInput", "loadCompact", "retain"} \/ First(t, "state") => Held(t)
  /\ l \in (Naming \cup {"unlock", "loadLatest"}) => ~ Held(t)
  /\ l = "state" <=> First(t, "readIndex")
  /\ l = "state" => ~ Carries(t)
  /\ l = "readIndex" <=> First(t, "index")
  /\ l = "loadResume" => ~ Carries(t)
  /\ l = "loadInput" => ~ Ahead(t, {"loadInput"}, {})
  /\ l \in {"loadInput", "retain"} => Carries(t)
  /\ l = "layout" => ~ Publishes(t) /\ ~ Settles(t)
  /\ l = "probe" => t = <<>>
  /\ l = "unlock" => ~ Carries(t) /\ ~ Ahead(t, {"loadInput"}, {})
  /\ t = <<>> => l \in Brief

Good(t) == \A k \in 1..Len(t) : Rule(t[k], SubSeq(t, k + 1, Len(t)))

-----------------------------------------------------------------------------
(* The files of a workspace.                                                *)

Contents == [status : {"none", "malformed", "active", "archived", "temporary"}, inputs : Seq(1..inputs)]

Process ==
  [op : Calls \cup {"none", "fallback"}, todo : Seq(Labels), w : dirs \cup {0}, st : Contents, idx : SUBSET dirs,
   item : 0..inputs, left : SUBSET dirs]

Typed(m) ==
  LET W == 1..m.workspaces IN
  /\ inputs \in Nat /\ stops \in Nat
  /\ dirs \subseteq W /\ index \subseteq dirs
  /\ latest \in dirs \cup {0}
  /\ state \in [W -> Contents]
  /\ archived \in [W -> SUBSET (1..inputs)]
  /\ lock \in [W -> m.procs \cup {0}]
  /\ acked \subseteq W \X (1..inputs)
  /\ proc \in [m.procs -> Process]
  /\ \A w \in W : state[w] # Files(m)!NoFile \/ archived[w] # {} => w \in dirs

\* The operation of p, and what it knows by where it is.
Placed(m, p) ==
  LET t == proc[p].todo  w == proc[p].w IN
  /\ Good(t)
  /\ t = <<>> => proc[p] = Files(m)!Idle
  /\ Named(t) => w # 0
  /\ Held(t) => w # 0 /\ lock[w] = p
  /\ Ahead(t, {"loadInput"}, {}) => proc[p].item # 0
  /\ Ahead(t, {"loadReactivate"}, {}) => proc[p].op = "reactivate"
  /\ Carries(t) => proc[p].st.status \in {"active", "archived", "temporary"}
  /\ First(t, "state") => Held(t) \/ proc[p].st.status = "temporary"

\* Nobody but p, who creates w, has anything to save there.
Fresh(p) ==
  /\ state[proc[p].w] = [status |-> "none", inputs |-> <<>>]
  /\ proc[p].st.inputs = <<>>
  /\ archived[proc[p].w] = {}
  /\ \A q \in DOMAIN proc \ {p} : Carries(proc[q].todo) => proc[q].w # proc[p].w

\* What p will save does not make an archived workspace active.
Faithful(p) ==
  Carries(proc[p].todo) =>
    \/ Fresh(p)
    \/ proc[p].st.status = "archived"
    \/ proc[p].op = "reactivate"
    \/ Held(proc[p].todo) /\ state[proc[p].w].status # "archived"

FilesInv(m) ==
  /\ Typed(m)
  /\ \A w \in 1..m.workspaces :
       lock[w] # 0 => Held(proc[lock[w]].todo) /\ proc[lock[w]].w = w
  /\ \A p \in m.procs : Placed(m, p) /\ Faithful(p)

-----------------------------------------------------------------------------
(* Inputs are kept.                                                         *)

Elems(s) == {s[i] : i \in DOMAIN s}

\* Operations that load what they save under the lock.
Mild == {"record", "compact", "resume", "create"}
MildSteps == {"lock", "loadInput", "loadCompact", "loadResume", "retain", "state", "readIndex", "index",
              "latest", "unlock", "layout"}

Keeps(m, p) ==
  LET t == proc[p].todo  w == proc[p].w
      carried == Elems(proc[p].st.inputs) \cup archived[w]
  IN  /\ proc[p].op \in Mild \cup {"none"}
      /\ \A i \in 1..Len(t) : t[i] \in MildSteps
      /\ First(t, "state") => Held(t)
      /\ Carries(t) => Fresh(p) \/ (Held(t) /\ Files(m)!Kept(w) \subseteq carried)
      /\ proc[p].item # 0 => w # 0 /\ \A i \in 1..Len(t) : t[i] # "layout"
      /\ proc[p].item # 0 /\ ~ Ahead(t, {"loadInput"}, {}) =>
           proc[p].item \in (IF Carries(t) THEN carried ELSE Files(m)!Kept(w))
      /\ Publishes(t) => state[w] # Files(m)!NoFile

KeptInv(m) ==
  /\ FilesInv(m)
  /\ \A p \in m.procs : Keeps(m, p)
  /\ Files(m)!AcknowledgedInputsAreKept
  /\ Files(m)!LatestWasSaved

-----------------------------------------------------------------------------
(* One process after another.                                               *)

RecoverSteps == {"mendLatest", "list", "probe", "quarantine", "clearOwn", "readLatest", "select", "loadLatest", "clear",
                 "latest", "layout", "lock", "state", "readIndex", "index", "unlock"}

\* Recovery looks for a workspace, then names it or makes one.
Finding == {"mendLatest", "list", "probe", "quarantine", "clearOwn", "clear", "readLatest", "select"}
Making == {"latest", "layout", "lock", "state", "readIndex", "index", "unlock"}

Recovers(c) ==
  LET t == proc[c].todo  w == proc[c].w
      active == w # 0 /\ state[w].status = "active"
  IN  /\ t = <<"loadLatest">> \/ t \in Seq(Finding) \/ t \in Seq(Making)
      /\ First(t, "loadLatest") => latest = w
      /\ Carries(t) => proc[c].st.status = "active"
      /\ Publishes(t) => active
      /\ Settles(t) => active /\ latest = w
      /\ First(t, "readIndex") \/ First(t, "index") => active /\ Held(t)
      /\ "latest" \in broken => First(t, "mendLatest")

Indexing(m, c) ==
  LET t == proc[c].todo IN
  /\ First(t, "index") => proc[c].idx = index \cup {proc[c].w}
  /\ stops = 0 => broken = {}
  /\ stops = 0 =>
       \A w \in 1..m.workspaces : state[w] # Files(m)!NoFile =>
         w \in index \/ (w = proc[c].w /\ (First(t, "readIndex") \/ First(t, "index")))

StartInv(m, c) ==
  /\ FilesInv(m)
  /\ Indexing(m, c)
  /\ proc[c].op = "recover" => Recovers(c)

-----------------------------------------------------------------------------
(* Sequences of steps.                                                      *)

\* A step before others.
LEMMA Cons ==
  ASSUME NEW S, NEW l \in S, NEW t \in Seq(S)
  PROVE  /\ <<l>> \o t \in Seq(S) /\ <<l>> \o t # <<>>
         /\ Head(<<l>> \o t) = l /\ Tail(<<l>> \o t) = t
<1>0. <<l>> \in Seq(S)
  OBVIOUS
<1>1. Len(<<l>>) = 1 /\ <<l>>[1] = l
  OBVIOUS
<1> DEFINE o == <<l>>  u == o \o t
<1> HIDE DEF o
<1>2. o \in Seq(S) /\ Len(o) = 1 /\ o[1] = l /\ Len(t) \in Nat
  BY <1>0, <1>1, LenProperties DEF o
<1>3. /\ u \in Seq(S) /\ Len(u) = Len(o) + Len(t)
      /\ \A i \in 1..Len(o) + Len(t) : u[i] = IF i <= Len(o) THEN o[i] ELSE t[i - Len(o)]
  BY <1>2, ConcatProperties
<1> HIDE DEF u
<1>4. Len(u) = Len(t) + 1 /\ u[1] = l /\ u # <<>> /\ \A i \in 1..Len(t) : u[i + 1] = t[i]
  <2>1. 1 \in 1..Len(o) + Len(t) /\ 1 <= Len(o)
    BY <1>2
  <2>2. ASSUME NEW i \in 1..Len(t) PROVE u[i + 1] = t[i]
    <3>1. i + 1 \in 1..Len(o) + Len(t) /\ ~ (i + 1 <= Len(o)) /\ (i + 1) - Len(o) = i
      BY <1>2
    <3> QED BY <1>3, <3>1
  <2>3. Len(u) = Len(t) + 1 /\ Len(u) # 0
    BY <1>2, <1>3
  <2>4. u # <<>> /\ u[1] = l
    BY <1>2, <1>3, <2>1, <2>3
  <2> QED BY <2>2, <2>3, <2>4
<1>5. /\ Head(u) = l /\ Tail(u) \in Seq(S) /\ Len(Tail(u)) = Len(t)
      /\ \A i \in 1..Len(t) : Tail(u)[i] = u[i + 1]
  <2>1. Tail(u) \in Seq(S) /\ Len(Tail(u)) = Len(u) - 1 /\ Len(u) - 1 = Len(t)
        /\ \A i \in 1..Len(Tail(u)) : Tail(u)[i] = u[i + 1]
    BY <1>2, <1>3, <1>4, HeadTailProperties
  <2>2. Head(u) = u[1]
    BY <1>3, <1>4
  <2> QED BY <1>4, <2>1, <2>2
<1>6. Tail(u) = t
  BY <1>4, <1>5, SeqEqual
<1> QED BY <1>3, <1>4, <1>5, <1>6 DEF u, o

\* The rest of a sequence, element by element.
LEMMA TailIs ==
  ASSUME NEW t \in Seq(Labels), t # <<>>
  PROVE  /\ Tail(t) \in Seq(Labels) /\ Len(t) \in Nat \ {0} /\ Len(Tail(t)) = Len(t) - 1
         /\ Head(t) = t[1] /\ \A k \in 1..(Len(t) - 1) : Tail(t)[k] = t[k + 1]
         /\ SubSeq(t, 2, Len(t)) = Tail(t)
OBVIOUS

\* Either the next step decides, or the rest does.
LEMMA AheadTail ==
  ASSUME NEW t \in Seq(Labels), t # <<>>, NEW A, NEW B
  PROVE  Ahead(t, A, B) <=> Head(t) \in A \/ (Head(t) \notin B /\ Ahead(Tail(t), A, B))
<1> DEFINE r == Tail(t)
<1>1. /\ r \in Seq(Labels) /\ Len(t) \in Nat \ {0} /\ Len(r) = Len(t) - 1 /\ Head(t) = t[1]
      /\ \A k \in 1..(Len(t) - 1) : r[k] = t[k + 1]
  BY TailIs
<1>2. ASSUME Ahead(t, A, B), Head(t) \notin A PROVE Head(t) \notin B /\ Ahead(r, A, B)
  <2>1. PICK j \in 1..Len(t) : t[j] \in A /\ \A i \in 1..(j - 1) : t[i] \notin B
    BY <1>2 DEF Ahead
  <2>2. j # 1
    BY <1>1, <1>2, <2>1
  <2>3. j - 1 \in 1..Len(r) /\ r[j - 1] = t[j] /\ t[1] \notin B
    BY <1>1, <2>1, <2>2
  <2>4. \A i \in 1..((j - 1) - 1) : r[i] \notin B
    <3> TAKE i \in 1..((j - 1) - 1)
    <3>1. i + 1 \in 1..(j - 1) /\ r[i] = t[i + 1]
      BY <1>1, <2>1
    <3> QED BY <2>1, <3>1
  <2> HIDE DEF r
  <2> QED BY <1>1, <2>1, <2>3, <2>4 DEF Ahead
<1>3. ASSUME Head(t) \notin B, Ahead(r, A, B) PROVE Ahead(t, A, B)
  <2>1. PICK j \in 1..Len(r) : r[j] \in A /\ \A i \in 1..(j - 1) : r[i] \notin B
    BY <1>3 DEF Ahead
  <2>2. j + 1 \in 1..Len(t) /\ t[j + 1] \in A
    BY <1>1, <2>1
  <2>3. \A i \in 1..((j + 1) - 1) : t[i] \notin B
    <3> TAKE i \in 1..((j + 1) - 1)
    <3>1. i = 1 \/ (i - 1 \in 1..(j - 1) /\ r[i - 1] = t[i])
      BY <1>1, <2>1
    <3> QED BY <1>1, <1>3, <2>1, <3>1
  <2> QED BY <2>2, <2>3 DEF Ahead
<1>4. Head(t) \in A => Ahead(t, A, B)
  BY <1>1 DEF Ahead
<1> QED BY <1>2, <1>3, <1>4

\* Nothing is ahead at the end.
LEMMA AheadEmpty == ASSUME NEW A, NEW B PROVE ~ Ahead(<<>>, A, B)
BY DEF Ahead

\* Labels of the rest are labels of the whole.
LEMMA LabelsTail ==
  ASSUME NEW t \in Seq(Labels), t # <<>>, NEW S, \A i \in 1..Len(t) : t[i] \in S
  PROVE  Head(t) \in S /\ \A i \in 1..Len(Tail(t)) : Tail(t)[i] \in S
BY TailIs

\* Putting a step of S before steps of S leaves steps of S.
LEMMA LabelsCons ==
  ASSUME NEW l \in Labels, NEW t \in Seq(Labels), NEW S, l \in S, \A i \in 1..Len(t) : t[i] \in S
  PROVE  \A i \in 1..Len(<<l>> \o t) : (<<l>> \o t)[i] \in S
<1> DEFINE u == <<l>> \o t
<1>1. /\ u \in Seq(Labels) /\ u # <<>> /\ Head(u) = l /\ Tail(u) = t
  BY Cons
<1> HIDE DEF u
<1>2. Len(u) \in Nat \ {0} /\ Len(t) = Len(u) - 1 /\ u[1] = l /\ \A k \in 1..(Len(u) - 1) : t[k] = u[k + 1]
  BY <1>1, TailIs
<1>3. ASSUME NEW i \in 1..Len(u) PROVE u[i] \in S
  <2>1. i = 1 \/ (i - 1 \in 1..Len(t) /\ t[i - 1] = u[i])
    BY <1>2
  <2> QED BY <1>2, <2>1
<1> QED BY <1>3 DEF u

\* What follows a step is the same seen from the whole operation and from its tail.
LEMMA SubSeqTail ==
  ASSUME NEW t \in Seq(Labels), t # <<>>, NEW k \in 1..Len(Tail(t))
  PROVE  SubSeq(Tail(t), k + 1, Len(Tail(t))) = SubSeq(t, (k + 1) + 1, Len(t))
<1> DEFINE r == Tail(t)  a == SubSeq(r, k + 1, Len(r))  b == SubSeq(t, (k + 1) + 1, Len(t))
<1>1. /\ r \in Seq(Labels) /\ Len(t) \in Nat \ {0} /\ Len(r) = Len(t) - 1
      /\ \A j \in 1..(Len(t) - 1) : r[j] = t[j + 1]
  BY TailIs
<1> HIDE DEF r
<1>2. a \in Seq(Labels) /\ b \in Seq(Labels)
  BY <1>1
<1>3. Len(a) = Len(b)
  BY <1>1
<1>4. ASSUME NEW j \in 1..Len(a) PROVE a[j] = b[j]
  <2>1. a[j] = r[(k + 1) + j - 1] /\ b[j] = t[((k + 1) + 1) + j - 1]
    BY <1>1, <1>3
  <2>2. (k + 1) + j - 1 \in 1..(Len(t) - 1)
    BY <1>1
  <2> QED BY <1>1, <2>1, <2>2
<1> HIDE DEF a, b
<1>5. a = b
  BY <1>2, <1>3, <1>4, SeqEqual
<1> QED BY <1>5 DEF a, b, r

\* The rule holds of the next step, and further on.
LEMMA GoodTail ==
  ASSUME NEW t \in Seq(Labels), t # <<>>
  PROVE  Good(t) <=> Rule(Head(t), Tail(t)) /\ Good(Tail(t))
<1> DEFINE r == Tail(t)  P(k) == Rule(t[k], SubSeq(t, k + 1, Len(t)))
<1>1. /\ r \in Seq(Labels) /\ Len(t) \in Nat \ {0} /\ Len(r) = Len(t) - 1 /\ Head(t) = t[1]
      /\ \A j \in 1..(Len(t) - 1) : r[j] = t[j + 1]
      /\ SubSeq(t, 2, Len(t)) = r
  BY TailIs
<1>2. P(1) <=> Rule(Head(t), r)
  <2>1. SubSeq(t, 1 + 1, Len(t)) = r
    BY <1>1
  <2> HIDE DEF r
  <2> QED BY <1>1, <2>1
<1>3. ASSUME NEW k \in 1..Len(r) PROVE P(k + 1) <=> Rule(r[k], SubSeq(r, k + 1, Len(r)))
  <2>1. SubSeq(r, k + 1, Len(r)) = SubSeq(t, (k + 1) + 1, Len(t)) /\ r[k] = t[k + 1]
    BY <1>1, SubSeqTail
  <2> HIDE DEF r
  <2> QED BY <2>1
<1>4. (\A k \in 1..Len(t) : P(k)) <=> P(1) /\ \A k \in 1..Len(r) : P(k + 1)
  <2> HIDE DEF P, r
  <2>1. ASSUME P(1), \A k \in 1..Len(r) : P(k + 1), NEW k \in 1..Len(t) PROVE P(k)
    <3>1. k = 1 \/ (k - 1 \in 1..Len(r) /\ (k - 1) + 1 = k)
      BY <1>1
    <3> QED BY <2>1, <3>1
  <2>2. \A k \in 1..Len(r) : k + 1 \in 1..Len(t)
    BY <1>1
  <2>3. 1 \in 1..Len(t)
    BY <1>1
  <2> QED BY <2>1, <2>2, <2>3
<1> HIDE DEF P
<1>5. Good(t) <=> \A k \in 1..Len(t) : P(k)
  BY DEF Good, P
<1>6. Good(r) <=> \A k \in 1..Len(r) : Rule(r[k], SubSeq(r, k + 1, Len(r)))
  BY DEF Good
<1> HIDE DEF r
<1>7. Good(r) <=> \A k \in 1..Len(r) : P(k + 1)
  BY <1>3, <1>6
<1>8. Good(t) <=> Rule(Head(t), r) /\ Good(r)
  BY <1>2, <1>4, <1>5, <1>7
<1> QED BY <1>8 DEF r

\* Sequences one after the other, and a step before others.
Join(s, t) == s \o t
Then(l, t) == <<l>> \o t

\* Joining operations is associative.
LEMMA Joined ==
  ASSUME NEW S
  PROVE  /\ \A s, t \in Seq(S) : Join(s, t) \in Seq(S)
         /\ \A s, t, u \in Seq(S) : Join(Join(s, t), u) = Join(s, Join(t, u))
<1>1. ASSUME NEW s \in Seq(S), NEW t \in Seq(S) PROVE Join(s, t) \in Seq(S)
  BY ConcatProperties DEF Join
<1>2. ASSUME NEW s \in Seq(S), NEW t \in Seq(S), NEW u \in Seq(S)
      PROVE  Join(Join(s, t), u) = Join(s, Join(t, u))
  BY ConcatAssociative DEF Join
<1> QED BY <1>1, <1>2

\* Four parts of an operation, joined from the left or from the right.
LEMMA FourParts ==
  ASSUME NEW S, NEW a \in Seq(S), NEW b \in Seq(S), NEW c \in Seq(S), NEW d \in Seq(S)
  PROVE  Join(Join(Join(a, b), c), d) = Join(a, Join(b, Join(c, d)))
BY Joined

\* An operation of one step.
LEMMA Alone == ASSUME NEW S, NEW a \in S PROVE <<a>> \in Seq(S) /\ <<a>> = Then(a, <<>>)
<1>1. <<a>> \in Seq(S)
  OBVIOUS
<1> QED BY <1>1, ConcatEmptySeq DEF Then

\* Sequences written out, step before step.
LEMMA Two ==
  ASSUME NEW S, NEW a \in S, NEW b \in S
  PROVE  <<a>> \in Seq(S) /\ <<b>> \in Seq(S) /\ <<a, b>> \in Seq(S) /\ <<a, b>> = <<a>> \o <<b>>
<1>1. <<a>> \in Seq(S) /\ <<b>> \in Seq(S) /\ <<a, b>> \in Seq(S)
  OBVIOUS
<1>2. /\ Len(<<a>>) = 1 /\ <<a>>[1] = a /\ Len(<<b>>) = 1 /\ <<b>>[1] = b
      /\ Len(<<a, b>>) = 2 /\ <<a, b>>[1] = a /\ <<a, b>>[2] = b
  OBVIOUS
<1> DEFINE o == <<a>>  p == <<b>>  u == <<a, b>>
<1> HIDE DEF o, p, u
<1>3. /\ o \in Seq(S) /\ p \in Seq(S) /\ u \in Seq(S)
      /\ Len(o) = 1 /\ o[1] = a /\ Len(p) = 1 /\ p[1] = b /\ Len(u) = 2 /\ u[1] = a /\ u[2] = b
  BY <1>1, <1>2 DEF o, p, u
<1>4. /\ o \o p \in Seq(S) /\ Len(o \o p) = Len(o) + Len(p)
      /\ \A i \in 1..Len(o) + Len(p) : (o \o p)[i] = IF i <= Len(o) THEN o[i] ELSE p[i - Len(o)]
  BY <1>3, ConcatProperties
<1>5. Len(o \o p) = 2 /\ \A i \in 1..2 : (o \o p)[i] = u[i]
  BY <1>3, <1>4
<1>6. u = o \o p
  BY <1>3, <1>4, <1>5, SeqEqual
<1> QED BY <1>1, <1>6 DEF o, p, u

\* Three steps are one before two.
LEMMA Three ==
  ASSUME NEW S, NEW a \in S, NEW b \in S, NEW c \in S
  PROVE  <<a, b, c>> \in Seq(S) /\ <<a, b, c>> = <<a>> \o <<b, c>>
<1>1. <<a, b, c>> \in Seq(S) /\ <<a>> \in Seq(S) /\ <<b, c>> \in Seq(S)
  OBVIOUS
<1>2. /\ Len(<<a>>) = 1 /\ <<a>>[1] = a /\ Len(<<b, c>>) = 2 /\ <<b, c>>[1] = b /\ <<b, c>>[2] = c
      /\ Len(<<a, b, c>>) = 3 /\ <<a, b, c>>[1] = a /\ <<a, b, c>>[2] = b /\ <<a, b, c>>[3] = c
  OBVIOUS
<1> DEFINE o == <<a>>  p == <<b, c>>  u == <<a, b, c>>
<1> HIDE DEF o, p, u
<1>3. /\ o \in Seq(S) /\ p \in Seq(S) /\ u \in Seq(S)
      /\ Len(o) = 1 /\ o[1] = a /\ Len(p) = 2 /\ p[1] = b /\ p[2] = c
      /\ Len(u) = 3 /\ u[1] = a /\ u[2] = b /\ u[3] = c
  BY <1>1, <1>2 DEF o, p, u
<1>4. /\ o \o p \in Seq(S) /\ Len(o \o p) = Len(o) + Len(p)
      /\ \A i \in 1..Len(o) + Len(p) : (o \o p)[i] = IF i <= Len(o) THEN o[i] ELSE p[i - Len(o)]
  BY <1>3, ConcatProperties
<1>5. Len(o \o p) = 3 /\ \A i \in 1..3 : (o \o p)[i] = u[i]
  BY <1>3, <1>4
<1>6. u = o \o p
  BY <1>3, <1>4, <1>5, SeqEqual
<1> QED BY <1>1, <1>6 DEF o, p, u

\* Four steps are two before two.
LEMMA Four ==
  ASSUME NEW S, NEW a \in S, NEW b \in S, NEW c \in S, NEW d \in S
  PROVE  <<a, b, c, d>> \in Seq(S) /\ <<a, b, c, d>> = <<a, b>> \o <<c, d>>
<1>1. <<a, b>> \in Seq(S) /\ <<c, d>> \in Seq(S) /\ <<a, b, c, d>> \in Seq(S)
  OBVIOUS
<1>2. /\ Len(<<a, b>>) = 2 /\ <<a, b>>[1] = a /\ <<a, b>>[2] = b
      /\ Len(<<c, d>>) = 2 /\ <<c, d>>[1] = c /\ <<c, d>>[2] = d
      /\ Len(<<a, b, c, d>>) = 4 /\ <<a, b, c, d>>[1] = a /\ <<a, b, c, d>>[2] = b
      /\ <<a, b, c, d>>[3] = c /\ <<a, b, c, d>>[4] = d
  OBVIOUS
<1> DEFINE o == <<a, b>>  p == <<c, d>>  u == <<a, b, c, d>>
<1> HIDE DEF o, p, u
<1>3. /\ o \in Seq(S) /\ p \in Seq(S) /\ u \in Seq(S)
      /\ Len(o) = 2 /\ o[1] = a /\ o[2] = b /\ Len(p) = 2 /\ p[1] = c /\ p[2] = d
      /\ Len(u) = 4 /\ u[1] = a /\ u[2] = b /\ u[3] = c /\ u[4] = d
  BY <1>1, <1>2 DEF o, p, u
<1>4. /\ o \o p \in Seq(S) /\ Len(o \o p) = Len(o) + Len(p)
      /\ \A i \in 1..Len(o) + Len(p) : (o \o p)[i] = IF i <= Len(o) THEN o[i] ELSE p[i - Len(o)]
  BY <1>3, ConcatProperties
<1>5. Len(o \o p) = 4 /\ \A i \in 1..4 : (o \o p)[i] = u[i]
  BY <1>3, <1>4
<1>6. u = o \o p
  BY <1>3, <1>4, <1>5, SeqEqual
<1> QED BY <1>1, <1>6 DEF o, p, u

\* Joining two steps to an operation puts them before it one by one.
LEMMA Cons2 ==
  ASSUME NEW S, NEW a \in S, NEW b \in S, NEW t \in Seq(S)
  PROVE  Join(<<a, b>>, t) = Then(a, Then(b, t))
<1> DEFINE o == <<a>>  p == <<b>>  u == <<a, b>>
<1>1. o \in Seq(S) /\ p \in Seq(S) /\ u = Join(o, p)
  BY Two DEF Join
<1>2. Then(a, Then(b, t)) = Join(o, Join(p, t))
  BY DEF Join, Then
<1> HIDE DEF o, p, u
<1>3. Join(Join(o, p), t) = Join(o, Join(p, t))
  BY <1>1, Joined
<1>4. Join(u, t) = Then(a, Then(b, t))
  BY <1>1, <1>2, <1>3
<1> QED BY <1>4 DEF u

\* Joining three steps to an operation puts them before it one by one.
LEMMA Cons3 ==
  ASSUME NEW S, NEW a \in S, NEW b \in S, NEW c \in S, NEW t \in Seq(S)
  PROVE  Join(<<a, b, c>>, t) = Then(a, Then(b, Then(c, t)))
<1> DEFINE o == <<a>>  p == <<b, c>>  u == <<a, b, c>>
<1>1. o \in Seq(S) /\ p \in Seq(S) /\ u = Join(o, p)
  BY Two, Three DEF Join
<1>2. Join(p, t) = Then(b, Then(c, t))
  BY Cons2
<1>3. Then(a, Join(p, t)) = Join(o, Join(p, t))
  BY DEF Join, Then
<1> HIDE DEF o, p, u
<1>4. Join(Join(o, p), t) = Join(o, Join(p, t))
  BY <1>1, Joined
<1>5. Join(u, t) = Then(a, Then(b, Then(c, t)))
  BY <1>1, <1>2, <1>3, <1>4
<1> QED BY <1>5 DEF u

\* Two steps and two more parts, one by one.
LEMMA TwoThen ==
  ASSUME NEW S, NEW a \in S, NEW b \in S, NEW s \in Seq(S), NEW t \in Seq(S)
  PROVE  Join(Join(<<a, b>>, s), t) = Then(a, Then(b, Join(s, t)))
<1> DEFINE o == <<a, b>>  r == Join(s, t)
<1>1. o \in Seq(S) /\ r \in Seq(S)
  BY Two, Joined
<1>2. Join(o, r) = Then(a, Then(b, r))
  <2> HIDE DEF r
  <2> QED BY <1>1, Cons2
<1> HIDE DEF o
<1>3. Join(Join(o, s), t) = Join(o, r)
  BY <1>1, Joined
<1> QED BY <1>2, <1>3 DEF o, r

\* Three steps and two more parts, one by one.
LEMMA ThreeThen ==
  ASSUME NEW S, NEW a \in S, NEW b \in S, NEW c \in S, NEW s \in Seq(S), NEW t \in Seq(S)
  PROVE  Join(Join(<<a, b, c>>, s), t) = Then(a, Then(b, Then(c, Join(s, t))))
<1> DEFINE o == <<a, b, c>>  r == Join(s, t)
<1>1. o \in Seq(S) /\ r \in Seq(S)
  BY Three, Joined
<1>2. Join(o, r) = Then(a, Then(b, Then(c, r)))
  <2> HIDE DEF r
  <2> QED BY <1>1, Cons3
<1> HIDE DEF o
<1>3. Join(Join(o, s), t) = Join(o, r)
  BY <1>1, Joined
<1> QED BY <1>2, <1>3 DEF o, r

-----------------------------------------------------------------------------
(* The operations: what is true before each of their steps.                 *)

\* A sequence of steps that begins with l, and what is true of it.
Plan(t, l, F) ==
  /\ t \in Seq(Labels) /\ Good(t)
  /\ IF l = "end" THEN t = <<>> ELSE First(t, l)
  /\ "held" \in F <=> Held(t)
  /\ "carries" \in F <=> Carries(t)
  /\ "named" \in F <=> Named(t)
  /\ "publishes" \in F <=> Publishes(t)
  /\ "settles" \in F <=> Settles(t)
  /\ "input" \in F <=> Ahead(t, {"loadInput"}, {})
  /\ "reactivate" \in F <=> Ahead(t, {"loadReactivate"}, {})
  /\ "mild" \in F => \A i \in 1..Len(t) : t[i] \in MildSteps
  /\ "recover" \in F => \A i \in 1..Len(t) : t[i] \in RecoverSteps

\* Rule, in these terms.
May(l, next, F) ==
  /\ l \in Labels
  /\ l \in {"lock", "loadInput", "loadCompact", "retain"} \/ next = "state" => "held" \in F
  /\ l \in (Naming \cup {"unlock", "loadLatest"}) => "held" \notin F
  /\ l = "state" <=> next = "readIndex"
  /\ l = "state" => "carries" \notin F
  /\ l = "readIndex" <=> next = "index"
  /\ l = "loadResume" => "carries" \notin F
  /\ l = "loadInput" => "input" \notin F
  /\ l \in {"loadInput", "retain"} => "carries" \in F
  /\ l = "layout" => "publishes" \notin F /\ "settles" \notin F
  /\ l = "probe" => next = "end"
  /\ l = "unlock" => "carries" \notin F /\ "input" \notin F
  /\ next = "end" => l \in Brief

\* What is true with l before it.
Adds(l, F, G) ==
  /\ "held" \in G <=> (l = "unlock" \/ (l # "lock" /\ "held" \in F))
  /\ "carries" \in G <=> (l = "state" \/ (l \notin Loading /\ "carries" \in F))
  /\ "named" \in G <=> (l \in Using \ Naming \/ (l \notin Naming /\ "named" \in F))
  /\ "publishes" \in G <=> (l = "latest" \/ (l \notin {"state", "loadResume"} /\ "publishes" \in F))
  /\ "settles" \in G <=> (l = "unlock" \/ (l # "latest" /\ "settles" \in F))
  /\ "input" \in G <=> (l = "loadInput" \/ "input" \in F)
  /\ "reactivate" \in G <=> (l = "loadReactivate" \/ "reactivate" \in F)
  /\ "mild" \in G => l \in MildSteps /\ "mild" \in F
  /\ "recover" \in G => l \in RecoverSteps /\ "recover" \in F

Extends(l, next, F, G) == May(l, next, F) /\ Adds(l, F, G)

\* Nothing left is a plan that keeps inputs and may end a recovery.
LEMMA PlanEnd == Plan(<<>>, "end", {"mild", "recover"})
BY AheadEmpty DEF Plan, Good, First, Held, Carries, Named, Publishes, Settles

\* A plan with one step more.
LEMMA Longer ==
  ASSUME NEW t, NEW next, NEW F, Plan(t, next, F),
         NEW l, NEW G, Extends(l, next, F, G)
  PROVE  Plan(Then(l, t), l, G)
<1> DEFINE u == Then(l, t)
<1> USE DEF Extends
<1>1. t \in Seq(Labels) /\ l \in Labels
  BY DEF Plan, May
<1>2. /\ u \in Seq(Labels) /\ u # <<>> /\ Head(u) = l /\ Tail(u) = t
  BY <1>1, Cons DEF Then
<1>3. l # "end"
  BY <1>1 DEF Labels, Using, Loading
<1>4. ("mild" \in G => \A i \in 1..Len(u) : u[i] \in MildSteps)
      /\ ("recover" \in G => \A i \in 1..Len(u) : u[i] \in RecoverSteps)
  <2>1. ("mild" \in G => l \in MildSteps /\ "mild" \in F) /\ ("recover" \in G => l \in RecoverSteps /\ "recover" \in F)
    BY DEF Adds
  <2> QED BY <1>1, <2>1, LabelsCons DEF Plan, Then
<1> HIDE DEF u
<1>5. First(u, l)
  BY <1>2 DEF First
<1>6. \A A, B : Ahead(u, A, B) <=> l \in A \/ (l \notin B /\ Ahead(t, A, B))
  BY <1>2, AheadTail
<1>7. Rule(l, t)
  BY DEF Plan, May, Rule, First
<1>8. Good(u)
  BY <1>2, <1>7, GoodTail DEF Plan
<1>9. /\ "held" \in G <=> Held(u)
      /\ "carries" \in G <=> Carries(u)
      /\ "named" \in G <=> Named(u)
      /\ "publishes" \in G <=> Publishes(u)
  BY <1>6 DEF Plan, Adds, Held, Carries, Named, Publishes
<1>10. /\ "settles" \in G <=> Settles(u)
       /\ "input" \in G <=> Ahead(u, {"loadInput"}, {})
       /\ "reactivate" \in G <=> Ahead(u, {"loadReactivate"}, {})
  BY <1>6 DEF Plan, Adds, Settles
<1>11. Plan(u, l, G)
  BY <1>2, <1>3, <1>4, <1>5, <1>8, <1>9, <1>10 DEF Plan
<1> QED BY <1>11 DEF u

\* save_workspace_state, before steps that hold the lock.
LEMMA SavePlan ==
  ASSUME NEW m, NEW t, NEW next, NEW F, Plan(t, next, F), next \notin {"state", "readIndex", "index"},
         "carries" \notin F
  PROVE  Plan(Join(Files(m)!SaveSteps, t), "state", (F \cup {"carries", "named"}) \ {"publishes"})
<1> DEFINE N == F \cup {"named"}
           G == (F \cup {"carries", "named"}) \ {"publishes"}
           i == Then("index", t)
           r == Then("readIndex", i)
<1>1. Extends("index", next, F, N)
  BY DEF Extends, May, Adds, Labels, Loading, Naming, Using, Brief, MildSteps, RecoverSteps
<1>2. Extends("readIndex", "index", N, N)
  BY DEF Extends, May, Adds, Labels, Loading, Naming, Using, MildSteps, RecoverSteps
<1>3. Extends("state", "readIndex", N, G)
  BY DEF Extends, May, Adds, Labels, Loading, Naming, Using, MildSteps, RecoverSteps
<1> HIDE DEF N, G
<1>4. Plan(i, "index", N)
  BY <1>1, Longer
<1> HIDE DEF i
<1>5. Plan(r, "readIndex", N)
  BY <1>2, <1>4, Longer
<1> HIDE DEF r
<1>6. Plan(Then("state", r), "state", G)
  BY <1>3, <1>5, Longer
<1>7. Join(Files(m)!SaveSteps, t) = Then("state", r)
  <2>1. "state" \in Labels /\ "readIndex" \in Labels /\ "index" \in Labels
    BY DEF Labels, Using
  <2>2. t \in Seq(Labels)
    BY DEF Plan
  <2> QED BY <2>1, <2>2, Cons3 DEF r, i, Files!SaveSteps
<1> QED BY <1>6, <1>7 DEF G

\* The end of the operations that name their workspace.
LEMMA NamePlan ==
  Plan(<<"latest", "unlock">>, "latest", {"held", "named", "publishes", "mild", "recover"})
<1> DEFINE u1 == Then("unlock", <<>>)
           u2 == Then("latest", u1)
<1> HIDE DEF u1, u2
<1>1. /\ Extends("unlock", "end",
              {"mild", "recover"}, {"held", "named", "settles", "mild", "recover"})
      /\ Extends("latest", "unlock",
              {"held", "named", "settles", "mild", "recover"}, {"held", "named", "publishes", "mild", "recover"})
  BY DEF Extends, May, Adds, Labels, Loading, Naming, Using, Brief, MildSteps, RecoverSteps
<1>2. Plan(u1, "unlock", {"held", "named", "settles", "mild", "recover"})
  BY <1>1, PlanEnd, Longer DEF u1
<1>3. Plan(u2, "latest", {"held", "named", "publishes", "mild", "recover"})
  BY <1>1, <1>2, Longer DEF u2
<1>4. <<"latest", "unlock">> = u2
  <2>1. "latest" \in Labels /\ "unlock" \in Labels
    BY DEF Labels, Using
  <2>2. u1 = <<"unlock">>
    BY <2>1, Alone DEF u1
  <2> QED BY <2>1, <2>2, Two DEF u2, Then
<1> QED BY <1>3, <1>4

\* The state is saved and indexed, then the pointer moves, then the lock is released.
LEMMA SaveAndNamePlan ==
  ASSUME NEW m
  PROVE  Plan(Join(Files(m)!SaveSteps, <<"latest", "unlock">>), "state",
              {"held", "carries", "named", "mild", "recover"})
<1> DEFINE F == {"held", "named", "publishes", "mild", "recover"}
           G == {"held", "carries", "named", "mild", "recover"}
<1>1. (F \cup {"carries", "named"}) \ {"publishes"} = G
  OBVIOUS
<1>2. "held" \in F /\ "carries" \notin F
  OBVIOUS
<1> HIDE DEF F, G
<1>3. Plan(<<"latest", "unlock">>, "latest", F)
  BY NamePlan DEF F
<1>4. Plan(Join(Files(m)!SaveSteps, <<"latest", "unlock">>), "state", (F \cup {"carries", "named"}) \ {"publishes"})
  BY <1>2, <1>3, SavePlan
<1> QED BY <1>1, <1>4 DEF G

\* Saving consists of known steps.
LEMMA StepsOfSave == ASSUME NEW m PROVE Files(m)!SaveSteps \in Seq(Labels)
<1>1. "state" \in Labels /\ "readIndex" \in Labels /\ "index" \in Labels
  BY DEF Labels, Using
<1> QED BY <1>1, Three DEF Files!SaveSteps

\* record_input
LEMMA RecordPlan ==
  ASSUME NEW m
  PROVE  Plan(Files(m)!RecordSteps, "lock", {"named", "input", "mild"})
<1> DEFINE u1 == Then("retain", Join(Files(m)!SaveSteps, <<"latest", "unlock">>))
           u2 == Then("loadInput", u1)
           u3 == Then("lock", u2)
<1> HIDE DEF u1, u2, u3
<1>1. /\ Extends("retain", "state",
              {"held", "carries", "named", "mild", "recover"}, {"held", "carries", "named", "mild"})
      /\ Extends("loadInput", "retain",
              {"held", "carries", "named", "mild"}, {"held", "named", "input", "mild"})
      /\ Extends("lock", "loadInput",
              {"held", "named", "input", "mild"}, {"named", "input", "mild"})
  BY DEF Extends, May, Adds, Labels, Loading, Naming, Using, Brief, MildSteps, RecoverSteps
<1>2. Plan(u1, "retain", {"held", "carries", "named", "mild"})
  BY <1>1, SaveAndNamePlan, Longer DEF u1
<1>3. Plan(u2, "loadInput", {"held", "named", "input", "mild"})
  BY <1>1, <1>2, Longer DEF u2
<1>4. Plan(u3, "lock", {"named", "input", "mild"})
  BY <1>1, <1>3, Longer DEF u3
<1>5. Files(m)!RecordSteps = u3
  <2>1. "lock" \in Labels /\ "loadInput" \in Labels /\ "retain" \in Labels
    BY DEF Labels, Using, Loading
  <2>2. Files(m)!SaveSteps \in Seq(Labels) /\ <<"latest", "unlock">> \in Seq(Labels)
    BY StepsOfSave, NamePlan DEF Plan
  <2> DEFINE s == Files(m)!SaveSteps  t == <<"latest", "unlock">>
  <2>3. Files(m)!RecordSteps = Join(Join(<<"lock", "loadInput", "retain">>, s), t)
    BY DEF Join, Files!RecordSteps
  <2>4. Join(s, t) = Join(Files(m)!SaveSteps, <<"latest", "unlock">>)
    OBVIOUS
  <2> HIDE DEF s, t
  <2>5. s \in Seq(Labels) /\ t \in Seq(Labels)
    BY <2>2 DEF s, t
  <2>6. Join(Join(<<"lock", "loadInput", "retain">>, s), t) = Then("lock", Then("loadInput", Then("retain", Join(s, t))))
    BY <2>1, <2>5, ThreeThen
  <2> QED BY <2>3, <2>4, <2>6 DEF u1, u2, u3
<1> QED BY <1>4, <1>5

\* create_workspace
LEMMA CreatePlan ==
  ASSUME NEW m
  PROVE  Plan(Files(m)!CreateSteps, "layout", {"mild", "recover"})
<1> DEFINE u1 == Then("lock", Join(Files(m)!SaveSteps, <<"latest", "unlock">>))
           u2 == Then("layout", u1)
<1> HIDE DEF u1, u2
<1>1. /\ Extends("lock", "state",
              {"held", "carries", "named", "mild", "recover"}, {"carries", "named", "mild", "recover"})
      /\ Extends("layout", "lock",
              {"carries", "named", "mild", "recover"}, {"mild", "recover"})
  BY DEF Extends, May, Adds, Labels, Loading, Naming, Using, Brief, MildSteps, RecoverSteps
<1>2. Plan(u1, "lock", {"carries", "named", "mild", "recover"})
  BY <1>1, SaveAndNamePlan, Longer DEF u1
<1>3. Plan(u2, "layout", {"mild", "recover"})
  BY <1>1, <1>2, Longer DEF u2
<1>4. Files(m)!CreateSteps = u2
  <2>1. "layout" \in Labels /\ "lock" \in Labels
    BY DEF Labels, Using, Loading
  <2>2. Files(m)!SaveSteps \in Seq(Labels) /\ <<"latest", "unlock">> \in Seq(Labels)
    BY StepsOfSave, NamePlan DEF Plan
  <2> DEFINE s == Files(m)!SaveSteps  t == <<"latest", "unlock">>
  <2>3. Files(m)!CreateSteps = Join(Join(<<"layout", "lock">>, s), t)
    BY DEF Join, Files!CreateSteps
  <2>4. Join(s, t) = Join(Files(m)!SaveSteps, <<"latest", "unlock">>)
    OBVIOUS
  <2> HIDE DEF s, t
  <2>5. s \in Seq(Labels) /\ t \in Seq(Labels)
    BY <2>2 DEF s, t
  <2>6. Join(Join(<<"layout", "lock">>, s), t) = Then("layout", Then("lock", Join(s, t)))
    BY <2>1, <2>5, TwoThen
  <2> QED BY <2>3, <2>4, <2>6 DEF u1, u2
<1> QED BY <1>3, <1>4

\* reactivate_workspace
LEMMA ReactivatePlan ==
  ASSUME NEW m
  PROVE  Plan(Files(m)!ReactivateSteps, "loadReactivate", {"named", "reactivate"})
<1> DEFINE u1 == Then("lock", Join(Files(m)!SaveSteps, <<"latest", "unlock">>))
           u2 == Then("loadReactivate", u1)
<1> HIDE DEF u1, u2
<1>1. /\ Extends("lock", "state",
              {"held", "carries", "named", "mild", "recover"}, {"carries", "named", "mild", "recover"})
      /\ Extends("loadReactivate", "lock",
              {"carries", "named", "mild", "recover"}, {"named", "reactivate"})
  BY DEF Extends, May, Adds, Labels, Loading, Naming, Using, Brief, MildSteps, RecoverSteps
<1>2. Plan(u1, "lock", {"carries", "named", "mild", "recover"})
  BY <1>1, SaveAndNamePlan, Longer DEF u1
<1>3. Plan(u2, "loadReactivate", {"named", "reactivate"})
  BY <1>1, <1>2, Longer DEF u2
<1>4. Files(m)!ReactivateSteps = u2
  <2>1. "loadReactivate" \in Labels /\ "lock" \in Labels
    BY DEF Labels, Using, Loading
  <2>2. Files(m)!SaveSteps \in Seq(Labels) /\ <<"latest", "unlock">> \in Seq(Labels)
    BY StepsOfSave, NamePlan DEF Plan
  <2> DEFINE s == Files(m)!SaveSteps  t == <<"latest", "unlock">>
  <2>3. Files(m)!ReactivateSteps = Join(Join(<<"loadReactivate", "lock">>, s), t)
    BY DEF Join, Files!ReactivateSteps
  <2>4. Join(s, t) = Join(Files(m)!SaveSteps, <<"latest", "unlock">>)
    OBVIOUS
  <2> HIDE DEF s, t
  <2>5. s \in Seq(Labels) /\ t \in Seq(Labels)
    BY <2>2 DEF s, t
  <2>6. Join(Join(<<"loadReactivate", "lock">>, s), t) = Then("loadReactivate", Then("lock", Join(s, t)))
    BY <2>1, <2>5, TwoThen
  <2> QED BY <2>3, <2>4, <2>6 DEF u1, u2
<1> QED BY <1>3, <1>4

\* resume_workspace
LEMMA ResumePlan ==
  ASSUME NEW m
  PROVE  Plan(Files(m)!ResumeSteps, "loadResume", {"named", "mild"})
<1> DEFINE u1 == Then("lock", <<"latest", "unlock">>)
           u2 == Then("loadResume", u1)
<1> HIDE DEF u1, u2
<1>1. /\ Extends("lock", "latest",
              {"held", "named", "publishes", "mild", "recover"}, {"named", "publishes", "mild", "recover"})
      /\ Extends("loadResume", "lock",
              {"named", "publishes", "mild", "recover"}, {"named", "mild"})
  BY DEF Extends, May, Adds, Labels, Loading, Naming, Using, Brief, MildSteps, RecoverSteps
<1>2. Plan(u1, "lock", {"named", "publishes", "mild", "recover"})
  BY <1>1, NamePlan, Longer DEF u1
<1>3. Plan(u2, "loadResume", {"named", "mild"})
  BY <1>1, <1>2, Longer DEF u2
<1>4. Files(m)!ResumeSteps = u2
  <2>1. "loadResume" \in Labels /\ "lock" \in Labels /\ "latest" \in Labels /\ "unlock" \in Labels
    BY DEF Labels, Using, Loading
  <2>2. <<"latest", "unlock">> \in Seq(Labels)
    BY NamePlan DEF Plan
  <2>3. <<"loadResume", "lock", "latest", "unlock">> = Join(<<"loadResume", "lock">>, <<"latest", "unlock">>)
    BY <2>1, Four DEF Join
  <2> DEFINE t == <<"latest", "unlock">>
  <2>4. Then("loadResume", Then("lock", t)) = u2
    BY DEF u1, u2
  <2>5. t \in Seq(Labels)
    BY <2>2
  <2> HIDE DEF t
  <2>6. Join(<<"loadResume", "lock">>, t) = Then("loadResume", Then("lock", t))
    BY <2>1, <2>5, Cons2
  <2> QED BY <2>3, <2>4, <2>6 DEF Files!ResumeSteps, t
<1> QED BY <1>3, <1>4

\* compact_workspace_input, alone or before the archiving of the workspace.
LEMMA CompactPlan ==
  ASSUME NEW m, NEW z, NEW next, NEW F, Plan(z, next, F), next \in {"end", "loadArchive"},
         F \in {{"mild", "recover"}, {"named", "settles"}}
  PROVE  Plan(Join(Files(m)!CompactSteps, z), "lock", {"named", "settles"} \cup (F \cap {"mild"}))
<1> DEFINE f == {"held", "named", "settles"} \cup F
           g == {"held", "carries", "named", "settles"} \cup F
           h == {"held", "carries", "named", "settles"} \cup (F \cap {"mild"})
           i == {"held", "named", "settles"} \cup (F \cap {"mild"})
           j == {"named", "settles"} \cup (F \cap {"mild"})
           u1 == Then("unlock", z)
           u2 == Join(Files(m)!SaveSteps, u1)
           u3 == Then("retain", u2)
           u4 == Then("loadCompact", u3)
           u5 == Then("lock", u4)
<1> HIDE DEF u1, u2, u3, u4, u5
<1>1. F \cup {"named", "settles", "held"} = f /\ (f \cup {"carries", "named"}) \ {"publishes"} = g
      /\ "held" \in f /\ "carries" \notin f
  OBVIOUS
<1>2. /\ Extends("unlock", next, F, f) /\ Extends("retain", "state", g, h)
      /\ Extends("loadCompact", "retain", h, i) /\ Extends("lock", "loadCompact", i, j)
  BY DEF Extends, May, Adds, Labels, Loading, Naming, Using, Brief, MildSteps, RecoverSteps
<1> HIDE DEF f, g, h, i, j
<1>3. Plan(u1, "unlock", f)
  BY <1>2, Longer DEF u1
<1>4. Plan(u2, "state", g)
  <2>1. Plan(u2, "state", (f \cup {"carries", "named"}) \ {"publishes"})
    BY <1>1, <1>3, SavePlan DEF u2
  <2> QED BY <1>1, <2>1
<1>5. Plan(u3, "retain", h)
  BY <1>2, <1>4, Longer DEF u3
<1>6. Plan(u4, "loadCompact", i)
  BY <1>2, <1>5, Longer DEF u4
<1>7. Plan(u5, "lock", j)
  BY <1>2, <1>6, Longer DEF u5
<1>8. Join(Files(m)!CompactSteps, z) = u5
  <2>1. "lock" \in Labels /\ "loadCompact" \in Labels /\ "retain" \in Labels /\ "unlock" \in Labels
    BY DEF Labels, Using, Loading
  <2>2. Files(m)!SaveSteps \in Seq(Labels) /\ z \in Seq(Labels)
    BY StepsOfSave DEF Plan
  <2> DEFINE a == <<"lock", "loadCompact", "retain">>  b == Files(m)!SaveSteps  c == <<"unlock">>
  <2>3. a \in Seq(Labels) /\ b \in Seq(Labels) /\ c \in Seq(Labels)
    BY <2>1, <2>2, Three, Alone
  <2>4. Join(a, Join(b, Join(c, z))) = u5
    <3>1. Join(c, z) = u1 /\ Join(b, u1) = u2
      BY DEF u1, u2, Join, Then
    <3>2. u2 \in Seq(Labels)
      BY <1>4 DEF Plan
    <3>3. Join(a, u2) = u5
      BY <2>1, <3>2, Cons3 DEF u3, u4, u5
    <3> QED BY <3>1, <3>3
  <2>5. Join(Files(m)!CompactSteps, z) = Join(Join(Join(a, b), c), z)
    BY DEF Join, Files!CompactSteps
  <2> HIDE DEF a, b, c
  <2>6. Join(Join(Join(a, b), c), z) = Join(a, Join(b, Join(c, z)))
    <3>1. z \in Seq(Labels)
      BY <2>2
    <3> QED BY <2>3, <3>1, FourParts
  <2> QED BY <2>4, <2>5, <2>6
<1> QED BY <1>7, <1>8 DEF j

\* archive_workspace, alone or before the creation of another workspace.
LEMMA ArchivePlan ==
  ASSUME NEW m, NEW z, NEW next, Plan(z, next, {"mild", "recover"}), next \in {"end", "layout"}
  PROVE  Plan(Join(Files(m)!ArchiveSteps, z), "loadArchive", {"named", "settles"})
<1> DEFINE f == {"held", "named", "settles", "mild", "recover"}
           g == {"held", "named", "settles", "recover"}
           h == {"held", "carries", "named", "settles", "recover"}
           i == {"carries", "named", "settles", "recover"}
           j == {"named", "settles"}
           u1 == Then("unlock", z)
           u2 == Then("clearOwn", u1)
           u3 == Join(Files(m)!SaveSteps, u2)
           u4 == Then("lock", u3)
           u5 == Then("loadArchive", u4)
<1> HIDE DEF u1, u2, u3, u4, u5
<1>1. (g \cup {"carries", "named"}) \ {"publishes"} = h /\ "held" \in g /\ "carries" \notin g
  OBVIOUS
<1>2. /\ Extends("unlock", next, {"mild", "recover"}, f) /\ Extends("clearOwn", "unlock", f, g)
      /\ Extends("lock", "state", h, i) /\ Extends("loadArchive", "lock", i, j)
  BY DEF Extends, May, Adds, Labels, Loading, Naming, Using, Brief, MildSteps, RecoverSteps
<1> HIDE DEF f, g, h, i, j
<1>3. Plan(u1, "unlock", f)
  BY <1>2, Longer DEF u1
<1>4. Plan(u2, "clearOwn", g)
  BY <1>2, <1>3, Longer DEF u2
<1>5. Plan(u3, "state", h)
  <2>1. Plan(u3, "state", (g \cup {"carries", "named"}) \ {"publishes"})
    BY <1>1, <1>4, SavePlan DEF u3
  <2> QED BY <1>1, <2>1
<1>6. Plan(u4, "lock", i)
  BY <1>2, <1>5, Longer DEF u4
<1>7. Plan(u5, "loadArchive", j)
  BY <1>2, <1>6, Longer DEF u5
<1>8. Join(Files(m)!ArchiveSteps, z) = u5
  <2>1. "lock" \in Labels /\ "loadArchive" \in Labels /\ "clearOwn" \in Labels /\ "unlock" \in Labels
    BY DEF Labels, Using, Loading
  <2>2. Files(m)!SaveSteps \in Seq(Labels) /\ z \in Seq(Labels)
    BY StepsOfSave DEF Plan
  <2> DEFINE a == <<"loadArchive", "lock">>  b == Files(m)!SaveSteps  c == <<"clearOwn", "unlock">>
  <2>3. a \in Seq(Labels) /\ b \in Seq(Labels) /\ c \in Seq(Labels)
    BY <2>1, <2>2, Two
  <2>4. Join(c, z) = u2
    BY <2>1, <2>2, Cons2 DEF u1, u2
  <2>5. Join(a, u3) = u5
    <3>1. u3 \in Seq(Labels)
      BY <1>5 DEF Plan
    <3> QED BY <2>1, <3>1, Cons2 DEF u4, u5
  <2>6. Join(Files(m)!ArchiveSteps, z) = Join(Join(Join(a, b), c), z)
    BY DEF Join, Files!ArchiveSteps
  <2>7. Join(b, u2) = u3
    BY DEF u3
  <2> HIDE DEF a, b, c
  <2>8. Join(Join(Join(a, b), c), z) = Join(a, Join(b, Join(c, z)))
    <3>1. z \in Seq(Labels)
      BY <2>2
    <3> QED BY <2>3, <3>1, FourParts
  <2> QED BY <2>4, <2>5, <2>6, <2>7, <2>8
<1> QED BY <1>7, <1>8 DEF j

\* Steps that stand alone: after an exception, at the start of recover_workspace and
\* of new_workspace, and on the way to the latest workspace.
LEMMA SinglePlans ==
  /\ Plan(<<"unlock">>, "unlock", {"held", "named", "settles", "mild", "recover"})
  /\ Plan(<<"readPrevious">>, "readPrevious", {})
  /\ Plan(<<"list">>, "list", {"recover"})
  /\ Plan(<<"probe">>, "probe", {"recover"})
  /\ Plan(<<"readLatest">>, "readLatest", {"recover"})
  /\ Plan(<<"select">>, "select", {"recover"})
  /\ Plan(<<"loadLatest">>, "loadLatest", {"named", "recover"})
  /\ Plan(<<"latest">>, "latest", {"named", "publishes", "mild", "recover"})
  /\ Plan(<<"temporary">>, "temporary", {})
<1>1. /\ Extends("unlock", "end", {"mild", "recover"}, {"held", "named", "settles", "mild", "recover"})
      /\ Extends("readPrevious", "end", {"mild", "recover"}, {})
      /\ Extends("list", "end", {"mild", "recover"}, {"recover"})
      /\ Extends("probe", "end", {"mild", "recover"}, {"recover"})
      /\ Extends("readLatest", "end", {"mild", "recover"}, {"recover"})
      /\ Extends("select", "end", {"mild", "recover"}, {"recover"})
      /\ Extends("loadLatest", "end", {"mild", "recover"}, {"named", "recover"})
      /\ Extends("latest", "end", {"mild", "recover"}, {"named", "publishes", "mild", "recover"})
      /\ Extends("temporary", "end", {"mild", "recover"}, {})
  BY DEF Extends, May, Adds, Labels, Loading, Naming, Using, Brief, MildSteps, RecoverSteps
<1>2. Plan(<<"unlock">>, "unlock", {"held", "named", "settles", "mild", "recover"})
  <2>1. Plan(Then("unlock", <<>>), "unlock", {"held", "named", "settles", "mild", "recover"})
    BY <1>1, PlanEnd, Longer
  <2>2. <<"unlock">> = Then("unlock", <<>>)
    <3>1. "unlock" \in Labels
      BY DEF Labels, Using
    <3> QED BY <3>1, Alone
  <2> QED BY <2>1, <2>2
<1>3. Plan(<<"readPrevious">>, "readPrevious", {})
  <2>1. Plan(Then("readPrevious", <<>>), "readPrevious", {})
    BY <1>1, PlanEnd, Longer
  <2>2. <<"readPrevious">> = Then("readPrevious", <<>>)
    <3>1. "readPrevious" \in Labels
      BY DEF Labels, Using
    <3> QED BY <3>1, Alone
  <2> QED BY <2>1, <2>2
<1>4. Plan(<<"list">>, "list", {"recover"})
  <2>1. Plan(Then("list", <<>>), "list", {"recover"})
    BY <1>1, PlanEnd, Longer
  <2>2. <<"list">> = Then("list", <<>>)
    <3>1. "list" \in Labels
      BY DEF Labels, Using
    <3> QED BY <3>1, Alone
  <2> QED BY <2>1, <2>2
<1>5. Plan(<<"probe">>, "probe", {"recover"})
  <2>1. Plan(Then("probe", <<>>), "probe", {"recover"})
    BY <1>1, PlanEnd, Longer
  <2>2. <<"probe">> = Then("probe", <<>>)
    <3>1. "probe" \in Labels
      BY DEF Labels, Using
    <3> QED BY <3>1, Alone
  <2> QED BY <2>1, <2>2
<1>6. Plan(<<"readLatest">>, "readLatest", {"recover"})
  <2>1. Plan(Then("readLatest", <<>>), "readLatest", {"recover"})
    BY <1>1, PlanEnd, Longer
  <2>2. <<"readLatest">> = Then("readLatest", <<>>)
    <3>1. "readLatest" \in Labels
      BY DEF Labels, Using
    <3> QED BY <3>1, Alone
  <2> QED BY <2>1, <2>2
<1>7. Plan(<<"select">>, "select", {"recover"})
  <2>1. Plan(Then("select", <<>>), "select", {"recover"})
    BY <1>1, PlanEnd, Longer
  <2>2. <<"select">> = Then("select", <<>>)
    <3>1. "select" \in Labels
      BY DEF Labels, Using
    <3> QED BY <3>1, Alone
  <2> QED BY <2>1, <2>2
<1>8. Plan(<<"loadLatest">>, "loadLatest", {"named", "recover"})
  <2>1. Plan(Then("loadLatest", <<>>), "loadLatest", {"named", "recover"})
    BY <1>1, PlanEnd, Longer
  <2>2. <<"loadLatest">> = Then("loadLatest", <<>>)
    <3>1. "loadLatest" \in Labels
      BY DEF Labels, Using
    <3> QED BY <3>1, Alone
  <2> QED BY <2>1, <2>2
<1>9. Plan(<<"latest">>, "latest", {"named", "publishes", "mild", "recover"})
  <2>1. Plan(Then("latest", <<>>), "latest", {"named", "publishes", "mild", "recover"})
    BY <1>1, PlanEnd, Longer
  <2>2. <<"latest">> = Then("latest", <<>>)
    <3>1. "latest" \in Labels
      BY DEF Labels, Using
    <3> QED BY <3>1, Alone
  <2> QED BY <2>1, <2>2
<1>10. Plan(<<"temporary">>, "temporary", {})
  <2>1. Plan(Then("temporary", <<>>), "temporary", {})
    BY <1>1, PlanEnd, Longer
  <2>2. <<"temporary">> = Then("temporary", <<>>)
    <3>1. "temporary" \in Labels
      BY DEF Labels
    <3> QED BY <3>1, Alone
  <2> QED BY <2>1, <2>2
<1> QED BY <1>2, <1>3, <1>4, <1>5, <1>6, <1>7, <1>8, <1>9, <1>10

\* Nothing is true of a process with nothing to do.
LEMMA NothingAhead ==
  /\ <<>> \in Seq(Labels) /\ Good(<<>>)
  /\ ~ Held(<<>>) /\ ~ Carries(<<>>) /\ ~ Named(<<>>) /\ ~ Publishes(<<>>) /\ ~ Settles(<<>>)
  /\ ~ Ahead(<<>>, {"loadInput"}, {}) /\ ~ Ahead(<<>>, {"loadReactivate"}, {})
BY AheadEmpty DEF Good, Held, Carries, Named, Publishes, Settles

\* The lock is released before a temporary workspace is made.
LEMMA UnlockThenTemporary ==
  Plan(<<"unlock", "temporary">>, "unlock", {"held", "named", "settles"})
<1> DEFINE u1 == Then("unlock", <<"temporary">>)
<1> HIDE DEF u1
<1>1. /\ Extends("unlock", "temporary",
              {}, {"held", "named", "settles"})
  BY DEF Extends, May, Adds, Labels, Loading, Naming, Using, Brief, MildSteps, RecoverSteps
<1>2. Plan(u1, "unlock", {"held", "named", "settles"})
  BY <1>1, SinglePlans, Longer DEF u1
<1>3. <<"unlock", "temporary">> = u1
  <2>1. "unlock" \in Labels /\ "temporary" \in Labels
    BY DEF Labels, Using
  <2> QED BY <2>1, Two DEF u1, Then
<1> QED BY <1>2, <1>3

\* Recovery begins with a pointer that does not parse.
LEMMA MendPlan ==
  Plan(<<"mendLatest", "list">>, "mendLatest", {"recover"})
<1> DEFINE u1 == Then("mendLatest", <<"list">>)
<1> HIDE DEF u1
<1>1. /\ Extends("mendLatest", "list",
              {"recover"}, {"recover"})
  BY DEF Extends, May, Adds, Labels, Loading, Naming, Using, Brief, MildSteps, RecoverSteps
<1>2. Plan(u1, "mendLatest", {"recover"})
  BY <1>1, SinglePlans, Longer DEF u1
<1>3. <<"mendLatest", "list">> = u1
  <2>1. "mendLatest" \in Labels /\ "list" \in Labels
    BY DEF Labels
  <2> QED BY <2>1, Two DEF u1, Then
<1> QED BY <1>2, <1>3

\* A state is saved outside of a lock.
LEMMA SaveAlone ==
  ASSUME NEW m
  PROVE  Plan(Files(m)!SaveSteps, "state", {"carries", "named", "mild", "recover"})
<1> DEFINE F == {"mild", "recover"}  G == {"carries", "named", "mild", "recover"}
<1>1. (F \cup {"carries", "named"}) \ {"publishes"} = G
  OBVIOUS
<1>2. "carries" \notin F /\ Plan(<<>>, "end", F)
  BY PlanEnd
<1> HIDE DEF F, G
<1>3. Plan(Join(Files(m)!SaveSteps, <<>>), "state", (F \cup {"carries", "named"}) \ {"publishes"})
  BY <1>2, SavePlan
<1> QED BY <1>1, <1>3, StepsOfSave, ConcatEmptySeq DEF Join, G

\* What an exception leaves to do: the lock is released, then recovery goes on.
LEMMA AfterException ==
  ASSUME NEW m, NEW p
  PROVE  LET t == (IF Files(m)!Locking(p) THEN <<"unlock">> ELSE <<>>) \o Files(m)!Rescue(p) IN
         /\ t = <<>> <=> ~ Files(m)!Locking(p) /\ proc[p].op # "recover"
         /\ t \in {<<>>, <<"unlock">>, <<"temporary">>, <<"unlock", "temporary">>}
         /\ t \in Seq(Labels) /\ Good(t)
         /\ (Held(t) <=> Files(m)!Locking(p)) /\ (Named(t) <=> Files(m)!Locking(p))
         /\ ~ Carries(t) /\ ~ Ahead(t, {"loadInput"}, {}) /\ ~ Ahead(t, {"loadReactivate"}, {})
         /\ ~ First(t, "state") /\ ~ Publishes(t)
<1> DEFINE g == IF Files(m)!Locking(p) THEN <<"unlock">> ELSE <<>>  h == Files(m)!Rescue(p)  t == g \o h
<1>1. h = (IF proc[p].op = "recover" THEN <<"temporary">> ELSE <<>>)
  BY DEF Files!Rescue
<1>2. <<"unlock">> \in Seq(Labels) /\ <<"temporary">> \in Seq(Labels)
  BY SinglePlans DEF Plan
<1>3. t = IF Files(m)!Locking(p)
          THEN (IF proc[p].op = "recover" THEN <<"unlock", "temporary">> ELSE <<"unlock">>)
          ELSE (IF proc[p].op = "recover" THEN <<"temporary">> ELSE <<>>)
  <2>1. <<"unlock">> \o <<"temporary">> = <<"unlock", "temporary">>
    <3>1. "unlock" \in Labels /\ "temporary" \in Labels
      BY DEF Labels, Using
    <3> QED BY <3>1, Two DEF Then
  <2>2. \A u \in Seq(Labels) : u \o <<>> = u /\ <<>> \o u = u
    BY ConcatEmptySeq
  <2>3. <<>> \in Seq(Labels)
    BY NothingAhead
  <2> QED BY <1>1, <1>2, <2>1, <2>2, <2>3
<1>4. /\ Plan(<<"unlock">>, "unlock", {"held", "named", "settles", "mild", "recover"})
      /\ Plan(<<"temporary">>, "temporary", {})
      /\ Plan(<<"unlock", "temporary">>, "unlock", {"held", "named", "settles"})
      /\ Plan(<<>>, "end", {"mild", "recover"})
  BY SinglePlans, UnlockThenTemporary, PlanEnd
<1> HIDE DEF t
<1>5. t = <<>> <=> ~ Files(m)!Locking(p) /\ proc[p].op # "recover"
  BY <1>3
<1>6. t \in {<<>>, <<"unlock">>, <<"temporary">>, <<"unlock", "temporary">>}
  BY <1>3
<1>7. /\ t \in Seq(Labels) /\ Good(t)
      /\ (Held(t) <=> Files(m)!Locking(p)) /\ (Named(t) <=> Files(m)!Locking(p))
      /\ ~ Carries(t) /\ ~ Ahead(t, {"loadInput"}, {}) /\ ~ Ahead(t, {"loadReactivate"}, {})
      /\ ~ First(t, "state") /\ ~ Publishes(t)
  <2>1. CASE t = <<>>
    BY <1>4, <1>5, <2>1 DEF Plan, First
  <2>2. CASE t = <<"unlock">>
    BY <1>3, <1>4, <2>2 DEF Plan, First
  <2>3. CASE t = <<"temporary">>
    BY <1>3, <1>4, <2>3 DEF Plan, First
  <2>4. CASE t = <<"unlock", "temporary">>
    BY <1>3, <1>4, <2>4 DEF Plan, First
  <2> QED BY <1>6, <2>1, <2>2, <2>3, <2>4
<1> QED BY <1>5, <1>6, <1>7 DEF t

\* The pointer is cleared.
LEMMA ClearPlan ==
  Plan(<<"clear", "select">>, "clear", {"recover"})
<1> DEFINE u1 == Then("clear", <<"select">>)
<1> HIDE DEF u1
<1>1. /\ Extends("clear", "select",
              {"recover"}, {"recover"})
  BY DEF Extends, May, Adds, Labels, Loading, Naming, Using, Brief, MildSteps, RecoverSteps
<1>2. Plan(u1, "clear", {"recover"})
  BY <1>1, SinglePlans, Longer DEF u1
<1>3. <<"clear", "select">> = u1
  <2>1. "clear" \in Labels /\ "select" \in Labels
    BY DEF Labels
  <2> QED BY <2>1, Two DEF u1, Then
<1> QED BY <1>2, <1>3

\* A workspace that does not load.
LEMMA QuarantinePlan ==
  Plan(<<"quarantine", "clearOwn", "probe">>, "quarantine", {"named", "recover"})
<1> DEFINE u1 == Then("clearOwn", <<"probe">>)
           u2 == Then("quarantine", u1)
<1> HIDE DEF u1, u2
<1>1. /\ Extends("clearOwn", "probe",
              {"recover"}, {"named", "recover"})
      /\ Extends("quarantine", "clearOwn",
              {"named", "recover"}, {"named", "recover"})
  BY DEF Extends, May, Adds, Labels, Loading, Naming, Using, Brief, MildSteps, RecoverSteps
<1>2. Plan(u1, "clearOwn", {"named", "recover"})
  BY <1>1, SinglePlans, Longer DEF u1
<1>3. Plan(u2, "quarantine", {"named", "recover"})
  BY <1>1, <1>2, Longer DEF u2
<1>4. <<"quarantine", "clearOwn", "probe">> = u2
  <2>1. "quarantine" \in Labels /\ "clearOwn" \in Labels /\ "probe" \in Labels
    BY DEF Labels, Using
  <2>2. u1 = <<"clearOwn", "probe">>
    BY <2>1, Two DEF u1, Then
  <2> QED BY <2>1, <2>2, Three DEF u2, Then
<1> QED BY <1>3, <1>4

\* Archiving and compacting consist of known steps.
LEMMA StepsTyped ==
  ASSUME NEW m
  PROVE  Files(m)!ArchiveSteps \in Seq(Labels) /\ Files(m)!CompactSteps \in Seq(Labels)
<1>1. \A a, b, c \in Seq(Labels) : Join(Join(a, b), c) \in Seq(Labels)
  BY Joined
<1>2. /\ "lock" \in Labels /\ "loadArchive" \in Labels /\ "clearOwn" \in Labels /\ "unlock" \in Labels
      /\ "loadCompact" \in Labels /\ "retain" \in Labels
  BY DEF Labels, Using, Loading
<1>3. /\ <<"loadArchive", "lock">> \in Seq(Labels) /\ <<"clearOwn", "unlock">> \in Seq(Labels)
      /\ <<"lock", "loadCompact", "retain">> \in Seq(Labels) /\ <<"unlock">> \in Seq(Labels)
  BY <1>2, Two, Three
<1> QED BY <1>1, <1>3, StepsOfSave DEF Join, Files!ArchiveSteps, Files!CompactSteps

\* The operations by themselves.
LEMMA ArchiveAlone == ASSUME NEW m PROVE Plan(Files(m)!ArchiveSteps, "loadArchive", {"named", "settles"})
<1>1. Plan(Join(Files(m)!ArchiveSteps, <<>>), "loadArchive", {"named", "settles"})
  BY PlanEnd, ArchivePlan
<1> QED BY <1>1, StepsTyped, ConcatEmptySeq DEF Join

\* A compaction locks the workspace it knows, loads, trims and saves.
LEMMA CompactAlone == ASSUME NEW m PROVE Plan(Files(m)!CompactSteps, "lock", {"named", "settles", "mild"})
<1> DEFINE F == {"mild", "recover"}
<1>1. Plan(Join(Files(m)!CompactSteps, <<>>), "lock", {"named", "settles"} \cup (F \cap {"mild"}))
  BY PlanEnd, CompactPlan
<1>2. {"named", "settles"} \cup (F \cap {"mild"}) = {"named", "settles", "mild"}
  OBVIOUS
<1> QED BY <1>1, <1>2, StepsTyped, ConcatEmptySeq DEF Join

\* new_workspace, when there is a workspace before it.
LEMMA NewPlan ==
  ASSUME NEW m, NEW c \in {<<>>, Files(m)!CompactSteps}
  PROVE  \E l \in {"lock", "loadArchive"} :
           Plan(c \o Files(m)!ArchiveSteps \o Files(m)!CreateSteps, l, {"named", "settles"})
<1> DEFINE a == Files(m)!ArchiveSteps  z == Files(m)!CreateSteps  r == Join(a, z)  s == {"named", "settles"}
<1>1. Plan(r, "loadArchive", s)
  BY CreatePlan, ArchivePlan
<1>2. a \in Seq(Labels) /\ z \in Seq(Labels)
  BY StepsTyped, CreatePlan DEF Plan
<1>3. CASE c = <<>>
  <2>1. c \o a = a
    BY <1>2, <1>3, ConcatEmptySeq
  <2> QED BY <1>1, <2>1 DEF Join
<1>4. CASE c = Files(m)!CompactSteps
  <2>1. Join(Join(c, a), z) = Join(c, r)
    BY <1>2, <1>4, StepsTyped, Joined
  <2>2. s \cup (s \cap {"mild"}) = s
    OBVIOUS
  <2>3. Plan(Join(c, r), "lock", s)
    <3>1. Plan(Join(c, r), "lock", s \cup (s \cap {"mild"}))
      <4> HIDE DEF r
      <4> QED BY <1>1, <1>4, CompactPlan
    <3> QED BY <2>2, <3>1
  <2>4. c \o a \o z = Join(Join(c, a), z)
    BY DEF Join
  <2> QED BY <2>1, <2>3, <2>4
<1> QED BY <1>3, <1>4

-----------------------------------------------------------------------------
(* A process that goes on with its operation.                               *)

\* The next step of p is l; r are the steps after it.
Next1(l, t, r) ==
  /\ t \in Seq(Labels) /\ t # <<>> /\ l \in Labels /\ Head(t) = l
  /\ r \in Seq(Labels) /\ r = Tail(t) /\ Good(r) /\ Rule(l, r)
  /\ Held(t) <=> (l = "unlock" \/ (l # "lock" /\ Held(r)))
  /\ Carries(t) <=> (l = "state" \/ (l \notin Loading /\ Carries(r)))
  /\ Named(t) <=> (l \in Using \ Naming \/ (l \notin Naming /\ Named(r)))
  /\ Publishes(t) <=> (l = "latest" \/ (l \notin {"state", "loadResume"} /\ Publishes(r)))
  /\ Settles(t) <=> (l = "unlock" \/ (l # "latest" /\ Settles(r)))
  /\ Ahead(t, {"loadInput"}, {}) <=> (l = "loadInput" \/ Ahead(r, {"loadInput"}, {}))
  /\ Ahead(t, {"loadReactivate"}, {}) <=> (l = "loadReactivate" \/ Ahead(r, {"loadReactivate"}, {}))

\* What a well-formed operation is left with after its first step.
LEMMA NextStep ==
  ASSUME NEW t \in Seq(Labels), Good(t), NEW l, t # <<>>, Head(t) = l
  PROVE  Next1(l, t, Tail(t))
<1> DEFINE r == Tail(t)
<1>1. \A A, B : Ahead(t, A, B) <=> l \in A \/ (l \notin B /\ Ahead(r, A, B))
  BY AheadTail
<1>2. r \in Seq(Labels) /\ l \in Labels /\ Good(r) /\ Rule(l, r)
  BY GoodTail, HeadTailProperties
<1> HIDE DEF r
<1>3. /\ Held(t) <=> (l = "unlock" \/ (l # "lock" /\ Held(r)))
      /\ Carries(t) <=> (l = "state" \/ (l \notin Loading /\ Carries(r)))
      /\ Named(t) <=> (l \in Using \ Naming \/ (l \notin Naming /\ Named(r)))
      /\ Publishes(t) <=> (l = "latest" \/ (l \notin {"state", "loadResume"} /\ Publishes(r)))
  BY <1>1 DEF Held, Carries, Named, Publishes
<1>4. /\ Settles(t) <=> (l = "unlock" \/ (l # "latest" /\ Settles(r)))
      /\ Ahead(t, {"loadInput"}, {}) <=> (l = "loadInput" \/ Ahead(r, {"loadInput"}, {}))
      /\ Ahead(t, {"loadReactivate"}, {}) <=> (l = "loadReactivate" \/ Ahead(r, {"loadReactivate"}, {}))
  BY <1>1 DEF Settles
<1> QED BY <1>2, <1>3, <1>4 DEF Next1, r

\* What is known of a process at the step l, and of what Done leaves it with.
LEMMA AtStep ==
  ASSUME NEW m, NEW p \in m.procs, NEW l, FilesInv(m), Files(m)!At(p, l)
  PROVE  /\ Next1(l, proc[p].todo, Tail(proc[p].todo))
         /\ Files(m)!Done(p) =
              IF Tail(proc[p].todo) = <<>> THEN Files(m)!Idle ELSE [proc[p] EXCEPT !.todo = Tail(proc[p].todo)]
         /\ proc[p] \in Process /\ Placed(m, p) /\ Faithful(p)
<1> DEFINE t == proc[p].todo
<1>1. proc[p] \in Process /\ Placed(m, p) /\ Faithful(p)
  BY DEF FilesInv, Typed
<1>2. t \in Seq(Labels) /\ t # <<>> /\ Head(t) = l /\ Good(t)
  BY <1>1 DEF Process, Placed, Files!At
<1>3. Next1(l, t, Tail(t))
  BY <1>2, NextStep
<1>4. Len(t) = 1 <=> Tail(t) = <<>>
  <2>1. Tail(t) \in Seq(Labels) /\ Len(Tail(t)) = Len(t) - 1 /\ Len(t) \in Nat
    BY <1>2, HeadTailProperties, LenProperties
  <2>2. Tail(t) = <<>> <=> Len(Tail(t)) = 0
    BY <2>1, EmptySeq
  <2> QED BY <2>1, <2>2
<1> QED BY <1>1, <1>3, <1>4 DEF Files!Done

-----------------------------------------------------------------------------
(* What one process does to the others.                                     *)

\* Another process stays placed while nobody takes the lock it holds.
LEMMA OtherPlaced ==
  ASSUME NEW m, NEW q, Placed(m, q), proc'[q] = proc[q],
         Held(proc[q].todo) => lock'[proc[q].w] = q
  PROVE  Placed(m, q)'
BY DEF Placed

\* Another process stays faithful while nobody archives a workspace under the lock it holds.
LEMMA OtherFaithful ==
  ASSUME NEW q, Faithful(q), proc'[q] = proc[q], DOMAIN proc' = DOMAIN proc,
         Carries(proc[q].todo) /\ Fresh(q) =>
           /\ state'[proc[q].w] = state[proc[q].w] /\ archived'[proc[q].w] = archived[proc[q].w]
           /\ \A p \in DOMAIN proc \ {q} : Carries(proc'[p].todo) => proc'[p].w # proc[q].w,
         Held(proc[q].todo) /\ state[proc[q].w].status # "archived" => state'[proc[q].w].status # "archived"
  PROVE  Faithful(q)'
BY DEF Faithful, Fresh

\* p takes a step, from the record x to the record y.
LEMMA Moves ==
  ASSUME NEW m, FilesInv(m), Typed(m)', NEW p \in m.procs, NEW y,
         proc' = [proc EXCEPT ![p] = y], Placed(m, p)', Faithful(p)',
         \A q \in m.procs \ {p}, w \in 1..m.workspaces : lock[w] = q => lock'[w] = q,
         \A q \in m.procs \ {p}, w \in 1..m.workspaces : lock'[w] = q => lock[w] = q,
         \A w \in 1..m.workspaces : lock'[w] = p => Held(y.todo) /\ y.w = w,
         \A q \in m.procs \ {p} : Carries(proc[q].todo) /\ Fresh(q) =>
           /\ state'[proc[q].w] = state[proc[q].w] /\ archived'[proc[q].w] = archived[proc[q].w]
           /\ Carries(y.todo) => y.w # proc[q].w,
         \A q \in m.procs \ {p} : Held(proc[q].todo) /\ state[proc[q].w].status # "archived" =>
           state'[proc[q].w].status # "archived"
  PROVE  FilesInv(m)'
<1>1. proc \in [m.procs -> Process] /\ proc' \in [m.procs -> Process'] /\ proc'[p] = y
      /\ \A q \in m.procs \ {p} : proc'[q] = proc[q]
  BY DEF FilesInv, Typed
<1>2. ASSUME NEW q \in m.procs PROVE Placed(m, q)' /\ Faithful(q)'
  <2>1. CASE q # p
    <3>1. Placed(m, q) /\ Faithful(q)
      BY DEF FilesInv
    <3>2. Held(proc[q].todo) => lock'[proc[q].w] = q
      <4>1. ASSUME Held(proc[q].todo) PROVE lock[proc[q].w] = q /\ proc[q].w \in 1..m.workspaces
        <5>1. lock[proc[q].w] = q /\ proc[q].w # 0
          BY <3>1, <4>1 DEF Placed
        <5>2. proc[q].w \in dirs \cup {0} /\ dirs \subseteq 1..m.workspaces
          BY <1>1 DEF Process, FilesInv, Typed
        <5> QED BY <5>1, <5>2
      <4> QED BY <2>1, <4>1
    <3>3. Placed(m, q)'
      BY <1>1, <2>1, <3>1, <3>2, OtherPlaced
    <3>4. Faithful(q)'
      <4>1. DOMAIN proc = m.procs /\ DOMAIN proc' = m.procs
        BY <1>1
      <4>2. ASSUME Carries(proc[q].todo), Fresh(q), NEW o \in m.procs \ {q}, Carries(proc'[o].todo)
            PROVE  proc'[o].w # proc[q].w
        <5>1. CASE o = p
          BY <1>1, <2>1, <4>2, <5>1
        <5>2. CASE o # p
          BY <1>1, <4>1, <4>2, <5>2 DEF Fresh
        <5> QED BY <5>1, <5>2
      <4> QED BY <1>1, <2>1, <3>1, <4>1, <4>2, OtherFaithful
    <3> QED BY <3>3, <3>4
  <2> QED BY <2>1
<1>3. ASSUME NEW w \in 1..m.workspaces, lock'[w] # 0
      PROVE  Held(proc'[lock'[w]].todo) /\ proc'[lock'[w]].w = w
  <2>1. lock'[w] \in m.procs
    BY <1>3 DEF Typed
  <2>2. CASE lock'[w] = p
    BY <1>1, <2>2
  <2>3. CASE lock'[w] # p
    <3>1. lock[w] = lock'[w] /\ lock[w] # 0
      BY <1>3, <2>1, <2>3
    <3>2. Held(proc[lock[w]].todo) /\ proc[lock[w]].w = w
      BY <3>1 DEF FilesInv
    <3> QED BY <1>1, <2>1, <2>3, <3>1, <3>2
  <2> QED BY <2>2, <2>3
<1> QED BY <1>2, <1>3 DEF FilesInv

\* A step that leaves the states, the archives and the locks as they are.
LEMMA Quiet ==
  ASSUME NEW m, Fit(m), FilesInv(m), NEW p \in m.procs, NEW y \in Process,
         proc' = [proc EXCEPT ![p] = y], UNCHANGED <<dirs, state, archived, lock, inputs, acked>>,
         stops' = stops \/ stops' = stops + 1, index' \subseteq dirs, latest' \in dirs \cup {0},
         Placed(m, p)', Faithful(p)',
         \A w \in 1..m.workspaces : lock[w] = p => Held(y.todo) /\ y.w = w,
         Carries(y.todo) => (Carries(proc[p].todo) /\ y.w = proc[p].w) \/ state[y.w].status # "none"
  PROVE  FilesInv(m)'
<1>1. Typed(m)'
  <2>1. Typed(m) /\ proc \in [m.procs -> Process]
    BY DEF FilesInv, Typed
  <2>2. Contents' = Contents /\ Process' = Process
    BY DEF Contents, Process
  <2>3. proc' \in [m.procs -> Process']
    BY <2>1, <2>2
  <2>4. \A w \in 1..m.workspaces : state'[w] # Files(m)!NoFile \/ archived'[w] # {} => w \in dirs'
    BY <2>1 DEF Typed
  <2> QED BY <2>1, <2>2, <2>3, <2>4 DEF Typed
<1>2. ASSUME NEW q \in m.procs \ {p}, Carries(proc[q].todo), Fresh(q), Carries(y.todo)
      PROVE  y.w # proc[q].w
  <2>1. p \in DOMAIN proc \ {q}
    BY DEF FilesInv, Typed
  <2> QED BY <1>2, <2>1 DEF Fresh
<1>3. \A w \in 1..m.workspaces : lock'[w] = p => Held(y.todo) /\ y.w = w
  OBVIOUS
<1> QED BY <1>1, <1>2, <1>3, Moves

\* The idle process and the missing file are well typed.
LEMMA IdleTyped ==
  ASSUME NEW m, inputs \in Nat
  PROVE  Files(m)!Idle \in Process /\ Files(m)!NoFile \in Contents
<1>1. Files(m)!NoFile \in Contents
  BY EmptySeq DEF Files!NoFile, Contents
<1>2. <<>> \in Seq(Labels) /\ 0 \in 0..inputs
  BY NothingAhead
<1> DEFINE n == Files(m)!NoFile  e == <<>>  none == {}  o == "none"
<1>0. o \in Calls \cup {"none", "fallback"} /\ n \in Contents /\ e \in Seq(Labels) /\ none \in SUBSET dirs
  BY <1>1, <1>2
<1> HIDE DEF n, e, none, o
<1>3. [op |-> o, todo |-> e, w |-> 0, st |-> n, idx |-> none, item |-> 0, left |-> none] \in Process
  BY <1>0, <1>2 DEF Process
<1> QED BY <1>1, <1>3 DEF Files!Idle, Files!None, n, e, none, o

\* The process has nothing to do any more, or only to release its lock and to go on
\* with a temporary workspace.
LEMMA AbortKeeps ==
  ASSUME NEW m, Fit(m), FilesInv(m), NEW p \in m.procs, Files(m)!Abort(p),
         UNCHANGED <<dirs, state, archived, lock, inputs, acked>>, index' = index,
         latest' = latest \/ latest' = 0, stops' = stops \/ stops' = stops + 1
  PROVE  FilesInv(m)'
<1> DEFINE x == proc[p]
           t == (IF Files(m)!Locking(p) THEN <<"unlock">> ELSE <<>>) \o Files(m)!Rescue(p)
<1>1. x \in Process /\ proc \in [m.procs -> Process] /\ Files(m)!Idle \in Process
      /\ index' \subseteq dirs /\ latest' \in dirs \cup {0} /\ dirs \subseteq 1..m.workspaces
  BY IdleTyped DEF FilesInv, Typed
<1>2. /\ t = <<>> <=> ~ Files(m)!Locking(p) /\ proc[p].op # "recover"
      /\ t \in Seq(Labels) /\ Good(t)
      /\ (Held(t) <=> Files(m)!Locking(p)) /\ (Named(t) <=> Files(m)!Locking(p))
      /\ ~ Carries(t) /\ ~ Ahead(t, {"loadInput"}, {}) /\ ~ Ahead(t, {"loadReactivate"}, {})
      /\ ~ First(t, "state")
  BY AfterException
<1>3. proc' = [proc EXCEPT ![p] =
        IF t = <<>> THEN Files(m)!Idle
        ELSE [x EXCEPT !.op = IF x.op = "recover" THEN "fallback" ELSE x.op, !.todo = t, !.item = 0]]
  BY <1>1 DEF Files!Abort, Files!None
<1>4. Files(m)!Locking(p) <=> \E w \in 1..m.workspaces : lock[w] = p
  BY DEF Files!Locking, Files!Workspaces
<1> HIDE DEF t
<1>5. CASE t # <<>>
  <2> DEFINE f == IF x.op = "recover" THEN "fallback" ELSE x.op
             y == [x EXCEPT !.op = f, !.todo = t, !.item = 0]
  <2>1. \A w \in 1..m.workspaces : lock[w] = p => x.w = w
    BY DEF Fit, FilesInv
  <2>2. f \in Calls \cup {"none", "fallback"}
    BY <1>1 DEF Process
  <2> HIDE DEF x, f
  <2>3. y \in Process /\ y.todo = t /\ y.w = x.w
    <3>1. 0 \in 0..inputs
      BY DEF FilesInv, Typed
    <3> QED BY <1>1, <1>2, <2>2, <3>1 DEF Process
  <2>4. proc' = [proc EXCEPT ![p] = y]
    BY <1>3, <1>5 DEF f
  <2> HIDE DEF y
  <2>5. proc'[p] = y
    BY <1>1, <2>4
  <2>6. Files(m)!Locking(p) => y.w # 0 /\ lock[y.w] = p
    BY <1>4, <2>1, <2>3
  <2>7. Placed(m, p)' /\ Faithful(p)'
    BY <1>2, <1>5, <2>3, <2>5, <2>6 DEF Placed, Faithful
  <2>8. \A w \in 1..m.workspaces : lock[w] = p => Held(y.todo) /\ y.w = w
    BY <1>2, <1>4, <2>1, <2>3
  <2> QED BY <1>1, <1>2, <2>3, <2>4, <2>7, <2>8, Quiet
<1>6. CASE t = <<>>
  <2> DEFINE y == Files(m)!Idle
  <2>1. y.todo = <<>> /\ proc' = [proc EXCEPT ![p] = y]
    BY <1>3, <1>6 DEF Files!Idle
  <2>2. proc'[p] = y
    BY <1>1, <2>1
  <2> HIDE DEF y
  <2>3. Placed(m, p)' /\ Faithful(p)'
    BY <2>1, <2>2, NothingAhead DEF Placed, Faithful, First, y
  <2>4. \A v \in 1..m.workspaces : lock[v] # p
    BY <1>2, <1>4, <1>6
  <2>5. y \in Process
    BY <1>1 DEF y
  <2> QED BY <1>1, <2>1, <2>3, <2>4, <2>5, NothingAhead, Quiet
<1> QED BY <1>5, <1>6

-----------------------------------------------------------------------------
(* The steps that read.                                                     *)

\* A process that goes on in the course of an operation, without lock or state.
LEMMA GoesOn ==
  ASSUME NEW m, Fit(m), FilesInv(m), NEW p \in m.procs, NEW l \in Labels, Files(m)!At(p, l), NEW y \in Process,
         y.op = proc[p].op, y.w = proc[p].w, y.item = proc[p].item, y.todo = Tail(proc[p].todo), y.todo # <<>>,
         l \notin Naming \cup {"lock", "unlock"},
         proc' = [proc EXCEPT ![p] = y], UNCHANGED <<dirs, state, archived, lock, inputs, acked, stops>>,
         index' \subseteq dirs, latest' \in dirs \cup {0},
         Carries(y.todo) => /\ y.st.status \in {"active", "archived", "temporary"}
                            /\ Carries(proc[p].todo) \/ state[y.w].status # "none"
                            /\ \/ Fresh(p) /\ Carries(proc[p].todo) /\ y.st = proc[p].st
                               \/ y.st.status = "archived"
                               \/ y.op = "reactivate"
                               \/ Held(y.todo) /\ state[y.w].status # "archived"
  PROVE  FilesInv(m)'
<1> DEFINE x == proc[p]  t == x.todo  r == Tail(t)
<1>1. Next1(l, t, r) /\ x \in Process /\ Placed(m, p) /\ Faithful(p)
  BY AtStep
<1>2. proc'[p] = y
  BY DEF FilesInv, Typed
<1>3. y.todo = r /\ x.w = y.w
  OBVIOUS
<1>4. Held(t) <=> Held(r)
  BY <1>1 DEF Next1, Naming
<1>5. Named(r) => Named(t)
  BY <1>1 DEF Next1
<1>6. (Ahead(r, {"loadInput"}, {}) => Ahead(t, {"loadInput"}, {})) /\ Good(r)
      /\ (Ahead(r, {"loadReactivate"}, {}) => Ahead(t, {"loadReactivate"}, {}))
      /\ (First(r, "state") => Held(r))
  BY <1>1 DEF Next1, Rule
<1> HIDE DEF r, t
<1>7. Placed(m, p)'
  <2>1. /\ Named(t) => x.w # 0
        /\ Held(t) => x.w # 0 /\ lock[x.w] = p
        /\ Ahead(t, {"loadInput"}, {}) => x.item # 0
        /\ Ahead(t, {"loadReactivate"}, {}) => x.op = "reactivate"
    BY <1>1 DEF Placed, t
  <2>2. /\ Named(r) => y.w # 0
        /\ Held(r) => y.w # 0 /\ lock[y.w] = p
        /\ Ahead(r, {"loadInput"}, {}) => y.item # 0
        /\ Ahead(r, {"loadReactivate"}, {}) => y.op = "reactivate"
        /\ Carries(r) => y.st.status \in {"active", "archived", "temporary"}
    BY <1>3, <1>4, <1>5, <1>6, <2>1
  <2> QED BY <1>2, <1>3, <1>6, <2>2 DEF Placed
<1>8. Faithful(p)'
  <2> SUFFICES ASSUME Carries(r)
               PROVE  \/ Fresh(p)'
                      \/ y.st.status = "archived"
                      \/ y.op = "reactivate"
                      \/ Held(r) /\ state[y.w].status # "archived"
    BY <1>2, <1>3 DEF Faithful
  <2>1. ASSUME Fresh(p), Carries(t), y.st = x.st PROVE Fresh(p)'
    <3>1. DOMAIN proc' = DOMAIN proc /\ \A q \in DOMAIN proc \ {p} : proc'[q] = proc[q]
      BY DEF FilesInv, Typed
    <3> QED BY <1>2, <1>3, <2>1, <3>1 DEF Fresh
  <2> QED BY <1>3, <2>1 DEF t
<1>9. \A w \in 1..m.workspaces : lock[w] = p => Held(y.todo) /\ y.w = w
  <2>1. p # 0
    BY DEF Fit
  <2> QED BY <1>3, <1>4, <2>1 DEF FilesInv, t
<1>10. Carries(y.todo) => (Carries(proc[p].todo) /\ y.w = proc[p].w) \/ state[y.w].status # "none"
  BY <1>3
<1> QED BY <1>7, <1>8, <1>9, <1>10, Quiet

\* load_workspace_state in the operations that save what they loaded.
LEMMA LoadKeeps ==
  ASSUME NEW m, Fit(m), FilesInv(m), NEW p \in m.procs, NEW l \in Loading \ {"layout"},
         NEW required \in SUBSET {"active", "archived", "temporary"}, NEW st, Files(m)!Load(p, l, required, st),
         state[proc[p].w].status \in required => st \in Contents,
         Carries(Tail(proc[p].todo)) /\ state[proc[p].w].status \in required =>
           /\ st.status \in {"active", "archived", "temporary"}
           /\ \/ st.status = "archived"
              \/ proc[p].op = "reactivate"
              \/ Held(Tail(proc[p].todo)) /\ state[proc[p].w].status # "archived"
  PROVE  FilesInv(m)'
<1> DEFINE x == proc[p]  t == x.todo  r == Tail(t)
<1>1. Files(m)!At(p, l) /\ UNCHANGED <<dirs, state, archived, latest, index, lock, inputs, acked, stops>>
  BY DEF Files!Load, Files!files
<1>2. CASE state[x.w].status \in required
  <2> DEFINE y == [x EXCEPT !.todo = r, !.st = st]
  <2>1. Next1(l, t, r) /\ Files(m)!Done(p) = (IF r = <<>> THEN Files(m)!Idle ELSE [x EXCEPT !.todo = r])
        /\ x \in Process
    BY <1>1, AtStep
  <2>2. r \in Seq(Labels) /\ r # <<>> /\ l \in Labels
    BY <2>1 DEF Next1, Rule, Loading, Brief
  <2>3. proc' = [proc EXCEPT ![p] = [[x EXCEPT !.todo = r] EXCEPT !.st = st]]
    BY <1>2, <2>1, <2>2 DEF Files!Load, Files!Loaded
  <2>4. l \notin Naming \cup {"lock", "unlock"}
    BY DEF Loading, Naming
  <2>5. index \subseteq dirs /\ latest \in dirs \cup {0}
    BY DEF FilesInv, Typed
  <2>6. state[x.w].status # "none"
    BY <1>2
  <2> HIDE DEF r
  <2>7. y \in Process /\ y = [[x EXCEPT !.todo = r] EXCEPT !.st = st] /\ y.op = x.op /\ y.w = x.w /\ y.item = x.item
        /\ y.todo = r /\ y.st = st
    BY <1>2, <2>1, <2>2 DEF Process
  <2> HIDE DEF y
  <2>8. proc' = [proc EXCEPT ![p] = y]
    BY <2>3, <2>7
  <2>9. Carries(y.todo) =>
          /\ y.st.status \in {"active", "archived", "temporary"}
          /\ Carries(proc[p].todo) \/ state[y.w].status # "none"
          /\ \/ Fresh(p) /\ Carries(proc[p].todo) /\ y.st = proc[p].st
             \/ y.st.status = "archived"
             \/ y.op = "reactivate"
             \/ Held(y.todo) /\ state[y.w].status # "archived"
    BY <1>2, <2>6, <2>7 DEF r
  <2>10. y.todo = Tail(proc[p].todo) /\ y.todo # <<>>
    BY <2>2, <2>7 DEF r
  <2> QED BY <1>1, <2>2, <2>4, <2>5, <2>7, <2>8, <2>9, <2>10, GoesOn
<1>3. CASE state[x.w].status \notin required
  BY <1>1, <1>3, AbortKeeps DEF Files!Load
<1> QED BY <1>2, <1>3

\* Contents with one input more.
LEMMA Appended ==
  ASSUME NEW c \in Contents, NEW i \in 1..inputs
  PROVE  [c EXCEPT !.inputs = Append(@, i)] \in Contents
<1>1. c.inputs \in Seq(1..inputs)
  BY DEF Contents
<1>2. Append(c.inputs, i) \in Seq(1..inputs)
  BY <1>1, AppendProperties
<1> QED BY <1>2 DEF Contents

\* Loading a state, for whatever purpose, keeps the invariant.
LEMMA LoadSteps ==
  ASSUME NEW m, Fit(m), FilesInv(m), NEW p \in m.procs,
         \/ Files(m)!LoadForInput(p) \/ Files(m)!LoadForCompaction(p) \/ Files(m)!LoadToArchive(p)
         \/ Files(m)!LoadToReactivate(p) \/ Files(m)!LoadToResume(p)
  PROVE  FilesInv(m)'
<1> DEFINE x == proc[p]  t == x.todo  r == Tail(t)  c == state[x.w]
<1>1. state \in [1..m.workspaces -> Contents] /\ inputs \in Nat
  BY DEF FilesInv, Typed
<1>2. ASSUME NEW l \in Loading \ {"layout"}, Files(m)!At(p, l) PROVE x.w \in 1..m.workspaces /\ c \in Contents
  <2>1. Next1(l, t, r) /\ x \in Process /\ Placed(m, p)
    BY <1>2, AtStep
  <2>2. Named(t)
    BY <2>1 DEF Next1, Loading, Using, Naming
  <2>3. x.w # 0 /\ x.w \in dirs \cup {0} /\ dirs \subseteq 1..m.workspaces
    BY <2>1, <2>2 DEF Placed, Process, FilesInv, Typed
  <2> QED BY <1>1, <2>3
<1>3. CASE Files(m)!LoadForInput(p)
  <2> DEFINE st == [c EXCEPT !.inputs = Append(@, x.item)]  R == {"active", "archived", "temporary"}
  <2>1. Files(m)!Load(p, "loadInput", R, st) /\ Files(m)!At(p, "loadInput")
    BY <1>3 DEF Files!LoadForInput, Files!Load, Files!Current, Files!Statuses
  <2>2. Next1("loadInput", t, r) /\ x \in Process /\ Placed(m, p)
    BY <2>1, AtStep
  <2>3. x.item \in 1..inputs
    <3>1. Ahead(t, {"loadInput"}, {})
      BY <2>2 DEF Next1
    <3> QED BY <1>1, <2>2, <3>1 DEF Placed, Process
  <2>4. c \in Contents /\ "loadInput" \in Loading \ {"layout"}
    BY <1>2, <2>1 DEF Loading
  <2>5. st \in Contents /\ st.status = c.status
    BY <2>3, <2>4, Appended DEF Contents
  <2>6. Held(r)
    BY <2>2 DEF Next1, Rule
  <2> HIDE DEF st
  <2>7. Carries(r) /\ c.status \in R =>
          /\ st.status \in {"active", "archived", "temporary"}
          /\ \/ st.status = "archived"
             \/ x.op = "reactivate"
             \/ Held(r) /\ c.status # "archived"
    BY <2>5, <2>6
  <2> QED BY <2>1, <2>4, <2>5, <2>7, LoadKeeps
<1>4. CASE Files(m)!LoadForCompaction(p)
  <2> DEFINE R == {"active", "archived", "temporary"}
  <2>1. Files(m)!Load(p, "loadCompact", R, c) /\ Files(m)!At(p, "loadCompact")
    BY <1>4 DEF Files!LoadForCompaction, Files!Load, Files!Current, Files!Statuses
  <2>2. Next1("loadCompact", t, r)
    BY <2>1, AtStep
  <2>3. c \in Contents /\ "loadCompact" \in Loading \ {"layout"}
    BY <1>2, <2>1 DEF Loading
  <2>4. Held(r)
    BY <2>2 DEF Next1, Rule
  <2>5. Carries(r) /\ c.status \in R =>
          /\ c.status \in {"active", "archived", "temporary"}
          /\ \/ c.status = "archived"
             \/ x.op = "reactivate"
             \/ Held(r) /\ c.status # "archived"
    BY <2>4
  <2> QED BY <2>1, <2>3, <2>5, LoadKeeps
<1>5. CASE Files(m)!LoadToArchive(p)
  <2> DEFINE st == [c EXCEPT !.status = "archived"]  R == {"active"}
  <2>1. Files(m)!Load(p, "loadArchive", R, st) /\ Files(m)!At(p, "loadArchive")
    BY <1>5 DEF Files!LoadToArchive, Files!Load, Files!Current
  <2>2. c \in Contents /\ "loadArchive" \in Loading \ {"layout"}
    BY <1>2, <2>1 DEF Loading
  <2>3. st \in Contents /\ st.status = "archived"
    BY <2>2 DEF Contents
  <2> HIDE DEF st
  <2>4. R \in SUBSET {"active", "archived", "temporary"}
    OBVIOUS
  <2> QED BY <2>1, <2>2, <2>3, <2>4, LoadKeeps
<1>6. CASE Files(m)!LoadToReactivate(p)
  <2> DEFINE st == [c EXCEPT !.status = "active"]  R == {"archived"}
  <2>1. Files(m)!Load(p, "loadReactivate", R, st) /\ Files(m)!At(p, "loadReactivate")
    BY <1>6 DEF Files!LoadToReactivate, Files!Load, Files!Current
  <2>2. c \in Contents /\ "loadReactivate" \in Loading \ {"layout"}
    BY <1>2, <2>1 DEF Loading
  <2>3. st \in Contents /\ st.status = "active"
    BY <2>2 DEF Contents
  <2>4. x.op = "reactivate"
    <3>1. Next1("loadReactivate", t, r) /\ Placed(m, p)
      BY <2>1, AtStep
    <3> QED BY <3>1 DEF Next1, Placed
  <2> HIDE DEF st
  <2>5. R \in SUBSET {"active", "archived", "temporary"}
    OBVIOUS
  <2> QED BY <2>1, <2>2, <2>3, <2>4, <2>5, LoadKeeps
<1>7. CASE Files(m)!LoadToResume(p)
  <2> DEFINE R == {"active"}
  <2>1. Files(m)!Load(p, "loadResume", R, c) /\ Files(m)!At(p, "loadResume")
    BY <1>7 DEF Files!LoadToResume, Files!Load, Files!Current
  <2>2. c \in Contents /\ "loadResume" \in Loading \ {"layout"}
    BY <1>2, <2>1 DEF Loading
  <2>3. ~ Carries(r)
    <3>1. Next1("loadResume", t, r)
      BY <2>1, AtStep
    <3> QED BY <3>1 DEF Next1, Rule
  <2>4. R \in SUBSET {"active", "archived", "temporary"}
    OBVIOUS
  <2> QED BY <2>1, <2>2, <2>3, <2>4, LoadKeeps
<1> QED BY <1>3, <1>4, <1>5, <1>6, <1>7

-----------------------------------------------------------------------------
(* The steps on the shared files.                                           *)

\* A process whose operation ends without the lock.
LEMMA StopKeeps ==
  ASSUME NEW m, Fit(m), FilesInv(m), NEW p \in m.procs, ~ Held(proc[p].todo),
         proc' = [proc EXCEPT ![p] = Files(m)!Idle],
         UNCHANGED <<dirs, state, archived, lock, inputs, acked, stops>>,
         index' \subseteq dirs, latest' \in dirs \cup {0}
  PROVE  FilesInv(m)'
<1> DEFINE y == Files(m)!Idle
<1>1. y \in Process /\ y.todo = <<>>
  BY IdleTyped DEF FilesInv, Typed, Files!Idle
<1>2. proc'[p] = y
  BY DEF FilesInv, Typed
<1> HIDE DEF y
<1>3. Placed(m, p)' /\ Faithful(p)'
  BY <1>1, <1>2, NothingAhead DEF Placed, Faithful, First, y
<1>4. \A w \in 1..m.workspaces : lock[w] # p
  BY DEF FilesInv, Fit
<1>5. proc' = [proc EXCEPT ![p] = y]
  BY DEF y
<1> QED BY <1>1, <1>3, <1>4, <1>5, NothingAhead, Quiet

\* Steps that write only the pointer or the index keep the invariant.
LEMMA ContinueKeeps ==
  ASSUME NEW m, Fit(m), FilesInv(m), NEW p \in m.procs, NEW l \in {"latest", "clearOwn", "clear", "mendLatest"},
         Files(m)!At(p, l),
         Files(m)!Continue(p), UNCHANGED <<dirs, state, archived, lock, inputs, acked, stops>>,
         index' \subseteq dirs, latest' \in dirs \cup {0}
  PROVE  FilesInv(m)'
<1> DEFINE x == proc[p]  t == x.todo  r == Tail(t)
<1>1. Next1(l, t, r) /\ Files(m)!Done(p) = (IF r = <<>> THEN Files(m)!Idle ELSE [x EXCEPT !.todo = r])
      /\ x \in Process /\ Placed(m, p) /\ Faithful(p)
  BY AtStep
<1>2. l \in Labels /\ l \notin Naming \cup {"lock", "unlock"} /\ l \notin Loading
  BY DEF Labels, Using, Naming, Loading
<1>3. CASE r = <<>>
  <2>1. ~ Held(t)
    BY <1>1, <1>3, NothingAhead DEF Next1
  <2>2. proc' = [proc EXCEPT ![p] = Files(m)!Idle]
    BY <1>1, <1>3 DEF Files!Continue
  <2> QED BY <2>1, <2>2, StopKeeps
<1>4. CASE r # <<>>
  <2> DEFINE y == [x EXCEPT !.todo = r]
  <2>1. proc' = [proc EXCEPT ![p] = y]
    BY <1>1, <1>4 DEF Files!Continue
  <2>2. r \in Seq(Labels)
    BY <1>1 DEF Next1
  <2> HIDE DEF r
  <2>3. y \in Process /\ y.op = x.op /\ y.w = x.w /\ y.item = x.item /\ y.todo = r /\ y.st = x.st
    BY <1>1, <2>2 DEF Process
  <2> HIDE DEF y
  <2>4. Carries(r) => Carries(t) /\ x.st.status \in {"active", "archived", "temporary"}
    BY <1>1, <1>2 DEF Next1, Placed
  <2>5. Held(r) <=> Held(t)
    BY <1>1, <1>2 DEF Next1
  <2>6. Carries(t) => \/ Fresh(p) \/ x.st.status = "archived" \/ x.op = "reactivate"
                      \/ Held(t) /\ state[x.w].status # "archived"
    BY <1>1 DEF Faithful
  <2>7. Carries(y.todo) =>
          /\ y.st.status \in {"active", "archived", "temporary"}
          /\ Carries(proc[p].todo) \/ state[y.w].status # "none"
          /\ \/ Fresh(p) /\ Carries(proc[p].todo) /\ y.st = proc[p].st
             \/ y.st.status = "archived"
             \/ y.op = "reactivate"
             \/ Held(y.todo) /\ state[y.w].status # "archived"
    BY <2>3, <2>4, <2>5, <2>6
  <2>8. y.todo = Tail(proc[p].todo) /\ y.todo # <<>>
    BY <1>4, <2>3 DEF r
  <2> QED BY <1>2, <2>1, <2>3, <2>7, <2>8, GoesOn
<1> QED BY <1>3, <1>4

\* Moving and clearing the latest pointer keep the invariant.
LEMMA PointerSteps ==
  ASSUME NEW m, Fit(m), FilesInv(m), NEW p \in m.procs,
         Files(m)!SaveLatest(p) \/ Files(m)!ClearOwn(p) \/ Files(m)!ClearLatest(p) \/ Files(m)!MendLatest(p)
  PROVE  FilesInv(m)'
<1>1. index \subseteq dirs /\ latest \in dirs \cup {0}
  BY DEF FilesInv, Typed
<1>2. CASE Files(m)!SaveLatest(p)
  <2>1. proc[p].w \in dirs \cup {0}
    BY DEF FilesInv, Typed, Process
  <2> QED BY <1>1, <1>2, <2>1, ContinueKeeps DEF Files!SaveLatest
<1>3. CASE Files(m)!ClearOwn(p)
  <2>1. /\ Files(m)!At(p, "clearOwn")
        /\ Files(m)!Abort(p) \/ Files(m)!Continue(p)
        /\ UNCHANGED <<dirs, state, archived, index, lock, inputs, acked, stops>>
        /\ latest' = latest \/ latest' = 0
    BY <1>3 DEF Files!ClearOwn, Files!None
  <2>2. index' \subseteq dirs /\ latest' \in dirs \cup {0}
    BY <1>1, <2>1
  <2>3. CASE Files(m)!Abort(p)
    BY <2>1, <2>3, AbortKeeps
  <2>4. CASE Files(m)!Continue(p)
    BY <2>1, <2>2, <2>4, ContinueKeeps
  <2> QED BY <2>1, <2>3, <2>4
<1>4. CASE Files(m)!ClearLatest(p)
  BY <1>1, <1>4, ContinueKeeps DEF Files!ClearLatest, Files!None
<1>5. CASE Files(m)!MendLatest(p)
  BY <1>1, <1>5, ContinueKeeps DEF Files!MendLatest
<1> QED BY <1>2, <1>3, <1>4, <1>5

\* Reading the index and writing it with one entry more keep the invariant.
LEMMA IndexSteps ==
  ASSUME NEW m, Fit(m), FilesInv(m), NEW p \in m.procs, Files(m)!ReadIndex(p) \/ Files(m)!WriteIndex(p)
  PROVE  FilesInv(m)'
<1> DEFINE x == proc[p]  t == x.todo  r == Tail(t)
<1>1. index \subseteq dirs /\ latest \in dirs \cup {0} /\ dirs \subseteq 1..m.workspaces
  BY DEF FilesInv, Typed
<1>2. ASSUME NEW l \in {"readIndex", "index"}, Files(m)!At(p, l), NEW i \in SUBSET dirs, l = "index" => i = {},
             proc' = [proc EXCEPT ![p] = [Files(m)!Done(p) EXCEPT !.idx = i]],
             UNCHANGED <<dirs, state, archived, latest, lock, inputs, acked, stops>>, index' \subseteq dirs
      PROVE  FilesInv(m)'
  <2> DEFINE y == [x EXCEPT !.todo = r, !.idx = i]
  <2>1. Next1(l, t, r) /\ Files(m)!Done(p) = (IF r = <<>> THEN Files(m)!Idle ELSE [x EXCEPT !.todo = r])
        /\ x \in Process /\ Placed(m, p) /\ Faithful(p)
    BY <1>2, AtStep
  <2>2. r \in Seq(Labels) /\ l \in Labels /\ l \notin Naming \cup {"lock", "unlock"} /\ l \notin Loading
    BY <2>1 DEF Next1, Labels, Using, Naming, Loading
  <2>3. CASE r = <<>>
    <3>1. l = "index" /\ ~ Held(t)
      <4>1. ~ First(r, "index")
        BY <2>3 DEF First
      <4>2. l = "index"
        BY <2>1, <4>1 DEF Next1, Rule
      <4> QED BY <2>1, <2>3, <4>2, NothingAhead DEF Next1
    <3>2. [Files(m)!Idle EXCEPT !.idx = {}] = Files(m)!Idle
      <4>1. Files(m)!Idle.idx = {} /\ Files(m)!Idle \in Process
        BY IdleTyped DEF FilesInv, Typed, Files!Idle
      <4> QED BY <4>1 DEF Process
    <3>3. proc' = [proc EXCEPT ![p] = Files(m)!Idle]
      BY <1>2, <2>1, <2>3, <3>1, <3>2
    <3> QED BY <1>1, <1>2, <3>1, <3>3, StopKeeps
  <2>4. CASE r # <<>>
    <3>1. proc' = [proc EXCEPT ![p] = [[x EXCEPT !.todo = r] EXCEPT !.idx = i]]
      BY <1>2, <2>1, <2>4
    <3> HIDE DEF r
    <3>2. y \in Process /\ y = [[x EXCEPT !.todo = r] EXCEPT !.idx = i] /\ y.op = x.op /\ y.w = x.w
          /\ y.item = x.item /\ y.todo = r /\ y.st = x.st
      BY <2>1, <2>2 DEF Process
    <3> HIDE DEF y
    <3>3. Carries(r) => Carries(t) /\ x.st.status \in {"active", "archived", "temporary"}
      BY <2>1, <2>2 DEF Next1, Placed
    <3>4. Held(r) <=> Held(t)
      BY <2>1, <2>2 DEF Next1
    <3>5. Carries(t) => \/ Fresh(p) \/ x.st.status = "archived" \/ x.op = "reactivate"
                        \/ Held(t) /\ state[x.w].status # "archived"
      BY <2>1 DEF Faithful
    <3>6. Carries(y.todo) =>
            /\ y.st.status \in {"active", "archived", "temporary"}
            /\ Carries(proc[p].todo) \/ state[y.w].status # "none"
            /\ \/ Fresh(p) /\ Carries(proc[p].todo) /\ y.st = proc[p].st
               \/ y.st.status = "archived"
               \/ y.op = "reactivate"
               \/ Held(y.todo) /\ state[y.w].status # "archived"
      BY <3>2, <3>3, <3>4, <3>5
    <3>7. y.todo = Tail(proc[p].todo) /\ y.todo # <<>> /\ proc' = [proc EXCEPT ![p] = y]
      BY <2>4, <3>1, <3>2 DEF r
    <3>8. latest' \in dirs \cup {0} /\ UNCHANGED <<dirs, state, archived, lock, inputs, acked, stops>>
      BY <1>1, <1>2
    <3>9. Files(m)!At(p, l) /\ index' \subseteq dirs
      BY <1>2
    <3> QED BY <2>2, <3>2, <3>6, <3>7, <3>8, <3>9, GoesOn
  <2> QED BY <2>3, <2>4
<1>3. CASE Files(m)!ReadIndex(p)
  <2>1. Next1("readIndex", t, r) /\ x \in Process /\ Placed(m, p)
    BY <1>3, AtStep DEF Files!ReadIndex
  <2>2. x.w \in dirs
    BY <2>1 DEF Next1, Placed, Process, Using, Naming
  <2>3. CASE "index" \in broken
    BY <1>3, <2>3, AbortKeeps DEF Files!ReadIndex, Files!files
  <2>4. CASE "index" \notin broken
    BY <1>1, <1>2, <1>3, <2>2, <2>4 DEF Files!ReadIndex, Files!Indexed, Files!files
  <2> QED BY <2>3, <2>4
<1>4. CASE Files(m)!WriteIndex(p)
  <2>1. x.idx \in SUBSET dirs
    BY DEF FilesInv, Typed, Process
  <2>2. index' \subseteq dirs /\ {} \in SUBSET dirs /\ "index" \in {"readIndex", "index"}
    BY <1>4, <2>1 DEF Files!WriteIndex
  <2> QED BY <1>2, <1>4, <2>2 DEF Files!WriteIndex
<1> QED BY <1>3, <1>4

-----------------------------------------------------------------------------
(* The steps that choose how to go on.                                      *)

\* A process without the lock that begins other steps.
LEMMA JumpKeeps ==
  ASSUME NEW m, Fit(m), FilesInv(m), NEW p \in m.procs, ~ Held(proc[p].todo), NEW y \in Process,
         NEW k, NEW F, Plan(y.todo, k, F), k # "end",
         {"held", "carries", "input", "reactivate"} \cap F = {}, "named" \in F => y.w # 0,
         proc' = [proc EXCEPT ![p] = y],
         UNCHANGED <<dirs, state, archived, latest, index, lock, inputs, acked, stops>>
  PROVE  FilesInv(m)'
<1>1. proc'[p] = y /\ index \subseteq dirs /\ latest \in dirs \cup {0}
  BY DEF FilesInv, Typed
<1>2. /\ Good(y.todo) /\ y.todo # <<>> /\ ~ Held(y.todo) /\ ~ Carries(y.todo) /\ (Named(y.todo) => y.w # 0)
      /\ ~ Ahead(y.todo, {"loadInput"}, {}) /\ ~ Ahead(y.todo, {"loadReactivate"}, {})
  BY DEF Plan, First
<1>3. ~ First(y.todo, "state")
  BY <1>2, NextStep DEF Plan, First, Next1
<1>4. Placed(m, p)' /\ Faithful(p)'
  BY <1>1, <1>2, <1>3 DEF Placed, Faithful
<1>5. \A w \in 1..m.workspaces : lock[w] # p
  BY DEF FilesInv, Fit
<1> QED BY <1>1, <1>2, <1>4, <1>5, Quiet

\* The steps that look for a workspace without writing keep the invariant.
LEMMA ChoiceSteps ==
  ASSUME NEW m, Fit(m), FilesInv(m), NEW p \in m.procs,
         \/ Files(m)!ReadPrevious(p) \/ Files(m)!ReadLatest(p) \/ Files(m)!LoadLatest(p)
         \/ Files(m)!Select(p) \/ Files(m)!ListDirectories(p) \/ Files(m)!Probe(p)
         \/ Files(m)!NoWorkspaceLeft(p)
  PROVE  FilesInv(m)'
<1> DEFINE x == proc[p]  t == x.todo
<1>1. latest \in dirs \cup {0} /\ x \in Process /\ index \subseteq dirs /\ dirs \subseteq 1..m.workspaces
  BY DEF FilesInv, Typed
<1>2. ASSUME NEW l \in Naming \cup {"loadLatest"}, Files(m)!At(p, l) PROVE ~ Held(t)
  BY <1>2, AtStep DEF Next1, Rule, Naming
<1>3. /\ "readPrevious" \in Naming \cup {"loadLatest"} /\ "readLatest" \in Naming \cup {"loadLatest"}
      /\ "select" \in Naming \cup {"loadLatest"} /\ "list" \in Naming \cup {"loadLatest"}
      /\ "probe" \in Naming \cup {"loadLatest"} /\ "layout" \in Naming \cup {"loadLatest"}
      /\ "temporary" \in Naming \cup {"loadLatest"}
  BY DEF Naming
<1>4. CASE "latest" \notin broken /\ Files(m)!ReadPrevious(p)
  <2>1. ~ Held(t)
    BY <1>2, <1>3, <1>4 DEF Files!ReadPrevious
  <2>2. PICK c \in {<<>>, Files(m)!CompactSteps} :
          proc' = [proc EXCEPT ![p] = [x EXCEPT !.w = latest,
                     !.todo = IF latest = 0 THEN Files(m)!CreateSteps
                              ELSE c \o Files(m)!ArchiveSteps \o Files(m)!CreateSteps]]
    BY <1>4 DEF Files!ReadPrevious, Files!None
  <2> DEFINE d == IF latest = 0 THEN Files(m)!CreateSteps ELSE c \o Files(m)!ArchiveSteps \o Files(m)!CreateSteps
             y == [x EXCEPT !.w = latest, !.todo = d]
  <2>3. \E k, F : /\ Plan(d, k, F) /\ k # "end" /\ {"held", "carries", "input", "reactivate"} \cap F = {}
                  /\ "named" \in F => latest # 0
    <3>1. CASE latest = 0
      <4>1. Plan(d, "layout", {"mild", "recover"})
        BY <3>1, CreatePlan
      <4>2. {"held", "carries", "input", "reactivate"} \cap {"mild", "recover"} = {} /\ "named" \notin {"mild", "recover"}
        OBVIOUS
      <4> QED BY <4>1, <4>2
    <3>2. CASE latest # 0
      <4>1. PICK k \in {"lock", "loadArchive"} : Plan(d, k, {"named", "settles"})
        BY <3>2, NewPlan
      <4>2. {"held", "carries", "input", "reactivate"} \cap {"named", "settles"} = {} /\ k # "end"
        OBVIOUS
      <4> QED BY <3>2, <4>1, <4>2
    <3> QED BY <3>1, <3>2
  <2>4. d \in Seq(Labels)
    BY <2>3 DEF Plan
  <2> HIDE DEF d
  <2>5. y \in Process /\ y.todo = d /\ y.w = latest
    BY <1>1, <2>4 DEF Process
  <2>6. proc' = [proc EXCEPT ![p] = y]
    BY <2>2 DEF d
  <2> HIDE DEF y
  <2>7. UNCHANGED <<dirs, state, archived, latest, index, lock, inputs, acked, stops>>
    BY <1>4 DEF Files!ReadPrevious, Files!files
  <2> QED BY <2>1, <2>3, <2>5, <2>6, <2>7, JumpKeeps
<1>5. CASE "latest" \in broken /\ Files(m)!ReadPrevious(p)
  BY <1>5, AbortKeeps DEF Files!ReadPrevious, Files!files
<1>6. CASE Files(m)!ReadLatest(p)
  <2>1. ~ Held(t)
    BY <1>2, <1>3, <1>6 DEF Files!ReadLatest
  <2> DEFINE d == IF latest = 0 THEN <<"select">> ELSE <<"loadLatest">>
             y == [x EXCEPT !.w = latest, !.todo = d]
  <2>2. UNCHANGED <<dirs, state, archived, latest, index, lock, inputs, acked, stops>>
        /\ proc' = [proc EXCEPT ![p] = y]
    BY <1>6 DEF Files!ReadLatest, Files!None, Files!files
  <2>3. \E l, F : /\ Plan(d, l, F) /\ l # "end" /\ {"held", "carries", "input", "reactivate"} \cap F = {}
                  /\ "named" \in F => latest # 0
    <3>1. Plan(<<"select">>, "select", {"recover"}) /\ Plan(<<"loadLatest">>, "loadLatest", {"named", "recover"})
      BY SinglePlans
    <3>2. /\ {"held", "carries", "input", "reactivate"} \cap {"recover"} = {}
          /\ {"held", "carries", "input", "reactivate"} \cap {"named", "recover"} = {}
          /\ "named" \notin {"recover"}
      OBVIOUS
    <3>3. CASE latest = 0
      BY <3>1, <3>2, <3>3
    <3>4. CASE latest # 0
      BY <3>1, <3>2, <3>4
    <3> QED BY <3>3, <3>4
  <2>4. d \in Seq(Labels)
    BY <2>3 DEF Plan
  <2> HIDE DEF d
  <2>5. y \in Process /\ y.todo = d /\ y.w = latest
    BY <1>1, <2>4 DEF Process
  <2> HIDE DEF y
  <2> QED BY <2>1, <2>2, <2>3, <2>5, JumpKeeps
<1>7. CASE Files(m)!LoadLatest(p)
  <2>1. ~ Held(t)
    BY <1>2, <1>7 DEF Files!LoadLatest
  <2>2. UNCHANGED <<dirs, state, archived, latest, index, lock, inputs, acked, stops>>
    BY <1>7 DEF Files!LoadLatest, Files!files
  <2>3. CASE Files(m)!Usable(x.w)
    <3>1. proc' = [proc EXCEPT ![p] = Files(m)!Idle]
      BY <1>7, <2>3 DEF Files!LoadLatest
    <3> QED BY <1>1, <2>1, <2>2, <3>1, StopKeeps
  <2>4. CASE ~ Files(m)!Usable(x.w)
    <3> DEFINE d == <<"clear", "select">>  y == [x EXCEPT !.todo = d]
    <3>1. proc' = [proc EXCEPT ![p] = y]
      BY <1>7, <2>4 DEF Files!LoadLatest, Files!GoTo
    <3>2. Plan(d, "clear", {"recover"}) /\ d \in Seq(Labels)
      BY ClearPlan DEF Plan
    <3> HIDE DEF d
    <3>3. y \in Process /\ y.todo = d
      BY <1>1, <3>2 DEF Process
    <3> HIDE DEF y
    <3>4. {"held", "carries", "input", "reactivate"} \cap {"recover"} = {} /\ "named" \notin {"recover"}
      OBVIOUS
    <3> QED BY <2>1, <2>2, <3>1, <3>2, <3>3, <3>4, JumpKeeps
  <2> QED BY <2>3, <2>4
<1>8. CASE Files(m)!Select(p)
  <2>1. ~ Held(t)
    BY <1>2, <1>3, <1>8 DEF Files!Select
  <2>2. UNCHANGED <<dirs, state, archived, latest, index, lock, inputs, acked, stops>>
    BY <1>8 DEF Files!Select, Files!files
  <2> DEFINE active == {w \in 1..m.workspaces : state[w].status = "active"}
  <2>3. CASE active = {}
    <3> DEFINE d == Files(m)!CreateSteps  y == [x EXCEPT !.todo = d]
    <3>1. proc' = [proc EXCEPT ![p] = y]
      BY <1>8, <2>3 DEF Files!Select, Files!GoTo, Files!Workspaces
    <3>2. Plan(d, "layout", {"mild", "recover"}) /\ d \in Seq(Labels)
      BY CreatePlan DEF Plan
    <3> HIDE DEF d
    <3>3. y \in Process /\ y.todo = d
      BY <1>1, <3>2 DEF Process
    <3> HIDE DEF y
    <3>4. {"held", "carries", "input", "reactivate"} \cap {"mild", "recover"} = {}
          /\ "named" \notin {"mild", "recover"}
      OBVIOUS
    <3> QED BY <2>1, <2>2, <3>1, <3>2, <3>3, <3>4, JumpKeeps
  <2>4. CASE active # {}
    <3>1. PICK w \in active : proc' = [proc EXCEPT ![p] = [x EXCEPT !.w = w, !.todo = <<"latest">>]]
      BY <1>8, <2>4 DEF Files!Select, Files!Workspaces
    <3> DEFINE d == <<"latest">>  y == [x EXCEPT !.w = w, !.todo = d]
    <3>2. w \in dirs /\ w # 0
      <4>1. w \in 1..m.workspaces /\ state[w].status = "active"
        BY <3>1
      <4>2. state[w] # Files(m)!NoFile
        BY <4>1 DEF Files!NoFile
      <4> QED BY <4>1, <4>2 DEF FilesInv, Typed
    <3>3. Plan(d, "latest", {"named", "publishes", "mild", "recover"}) /\ d \in Seq(Labels)
      BY SinglePlans DEF Plan
    <3>4. proc' = [proc EXCEPT ![p] = y]
      BY <3>1
    <3> HIDE DEF d
    <3>5. y \in Process /\ y.todo = d /\ y.w = w
      BY <1>1, <3>2, <3>3 DEF Process
    <3> HIDE DEF y
    <3>6. {"held", "carries", "input", "reactivate"} \cap {"named", "publishes", "mild", "recover"} = {}
      OBVIOUS
    <3> QED BY <2>1, <2>2, <3>2, <3>3, <3>4, <3>5, <3>6, JumpKeeps
  <2> QED BY <2>3, <2>4
<1>9. CASE Files(m)!ListDirectories(p)
  <2>1. ~ Held(t)
    BY <1>2, <1>3, <1>9 DEF Files!ListDirectories
  <2>2. UNCHANGED <<dirs, state, archived, latest, index, lock, inputs, acked, stops>>
    BY <1>9 DEF Files!ListDirectories, Files!files
  <2> DEFINE d == <<"probe">>  y == [x EXCEPT !.left = dirs, !.todo = d]
  <2>3. proc' = [proc EXCEPT ![p] = y]
    BY <1>9 DEF Files!ListDirectories
  <2>4. Plan(d, "probe", {"recover"}) /\ d \in Seq(Labels)
    BY SinglePlans DEF Plan
  <2> HIDE DEF d
  <2>5. y \in Process /\ y.todo = d
    BY <1>1, <2>4 DEF Process
  <2> HIDE DEF y
  <2>6. {"held", "carries", "input", "reactivate"} \cap {"recover"} = {} /\ "named" \notin {"recover"}
    OBVIOUS
  <2> QED BY <2>1, <2>2, <2>3, <2>4, <2>5, <2>6, JumpKeeps
<1>10. CASE Files(m)!Probe(p)
  <2>1. ~ Held(t) /\ Files(m)!At(p, "probe")
    BY <1>2, <1>3, <1>10 DEF Files!Probe
  <2>2. UNCHANGED <<dirs, state, archived, latest, index, lock, inputs, acked, stops>>
    BY <1>10 DEF Files!Probe, Files!files
  <2>3. CASE proc' = [proc EXCEPT ![p] = [x EXCEPT !.todo = <<"readLatest">>]]
    <3> DEFINE d == <<"readLatest">>  y == [x EXCEPT !.todo = d]
    <3>1. proc' = [proc EXCEPT ![p] = y]
      BY <2>3
    <3>2. Plan(d, "readLatest", {"recover"}) /\ d \in Seq(Labels)
      BY SinglePlans DEF Plan
    <3> HIDE DEF d
    <3>3. y \in Process /\ y.todo = d
      BY <1>1, <3>2 DEF Process
    <3> HIDE DEF y
    <3>4. {"held", "carries", "input", "reactivate"} \cap {"recover"} = {} /\ "named" \notin {"recover"}
      OBVIOUS
    <3> QED BY <2>1, <2>2, <3>1, <3>2, <3>3, <3>4, JumpKeeps
  <2>4. ASSUME NEW w \in x.left,
               proc' = [proc EXCEPT ![p] = [x EXCEPT !.w = w, !.left = x.left \ {w},
                          !.todo = IF Files(m)!Loads(w) THEN t ELSE <<"quarantine", "clearOwn", "probe">>]]
        PROVE  FilesInv(m)'
    <3> DEFINE d == IF Files(m)!Loads(w) THEN t ELSE <<"quarantine", "clearOwn", "probe">>
               y == [x EXCEPT !.w = w, !.left = x.left \ {w}, !.todo = d]
    <3>1. proc' = [proc EXCEPT ![p] = y]
      BY <2>4
    <3>2. x.left \in SUBSET dirs /\ w \in dirs /\ w # 0
      BY <1>1 DEF Process
    <3>3. \E k, F : Plan(d, k, F) /\ k # "end" /\ {"held", "carries", "input", "reactivate"} \cap F = {}
      <4>1. CASE ~ Files(m)!Loads(w)
        <5>1. Plan(d, "quarantine", {"named", "recover"})
          BY <4>1, QuarantinePlan
        <5>2. {"held", "carries", "input", "reactivate"} \cap {"named", "recover"} = {}
          OBVIOUS
        <5> QED BY <5>1, <5>2
      <4>2. CASE Files(m)!Loads(w)
        <5>1. Next1("probe", t, Tail(t)) /\ Placed(m, p)
          BY <2>1, AtStep
        <5>2. Tail(t) = <<>>
          BY <5>1 DEF Next1, Rule
        <5>3. /\ t \in Seq(Labels) /\ Good(t) /\ t # <<>> /\ Head(t) = "probe" /\ ~ Held(t) /\ ~ Carries(t) /\ ~ Named(t)
              /\ ~ Publishes(t) /\ ~ Settles(t)
              /\ ~ Ahead(t, {"loadInput"}, {}) /\ ~ Ahead(t, {"loadReactivate"}, {})
          BY <5>1, <5>2, NothingAhead DEF Next1, Placed, Naming, Using, Loading
        <5>4. Plan(t, "probe", {})
          BY <5>3 DEF Plan, First
        <5> QED BY <4>2, <5>4
      <4> QED BY <4>1, <4>2
    <3>4. d \in Seq(Labels)
      BY <3>3 DEF Plan
    <3> HIDE DEF d
    <3>5. y \in Process /\ y.todo = d /\ y.w = w
      BY <1>1, <3>2, <3>4 DEF Process
    <3> HIDE DEF y
    <3> QED BY <2>1, <2>2, <3>1, <3>2, <3>3, <3>5, JumpKeeps
  <2>5. \/ proc' = [proc EXCEPT ![p] = [x EXCEPT !.todo = <<"readLatest">>]]
        \/ \E w \in x.left :
             proc' = [proc EXCEPT ![p] = [x EXCEPT !.w = w, !.left = x.left \ {w},
                        !.todo = IF Files(m)!Loads(w) THEN t ELSE <<"quarantine", "clearOwn", "probe">>]]
    <3> HIDE DEF x, t
    <3>1. CASE proc[p].left = {} /\ Files(m)!GoTo(p, <<"readLatest">>)
      BY <3>1 DEF Files!GoTo, x
    <3>2. CASE \E w \in proc[p].left :
                 proc' = [proc EXCEPT ![p] = [proc[p] EXCEPT !.w = w, !.left = proc[p].left \ {w},
                   !.todo = IF Files(m)!Loads(w) THEN proc[p].todo ELSE <<"quarantine", "clearOwn", "probe">>]]
      BY <3>2 DEF x, t
    <3> QED BY <1>10, <3>1, <3>2 DEF Files!Probe
  <2> QED BY <2>3, <2>4, <2>5
<1>11. CASE Files(m)!NoWorkspaceLeft(p)
  <2>1. ~ Held(t)
    BY <1>2, <1>3, <1>11 DEF Files!NoWorkspaceLeft
  <2> QED BY <1>1, <1>11, <2>1, StopKeeps DEF Files!NoWorkspaceLeft, Files!files
<1> QED BY <1>4, <1>5, <1>6, <1>7, <1>8, <1>9, <1>10, <1>11

-----------------------------------------------------------------------------
(* The steps on the lock and the state of a workspace.                      *)

\* Taking the lock of a workspace keeps the invariant.
LEMMA TakeLockKeeps ==
  ASSUME NEW m, Fit(m), FilesInv(m), NEW p \in m.procs, Files(m)!TakeLock(p)
  PROVE  FilesInv(m)'
<1> DEFINE x == proc[p]  t == x.todo  r == Tail(t)  w == x.w
<1>1. Files(m)!At(p, "lock") /\ UNCHANGED <<dirs, state, archived, latest, index, inputs, acked, stops>>
  BY DEF Files!TakeLock, Files!files
<1>2. Next1("lock", t, r) /\ Files(m)!Done(p) = (IF r = <<>> THEN Files(m)!Idle ELSE [x EXCEPT !.todo = r])
      /\ x \in Process /\ Placed(m, p) /\ Faithful(p)
  BY <1>1, AtStep
<1>3. CASE lock[w] = 0
  <2> DEFINE y == [x EXCEPT !.todo = r]
  <2>1. r \in Seq(Labels) /\ r # <<>> /\ Good(r) /\ Held(r) /\ ~ Held(t) /\ Named(t)
        /\ (Carries(r) <=> Carries(t)) /\ (Named(r) => Named(t))
        /\ (Ahead(r, {"loadInput"}, {}) => Ahead(t, {"loadInput"}, {}))
        /\ (Ahead(r, {"loadReactivate"}, {}) => Ahead(t, {"loadReactivate"}, {}))
    BY <1>2 DEF Next1, Rule, Brief, Loading, Naming, Using
  <2>2. proc' = [proc EXCEPT ![p] = y] /\ lock' = [lock EXCEPT ![w] = p]
    BY <1>2, <1>3, <2>1 DEF Files!TakeLock, Files!Continue, Files!None
  <2> HIDE DEF r
  <2>3. y \in Process /\ y.op = x.op /\ y.w = w /\ y.item = x.item /\ y.todo = r /\ y.st = x.st
    BY <1>2, <2>1 DEF Process
  <2> HIDE DEF y
  <2>4. Typed(m) /\ w \in 1..m.workspaces /\ p # 0
    <3>1. Typed(m) /\ p # 0
      BY DEF FilesInv, Fit
    <3>2. w # 0
      BY <1>2, <2>1 DEF Placed
    <3> QED BY <1>2, <3>1, <3>2 DEF Typed, Process
  <2>5. proc'[p] = y /\ lock'[w] = p /\ \A v \in 1..m.workspaces : v # w => lock'[v] = lock[v]
    BY <2>2, <2>4 DEF Typed
  <2>6. Typed(m)'
    <3>1. Contents' = Contents /\ Process' = Process
      BY <1>1 DEF Contents, Process
    <3>2. proc' \in [m.procs -> Process] /\ lock' \in [1..m.workspaces -> m.procs \cup {0}]
      BY <2>2, <2>3, <2>4 DEF Typed
    <3>3. \A v \in 1..m.workspaces : state'[v] # Files(m)!NoFile \/ archived'[v] # {} => v \in dirs'
      BY <1>1, <2>4 DEF Typed
    <3> QED BY <1>1, <2>4, <3>1, <3>2, <3>3 DEF Typed
  <2>7. Placed(m, p)'
    <3>1. /\ Named(t) => w # 0
          /\ Ahead(t, {"loadInput"}, {}) => x.item # 0
          /\ Ahead(t, {"loadReactivate"}, {}) => x.op = "reactivate"
          /\ Carries(t) => x.st.status \in {"active", "archived", "temporary"}
      BY <1>2 DEF Placed
    <3>2. /\ Named(r) => y.w # 0
          /\ y.w # 0 /\ lock'[y.w] = p
          /\ Ahead(r, {"loadInput"}, {}) => y.item # 0
          /\ Ahead(r, {"loadReactivate"}, {}) => y.op = "reactivate"
          /\ Carries(r) => y.st.status \in {"active", "archived", "temporary"}
      BY <2>1, <2>3, <2>4, <2>5, <3>1
    <3> QED BY <2>1, <2>3, <2>5, <3>2 DEF Placed
  <2>8. Faithful(p)'
    <3>1. Carries(t) => Fresh(p) \/ x.st.status = "archived" \/ x.op = "reactivate"
      BY <1>2, <2>1 DEF Faithful
    <3>2. ASSUME Fresh(p) PROVE Fresh(p)'
      <4>1. DOMAIN proc' = DOMAIN proc /\ \A q \in DOMAIN proc \ {p} : proc'[q] = proc[q]
        BY <2>2, <2>4 DEF Typed
      <4> QED BY <1>1, <2>3, <2>5, <3>2, <4>1 DEF Fresh
    <3> QED BY <2>1, <2>3, <2>5, <3>1, <3>2 DEF Faithful
  <2>9. /\ \A q \in m.procs \ {p}, v \in 1..m.workspaces : lock[v] = q => lock'[v] = q
        /\ \A q \in m.procs \ {p}, v \in 1..m.workspaces : lock'[v] = q => lock[v] = q
    <3>1. \A q \in m.procs : q # 0
      BY DEF Fit
    <3> QED BY <1>3, <2>5, <3>1
  <2>10. \A v \in 1..m.workspaces : lock'[v] = p => Held(y.todo) /\ y.w = v
    <3>1. \A v \in 1..m.workspaces : lock[v] # p
      BY <2>1, <2>4 DEF FilesInv
    <3> QED BY <2>1, <2>3, <2>5, <3>1
  <2>11. \A q \in m.procs \ {p} : Carries(proc[q].todo) /\ Fresh(q) =>
           /\ state'[proc[q].w] = state[proc[q].w] /\ archived'[proc[q].w] = archived[proc[q].w]
           /\ Carries(y.todo) => y.w # proc[q].w
    <3> TAKE q \in m.procs \ {p}
    <3>1. p \in DOMAIN proc \ {q}
      BY <2>4 DEF Typed
    <3> QED BY <1>1, <2>1, <2>3, <3>1 DEF Fresh
  <2>12. \A q \in m.procs \ {p} : Held(proc[q].todo) /\ state[proc[q].w].status # "archived" =>
           state'[proc[q].w].status # "archived"
    BY <1>1
  <2> QED BY <2>2, <2>6, <2>7, <2>8, <2>9, <2>10, <2>11, <2>12, Moves
<1>4. CASE lock[w] # 0
  BY <1>1, <1>4, AbortKeeps DEF Files!TakeLock, Files!None
<1> QED BY <1>3, <1>4

\* Releasing the lock keeps the invariant.
LEMMA UnlockKeeps ==
  ASSUME NEW m, Fit(m), FilesInv(m), NEW p \in m.procs, Files(m)!Unlock(p)
  PROVE  FilesInv(m)'
<1> DEFINE x == proc[p]  t == x.todo  r == Tail(t)  w == x.w
           y == IF r = <<>> THEN Files(m)!Idle ELSE [x EXCEPT !.todo = r, !.item = 0]
<1>1. Files(m)!At(p, "unlock") /\ UNCHANGED <<dirs, state, archived, latest, index, inputs, stops>>
  BY DEF Files!Unlock, Files!files
<1>2. Next1("unlock", t, r) /\ Files(m)!Done(p) = (IF r = <<>> THEN Files(m)!Idle ELSE [x EXCEPT !.todo = r])
      /\ x \in Process /\ Placed(m, p) /\ Faithful(p)
  BY <1>1, AtStep
<1>3. Typed(m) /\ p # 0 /\ Files(m)!Idle \in Process
  BY IdleTyped DEF FilesInv, Fit, Typed
<1>4. r \in Seq(Labels) /\ Good(r) /\ ~ Held(r) /\ Held(t) /\ ~ Carries(r) /\ Named(t) /\ ~ First(r, "state")
      /\ ~ Ahead(r, {"loadInput"}, {}) /\ (Ahead(r, {"loadReactivate"}, {}) => Ahead(t, {"loadReactivate"}, {}))
  BY <1>2 DEF Next1, Rule, Loading, Naming, Using
<1>5. w # 0 /\ w \in 1..m.workspaces /\ lock[w] = p
      /\ (Ahead(t, {"loadReactivate"}, {}) => x.op = "reactivate")
  BY <1>2, <1>3, <1>4 DEF Placed, Process, Typed
<1>6. lock' = [lock EXCEPT ![w] = 0] /\ proc' = [proc EXCEPT ![p] = y]
      /\ acked' = (IF x.item = 0 THEN acked ELSE acked \cup {<<w, x.item>>})
  <2>1. [Files(m)!Done(p) EXCEPT !.item = 0] = y
    <3>1. CASE r = <<>>
      <4>1. \A f \in Process : f.item = 0 => [f EXCEPT !.item = 0] = f
        BY DEF Process
      <4>2. Files(m)!Idle.item = 0
        BY DEF Files!Idle, Files!None
      <4> QED BY <1>2, <1>3, <3>1, <4>1, <4>2
    <3>2. CASE r # <<>>
      BY <1>2, <3>2 DEF Process
    <3> QED BY <3>1, <3>2
  <2> HIDE DEF y
  <2> QED BY <2>1 DEF Files!Unlock, Files!None
<1> HIDE DEF r
<1>7. y \in Process /\ y.todo = r /\ (r # <<>> => y.w = w /\ y.op = x.op) /\ (r = <<>> => y = Files(m)!Idle)
  <2>1. CASE r = <<>>
    BY <1>3, <2>1 DEF Files!Idle
  <2>2. CASE r # <<>>
    <3>1. 0 \in 0..inputs
      BY <1>3 DEF Typed
    <3> QED BY <1>2, <1>4, <2>2, <3>1 DEF Process
  <2> QED BY <2>1, <2>2
<1> HIDE DEF y
<1>8. proc'[p] = y /\ lock'[w] = 0 /\ \A v \in 1..m.workspaces : v # w => lock'[v] = lock[v]
  BY <1>3, <1>5, <1>6 DEF Typed
<1>9. Typed(m)'
  <2>1. Contents' = Contents /\ Process' = Process
    BY <1>1 DEF Contents, Process
  <2>2. proc' \in [m.procs -> Process] /\ lock' \in [1..m.workspaces -> m.procs \cup {0}]
    BY <1>3, <1>6, <1>7 DEF Typed
  <2>3. acked' \subseteq (1..m.workspaces) \X (1..inputs)
    <3>1. x.item # 0 => x.item \in 1..inputs
      BY <1>2, <1>3 DEF Process, Typed
    <3> QED BY <1>3, <1>5, <1>6, <3>1 DEF Typed
  <2>4. \A v \in 1..m.workspaces : state'[v] # Files(m)!NoFile \/ archived'[v] # {} => v \in dirs'
    BY <1>1, <1>3 DEF Typed
  <2> QED BY <1>1, <1>3, <2>1, <2>2, <2>3, <2>4 DEF Typed
<1>10. Placed(m, p)' /\ Faithful(p)'
  <2>1. Faithful(p)'
    BY <1>4, <1>7, <1>8 DEF Faithful
  <2>2. /\ Named(r) => y.w # 0
        /\ Ahead(r, {"loadReactivate"}, {}) => y.op = "reactivate"
    <3>1. CASE r = <<>>
      BY <3>1, NothingAhead
    <3>2. CASE r # <<>>
      BY <1>4, <1>5, <1>7, <3>2
    <3> QED BY <3>1, <3>2
  <2> QED BY <1>4, <1>7, <1>8, <2>1, <2>2 DEF Placed
<1>11. /\ \A q \in m.procs \ {p}, v \in 1..m.workspaces : lock[v] = q => lock'[v] = q
       /\ \A q \in m.procs \ {p}, v \in 1..m.workspaces : lock'[v] = q => lock[v] = q
  <2>1. \A q \in m.procs : q # 0
    BY DEF Fit
  <2> QED BY <1>5, <1>8, <2>1
<1>12. \A v \in 1..m.workspaces : lock'[v] # p
  <2> SUFFICES ASSUME NEW v \in 1..m.workspaces, lock[v] = p PROVE v = w
    BY <1>3, <1>8
  <2> QED BY <1>3 DEF FilesInv
<1>13. \A q \in m.procs \ {p} : Carries(proc[q].todo) /\ Fresh(q) =>
         /\ state'[proc[q].w] = state[proc[q].w] /\ archived'[proc[q].w] = archived[proc[q].w]
         /\ Carries(y.todo) => y.w # proc[q].w
  BY <1>1, <1>4, <1>7
<1>14. \A q \in m.procs \ {p} : Held(proc[q].todo) /\ state[proc[q].w].status # "archived" =>
         state'[proc[q].w].status # "archived"
  BY <1>1
<1> QED BY <1>6, <1>9, <1>10, <1>11, <1>12, <1>13, <1>14, Moves

\* What p has loaded and will save is what it was, as y, with the file c and the archive a.
StillSaves(p, y, c, a) ==
  Carries(y.todo) => /\ y.st.status = proc[p].st.status /\ (Fresh(p) => y.st = proc[p].st /\ a = {})
                     /\ c.status # "archived" \/ c = state[proc[p].w]
                     /\ Fresh(p) => c = state[proc[p].w]

\* A step of the middle of an operation on the files of the workspace itself.
LEMMA WriteKeeps ==
  ASSUME NEW m, Fit(m), FilesInv(m), NEW p \in m.procs, NEW l \in {"retain", "state", "quarantine"},
         Files(m)!At(p, l), NEW y \in Process, y.op = proc[p].op, y.w = proc[p].w, y.item = proc[p].item,
         y.todo = Tail(proc[p].todo), proc' = [proc EXCEPT ![p] = y],
         UNCHANGED <<dirs, latest, index, lock, inputs, acked, stops>>,
         NEW c \in Contents, NEW a \in SUBSET (1..inputs),
         state' = [state EXCEPT ![proc[p].w] = c], archived' = [archived EXCEPT ![proc[p].w] = a],
         StillSaves(p, y, c, a),
         l = "quarantine" => c = Files(m)!NoFile /\ a = archived[proc[p].w],
         l = "retain" => c = state[proc[p].w], l = "state" => c = proc[p].st
  PROVE  FilesInv(m)'
<1> DEFINE x == proc[p]  t == x.todo  r == Tail(t)  w == x.w
<1>1. Next1(l, t, r) /\ x \in Process /\ Placed(m, p) /\ Faithful(p)
  BY AtStep
<1>2. Typed(m) /\ p # 0
  BY DEF FilesInv, Fit
<1>3. r \in Seq(Labels) /\ r # <<>> /\ Good(r) /\ Named(t) /\ (Held(r) <=> Held(t))
      /\ (Carries(r) => Carries(t))
      /\ (l = "retain" => Held(t)) /\ (l # "quarantine" => Carries(t)) /\ (First(r, "state") => Held(r))
      /\ (Ahead(r, {"loadInput"}, {}) => Ahead(t, {"loadInput"}, {}))
      /\ (Ahead(r, {"loadReactivate"}, {}) => Ahead(t, {"loadReactivate"}, {}))
  BY <1>1 DEF Next1, Rule, Brief, Loading, Naming, Using
<1>4. w # 0 /\ w \in dirs /\ w \in 1..m.workspaces
  BY <1>1, <1>2, <1>3 DEF Placed, Process, Typed
<1>5. /\ proc'[p] = y /\ y.todo = r /\ state'[w] = c /\ archived'[w] = a
      /\ \A v \in 1..m.workspaces : v # w => state'[v] = state[v] /\ archived'[v] = archived[v]
      /\ DOMAIN proc' = DOMAIN proc /\ \A q \in DOMAIN proc \ {p} : proc'[q] = proc[q]
  BY <1>2, <1>4 DEF Typed
<1> HIDE DEF r
<1>6. Typed(m)'
  <2>1. Contents' = Contents /\ Process' = Process
    BY DEF Contents, Process
  <2>2. proc' \in [m.procs -> Process] /\ state' \in [1..m.workspaces -> Contents]
        /\ archived' \in [1..m.workspaces -> SUBSET (1..inputs)]
    BY <1>2, <1>4 DEF Typed
  <2>3. \A v \in 1..m.workspaces : state'[v] # Files(m)!NoFile \/ archived'[v] # {} => v \in dirs'
    BY <1>2, <1>4, <1>5 DEF Typed
  <2> QED BY <1>2, <2>1, <2>2, <2>3 DEF Typed
<1>7. Placed(m, p)'
  <2>1. /\ Named(t) => w # 0
        /\ Held(t) => lock[w] = p
        /\ Ahead(t, {"loadInput"}, {}) => x.item # 0
        /\ Ahead(t, {"loadReactivate"}, {}) => x.op = "reactivate"
        /\ Carries(t) => x.st.status \in {"active", "archived", "temporary"}
    BY <1>1 DEF Placed
  <2>2. /\ y.w # 0
        /\ Held(r) => lock'[y.w] = p
        /\ Ahead(r, {"loadInput"}, {}) => y.item # 0
        /\ Ahead(r, {"loadReactivate"}, {}) => y.op = "reactivate"
        /\ Carries(r) => y.st.status \in {"active", "archived", "temporary"}
    BY <1>3, <1>4, <1>5, <2>1 DEF StillSaves
  <2> QED BY <1>3, <1>5, <2>2 DEF Placed
<1>8. Faithful(p)'
  <2> SUFFICES ASSUME Carries(r)
               PROVE  Fresh(p)' \/ y.st.status = "archived" \/ y.op = "reactivate"
                      \/ (Held(r) /\ c.status # "archived")
    BY <1>4, <1>5 DEF Faithful
  <2>1. \/ Fresh(p) \/ x.st.status = "archived" \/ x.op = "reactivate"
        \/ Held(t) /\ state[w].status # "archived"
    BY <1>1, <1>3 DEF Faithful
  <2>2. ASSUME Fresh(p) PROVE Fresh(p)'
    <3>1. y.st = x.st /\ a = {} /\ c = state[w] /\ y.w = w
      BY <1>5, <2>2 DEF StillSaves
    <3> QED BY <1>5, <2>2, <3>1 DEF Fresh
  <2>3. y.st.status = x.st.status /\ (c.status # "archived" \/ c = state[w])
    BY <1>5 DEF StillSaves
  <2> QED BY <1>3, <2>1, <2>2, <2>3
<1>9. \A v \in 1..m.workspaces : lock'[v] = p => Held(y.todo) /\ y.w = v
  BY <1>2, <1>3, <1>5 DEF FilesInv
<1>10. ASSUME NEW q \in m.procs \ {p}, Carries(proc[q].todo), Fresh(q)
       PROVE  /\ state'[proc[q].w] = state[proc[q].w] /\ archived'[proc[q].w] = archived[proc[q].w]
              /\ Carries(y.todo) => y.w # proc[q].w
  <2>1. p \in DOMAIN proc \ {q} /\ q # 0 /\ proc[q].w \in dirs \cup {0} /\ dirs \subseteq 1..m.workspaces
    BY <1>2 DEF Fit, Typed, Process
  <2>2. Carries(t) => w # proc[q].w
    BY <1>10, <2>1 DEF Fresh
  <2>3. CASE proc[q].w # w
    BY <1>2, <1>4, <1>5, <2>1, <2>3 DEF Typed
  <2>4. CASE proc[q].w = w
    <3>1. l = "quarantine"
      BY <1>3, <2>2, <2>4
    <3>2. state[w] = Files(m)!NoFile
      BY <1>10, <2>4 DEF Fresh, Files!NoFile
    <3> QED BY <1>3, <1>5, <2>2, <2>4, <3>1, <3>2
  <2> QED BY <2>3, <2>4
<1>11. ASSUME NEW q \in m.procs \ {p}, Held(proc[q].todo), state[proc[q].w].status # "archived"
       PROVE  state'[proc[q].w].status # "archived"
  <2>1. proc[q].w # 0 /\ lock[proc[q].w] = q
    BY <1>11 DEF FilesInv, Placed
  <2>4. proc[q].w \in 1..m.workspaces
    BY <1>2, <2>1 DEF Typed, Process
  <2>2. CASE proc[q].w # w
    BY <1>5, <1>11, <2>2, <2>4
  <2>3. CASE proc[q].w = w
    <3>1. ~ Held(t)
      BY <1>1, <2>1, <2>3 DEF Placed
    <3>2. c = Files(m)!NoFile \/ c.status = "temporary"
      <4>1. l = "state" => First(t, "state")
        BY <1>1 DEF Next1, First
      <4> QED BY <1>1, <1>3, <3>1, <4>1 DEF Placed
    <3> QED BY <1>5, <2>3, <3>2 DEF Files!NoFile
  <2> QED BY <2>2, <2>3
<1>12. /\ \A q \in m.procs \ {p}, v \in 1..m.workspaces : lock[v] = q => lock'[v] = q
       /\ \A q \in m.procs \ {p}, v \in 1..m.workspaces : lock'[v] = q => lock[v] = q
  OBVIOUS
<1> QED BY <1>6, <1>7, <1>8, <1>9, <1>10, <1>11, <1>12, Moves

\* _trim_recent_inputs: what stays, and what goes to the archive.
LEMMA Trimmed ==
  ASSUME NEW m, Fit(m), NEW S, NEW s \in Seq(S)
  PROVE  LET n == Files(m)!Excess(s) IN
         /\ SubSeq(s, n + 1, Len(s)) \in Seq(S)
         /\ Files(m)!Elements(SubSeq(s, 1, n)) \subseteq S
         /\ \A i \in DOMAIN s : s[i] \in Files(m)!Elements(SubSeq(s, n + 1, Len(s))) \cup Files(m)!Elements(SubSeq(s, 1, n))
         /\ s = <<>> => SubSeq(s, n + 1, Len(s)) = <<>> /\ Files(m)!Elements(SubSeq(s, 1, n)) = {}
<1> DEFINE n == Files(m)!Excess(s)  kept == SubSeq(s, n + 1, Len(s))  out == SubSeq(s, 1, n)
<1>1. Len(s) \in Nat /\ n \in 0..Len(s) /\ DOMAIN s = 1..Len(s)
  BY LenProperties DEF Fit, Files!Excess
<1> HIDE DEF n
<1>2. /\ kept \in Seq(S) /\ Len(kept) = Len(s) - n /\ \A i \in 1..Len(kept) : kept[i] = s[n + i]
      /\ DOMAIN kept = 1..Len(kept)
  <2> DEFINE f == n + 1  e == Len(s)
  <2>1. f \in Int /\ e \in Int /\ \A i \in f..e : s[i] \in S
    <3>1. \A i \in f..e : i \in 1..Len(s)
      BY <1>1
    <3> QED BY <1>1, <3>1, ElementOfSeq
  <2> HIDE DEF f, e
  <2>2. /\ SubSeq(s, f, e) \in Seq(S) /\ Len(SubSeq(s, f, e)) = (IF f <= e THEN e - f + 1 ELSE 0)
        /\ \A i \in 1..(e - f + 1) : SubSeq(s, f, e)[i] = s[f + i - 1]
    BY <2>1, SubSeqProperties
  <2>6. kept = SubSeq(s, f, e) /\ f = n + 1 /\ e = Len(s)
    BY DEF f, e
  <2> HIDE DEF kept
  <2>3. Len(kept) = Len(s) - n /\ e - f + 1 = Len(s) - n
    <3>1. Len(kept) = IF f <= e THEN e - f + 1 ELSE 0
      BY <2>2, <2>6
    <3>2. n \in Nat /\ e \in Nat /\ n <= e /\ f = n + 1 /\ e = Len(s)
      BY <1>1, <2>6
    <3>3. e - f + 1 = e - n /\ (f <= e \/ n = e)
      BY <3>2
    <3> QED BY <3>1, <3>2, <3>3
  <2>4. \A i \in 1..(Len(s) - n) : f + i - 1 = n + i
    BY <1>1, <2>6
  <2>5. \A i \in 1..Len(kept) : kept[i] = s[n + i]
    BY <2>2, <2>3, <2>4, <2>6
  <2> QED BY <2>2, <2>3, <2>5, <2>6, LenProperties
<1>3. /\ out \in Seq(S) /\ Len(out) = n /\ \A i \in 1..Len(out) : out[i] = s[i]
      /\ DOMAIN out = 1..Len(out)
  BY <1>1
<1> HIDE DEF kept, out
<1>4. Files(m)!Elements(out) \subseteq S
  <2>1. \A i \in 1..Len(out) : out[i] \in S
    BY <1>3, ElementOfSeq
  <2> QED BY <1>3, <2>1 DEF Files!Elements
<1>5. \A i \in DOMAIN s : s[i] \in Files(m)!Elements(kept) \cup Files(m)!Elements(out)
  <2> TAKE i \in DOMAIN s
  <2>1. CASE i <= n
    <3>1. i \in DOMAIN out /\ out[i] = s[i]
      BY <1>1, <1>3, <2>1
    <3> QED BY <3>1 DEF Files!Elements
  <2>2. CASE i > n
    <3>1. i - n \in DOMAIN kept /\ kept[i - n] = s[n + (i - n)] /\ n + (i - n) = i
      BY <1>1, <1>2, <2>2
    <3>2. kept[i - n] \in Files(m)!Elements(kept)
      BY <3>1 DEF Files!Elements
    <3> QED BY <3>1, <3>2
  <2> QED BY <1>1, <2>1, <2>2
<1>6. ASSUME s = <<>> PROVE kept = <<>> /\ Files(m)!Elements(out) = {}
  <2>1. Len(s) = 0 /\ n = 0
    BY <1>1, <1>6
  <2>2. Len(kept) = 0 /\ DOMAIN out = {}
    BY <1>2, <1>3, <2>1
  <2>3. kept = <<>>
    BY <1>2, <2>2, EmptySeq
  <2> QED BY <2>2, <2>3 DEF Files!Elements
<1> QED BY <1>2, <1>4, <1>5, <1>6 DEF n, kept, out

\* Moving inputs that exceed the limit to the archive keeps the invariant.
LEMMA RetainKeeps ==
  ASSUME NEW m, Fit(m), FilesInv(m), NEW p \in m.procs, Files(m)!Retain(p)
  PROVE  FilesInv(m)'
<1> DEFINE x == proc[p]  t == x.todo  r == Tail(t)  w == x.w  s == x.st.inputs  n == Files(m)!Excess(s)
           kept == SubSeq(s, n + 1, Len(s))  out == Files(m)!Elements(SubSeq(s, 1, n))
           st == [x.st EXCEPT !.inputs = kept]  y == [x EXCEPT !.todo = r, !.st = st]
           a == archived[w] \cup out  c == state[w]
<1>1. Files(m)!At(p, "retain") /\ UNCHANGED <<dirs, state, latest, index, lock, inputs, acked, stops>>
      /\ archived' = [archived EXCEPT ![w] = a]
  BY DEF Files!Retain
<1>2. Next1("retain", t, r) /\ Files(m)!Done(p) = (IF r = <<>> THEN Files(m)!Idle ELSE [x EXCEPT !.todo = r])
      /\ x \in Process /\ Placed(m, p) /\ Faithful(p)
  BY <1>1, AtStep
<1>3. r \in Seq(Labels) /\ r # <<>> /\ Named(t)
  BY <1>2 DEF Next1, Rule, Brief, Naming, Using
<1>4. proc' = [proc EXCEPT ![p] = [[x EXCEPT !.todo = r] EXCEPT !.st.inputs = kept]]
  <2> HIDE DEF kept
  <2> QED BY <1>2, <1>3 DEF Files!Retain, kept
<1>5. x.st \in Contents /\ s \in Seq(1..inputs)
  BY <1>2 DEF Process, Contents
<1>6. kept \in Seq(1..inputs) /\ out \subseteq 1..inputs /\ (s = <<>> => kept = <<>> /\ out = {})
  BY <1>5, Trimmed
<1>7. w \in 1..m.workspaces /\ c \in Contents /\ a \in SUBSET (1..inputs) /\ state' = [state EXCEPT ![w] = c]
  <2>1. w # 0
    BY <1>2, <1>3 DEF Placed
  <2>2. w \in 1..m.workspaces
    BY <1>2, <2>1 DEF FilesInv, Typed, Process
  <2> HIDE DEF out
  <2> QED BY <1>1, <1>6, <2>2 DEF FilesInv, Typed
<1> HIDE DEF kept, out, r, n
<1>8. st \in Contents /\ st.status = x.st.status /\ (kept = s => st = x.st)
  BY <1>5, <1>6 DEF Contents
<1>9. y \in Process /\ y.op = x.op /\ y.w = w /\ y.item = x.item /\ y.todo = r /\ y.st = st
      /\ y = [[x EXCEPT !.todo = r] EXCEPT !.st.inputs = kept]
  BY <1>2, <1>3, <1>8 DEF Process
<1>10. Fresh(p) => st = x.st /\ a = {}
  <2> SUFFICES ASSUME Fresh(p) PROVE st = x.st /\ a = {}
    OBVIOUS
  <2>1. s = <<>> /\ archived[w] = {}
    BY DEF Fresh
  <2> QED BY <1>6, <1>8, <2>1
<1> HIDE DEF y, st, a
<1>11. proc' = [proc EXCEPT ![p] = y]
  BY <1>4, <1>9
<1>12. y.todo = Tail(proc[p].todo)
  BY <1>9 DEF r
<1>13. StillSaves(p, y, c, a)
  BY <1>8, <1>9, <1>10 DEF StillSaves
<1>14. "retain" \in {"retain", "state", "quarantine"} /\ c = state[proc[p].w]
  OBVIOUS
<1> HIDE DEF c
<1> QED BY <1>1, <1>7, <1>9, <1>11, <1>12, <1>13, <1>14, WriteKeeps

\* Writing the state file keeps the invariant: it is faithful to what was loaded.
LEMMA SaveStateKeeps ==
  ASSUME NEW m, Fit(m), FilesInv(m), NEW p \in m.procs, Files(m)!SaveState(p)
  PROVE  FilesInv(m)'
<1> DEFINE x == proc[p]  t == x.todo  r == Tail(t)  w == x.w  n == Files(m)!NoFile
           y == [x EXCEPT !.todo = r, !.st = n]  a == archived[w]  c == x.st
<1>1. Files(m)!At(p, "state") /\ UNCHANGED <<dirs, archived, latest, index, lock, inputs, acked, stops>>
      /\ state' = [state EXCEPT ![w] = c]
  BY DEF Files!SaveState
<1>2. Next1("state", t, r) /\ Files(m)!Done(p) = (IF r = <<>> THEN Files(m)!Idle ELSE [x EXCEPT !.todo = r])
      /\ x \in Process /\ Placed(m, p) /\ Faithful(p)
  BY <1>1, AtStep
<1>3. r \in Seq(Labels) /\ r # <<>> /\ Named(t) /\ ~ Carries(r) /\ n \in Contents
  BY <1>2, IdleTyped DEF Next1, Rule, Brief, Naming, Using, FilesInv, Typed
<1>4. proc' = [proc EXCEPT ![p] = [[x EXCEPT !.todo = r] EXCEPT !.st = n]]
  BY <1>2, <1>3 DEF Files!SaveState
<1>5. w \in 1..m.workspaces /\ c \in Contents /\ a \in SUBSET (1..inputs) /\ archived' = [archived EXCEPT ![w] = a]
  <2>1. w # 0
    BY <1>2, <1>3 DEF Placed
  <2>2. w \in 1..m.workspaces
    BY <1>2, <2>1 DEF FilesInv, Typed, Process
  <2> QED BY <1>1, <1>2, <2>2 DEF FilesInv, Typed, Process
<1> HIDE DEF r, n
<1>6. y \in Process /\ y.op = x.op /\ y.w = w /\ y.item = x.item /\ y.todo = r
      /\ y = [[x EXCEPT !.todo = r] EXCEPT !.st = n]
  BY <1>2, <1>3 DEF Process
<1> HIDE DEF y
<1>7. proc' = [proc EXCEPT ![p] = y] /\ y.todo = Tail(proc[p].todo) /\ StillSaves(p, y, c, a)
  BY <1>3, <1>4, <1>6 DEF r, StillSaves
<1>8. "state" \in {"retain", "state", "quarantine"} /\ c = proc[p].st
  OBVIOUS
<1> HIDE DEF c, a
<1> QED BY <1>1, <1>5, <1>6, <1>7, <1>8, WriteKeeps

\* Moving a directory whose state does not load to quarantine keeps the invariant.
LEMMA QuarantineKeeps ==
  ASSUME NEW m, Fit(m), FilesInv(m), NEW p \in m.procs, Files(m)!Quarantine(p)
  PROVE  FilesInv(m)'
<1> DEFINE x == proc[p]  t == x.todo  r == Tail(t)  w == x.w
           y == [x EXCEPT !.todo = r]  a == archived[w]  c == Files(m)!NoFile
<1>1. Files(m)!At(p, "quarantine") /\ UNCHANGED <<dirs, archived, latest, index, lock, inputs, acked, stops>>
      /\ state' = [state EXCEPT ![w] = c]
  BY DEF Files!Quarantine
<1>2. Next1("quarantine", t, r) /\ Files(m)!Done(p) = (IF r = <<>> THEN Files(m)!Idle ELSE [x EXCEPT !.todo = r])
      /\ x \in Process /\ Placed(m, p) /\ Faithful(p)
  BY <1>1, AtStep
<1>3. r \in Seq(Labels) /\ r # <<>> /\ Named(t) /\ (Carries(r) => Carries(t)) /\ c \in Contents
  BY <1>2, IdleTyped DEF Next1, Rule, Brief, Naming, Using, Loading, FilesInv, Typed
<1>4. proc' = [proc EXCEPT ![p] = y]
  BY <1>2, <1>3 DEF Files!Quarantine, Files!Continue
<1>5. w \in 1..m.workspaces /\ a \in SUBSET (1..inputs) /\ archived' = [archived EXCEPT ![w] = a]
  <2>1. w # 0
    BY <1>2, <1>3 DEF Placed
  <2>2. w \in 1..m.workspaces
    BY <1>2, <2>1 DEF FilesInv, Typed, Process
  <2> QED BY <1>1, <1>2, <2>2 DEF FilesInv, Typed, Process
<1> HIDE DEF r
<1>6. y \in Process /\ y.op = x.op /\ y.w = w /\ y.item = x.item /\ y.todo = r /\ y.st = x.st
  BY <1>2, <1>3 DEF Process
<1> HIDE DEF y
<1>7. y.todo = Tail(proc[p].todo)
  BY <1>6 DEF r
<1>8. c.status # "archived" /\ (Fresh(p) => c = state[w] /\ a = {})
  BY DEF Fresh, Files!NoFile
<1> HIDE DEF c
<1>9. StillSaves(p, y, c, a)
  BY <1>6, <1>8 DEF StillSaves
<1>10. c = Files(m)!NoFile
  BY DEF c
<1>11. "quarantine" \in {"retain", "state", "quarantine"} /\ a = archived[proc[p].w] /\ c \in Contents
  BY <1>3
<1> HIDE DEF a
<1> QED BY <1>1, <1>4, <1>5, <1>6, <1>7, <1>9, <1>10, <1>11, WriteKeeps

-----------------------------------------------------------------------------
(* The steps that begin and end an operation.                               *)

\* More directories and inputs: what was well formed is.
LEMMA Grows ==
  ASSUME inputs \in Nat, inputs' \in Nat, inputs <= inputs', dirs \subseteq dirs'
  PROVE  Contents \subseteq Contents' /\ Process \subseteq Process'
         /\ SUBSET (1..inputs) \subseteq SUBSET (1..inputs')
<1>1. 1..inputs \subseteq 1..inputs' /\ 0..inputs \subseteq 0..inputs'
  OBVIOUS
<1>2. \A s \in Seq(1..inputs) : s \in Seq(1..inputs')
  BY <1>1, SeqMonotonic
<1>3. Contents \subseteq Contents'
  BY <1>2 DEF Contents
<1> DEFINE A == 0..inputs  B == 0..inputs'
<1>4. A \subseteq B
  BY <1>1
<1> HIDE DEF A, B
<1>5. Process = [op : Calls \cup {"none", "fallback"}, todo : Seq(Labels), w : dirs \cup {0}, st : Contents, idx : SUBSET dirs,
                 item : A, left : SUBSET dirs]
  BY DEF Process, A
<1>6. Process' = [op : Calls \cup {"none", "fallback"}, todo : Seq(Labels), w : dirs' \cup {0}, st : Contents', idx : SUBSET dirs',
                  item : B, left : SUBSET dirs']
  BY DEF Process, B
<1>7. Process \subseteq Process'
  BY <1>3, <1>4, <1>5, <1>6
<1> QED BY <1>1, <1>3, <1>7

\* Making a new directory keeps the invariant: nobody else carries its state.
LEMMA NewDirectory ==
  ASSUME NEW m, Fit(m), FilesInv(m), NEW p \in m.procs, ~ Held(proc[p].todo),
         NEW w \in (1..m.workspaces) \ dirs, dirs' = dirs \cup {w},
         NEW new \in Contents, new.inputs = <<>>, new.status \in {"active", "temporary"},
         NEW r \in Seq(Labels), r # <<>>, Good(r), ~ Held(r), First(r, "state") => new.status = "temporary",
         Ahead(r, {"loadInput"}, {}) => Ahead(proc[p].todo, {"loadInput"}, {}),
         Ahead(r, {"loadReactivate"}, {}) => Ahead(proc[p].todo, {"loadReactivate"}, {}),
         proc' = [proc EXCEPT ![p] = [proc[p] EXCEPT !.todo = r, !.w = w, !.st = new]],
         UNCHANGED <<state, archived, latest, index, lock, inputs, acked, stops>>
  PROVE  FilesInv(m)'
<1> DEFINE x == proc[p]  t == x.todo  y == [x EXCEPT !.todo = r, !.w = w, !.st = new]
<1>1. UNCHANGED <<state, archived, latest, index, lock, inputs, acked, stops>> /\ dirs' = dirs \cup {w}
      /\ proc' = [proc EXCEPT ![p] = y]
  OBVIOUS
<1>2. x \in Process /\ Placed(m, p) /\ Faithful(p)
  BY DEF FilesInv, Typed
<1>3. Typed(m) /\ w # 0 /\ inputs \in Nat /\ proc \in [m.procs -> Process]
  BY DEF FilesInv, Typed
<1>4. Contents \subseteq Contents' /\ Process \subseteq Process'
  BY <1>1, <1>3, Grows
<1>5. /\ state[w] = [status |-> "none", inputs |-> <<>>] /\ archived[w] = {}
      /\ \A q \in m.procs : proc[q].w # w
  <2>1. \A q \in m.procs : proc[q].w \in dirs \cup {0}
    BY <1>3 DEF Process
  <2>2. state[w] = Files(m)!NoFile /\ archived[w] = {}
    BY <1>3 DEF Typed
  <2> QED BY <1>3, <2>1, <2>2 DEF Files!NoFile
<1>6. y \in Process' /\ y.op = x.op /\ y.w = w /\ y.item = x.item /\ y.todo = r /\ y.st = new
  <2>1. x \in Process' /\ new \in Contents' /\ w \in dirs'
    BY <1>2, <1>4
  <2> QED BY <2>1 DEF Process
<1> HIDE DEF y
<1>7. /\ proc'[p] = y
       /\ DOMAIN proc' = DOMAIN proc /\ DOMAIN proc = m.procs /\ \A q \in m.procs \ {p} : proc'[q] = proc[q]
  BY <1>1, <1>3, <1>6
<1>8. Typed(m)'
  <2>1. proc' \in [m.procs -> Process'] /\ state' \in [1..m.workspaces -> Contents']
    BY <1>1, <1>3, <1>4, <1>6, <1>7 DEF Typed
  <2>2. \A v \in 1..m.workspaces : state'[v] # Files(m)!NoFile \/ archived'[v] # {} => v \in dirs'
    BY <1>1, <1>3 DEF Typed
  <2> QED BY <1>1, <1>3, <2>1, <2>2 DEF Typed
<1>9. Placed(m, p)'
  <2>1. /\ Ahead(t, {"loadInput"}, {}) => x.item # 0
        /\ Ahead(t, {"loadReactivate"}, {}) => x.op = "reactivate"
    BY <1>2 DEF Placed
  <2>2. /\ Ahead(r, {"loadInput"}, {}) => y.item # 0
        /\ Ahead(r, {"loadReactivate"}, {}) => y.op = "reactivate"
        /\ y.w # 0 /\ y.st.status \in {"active", "archived", "temporary"}
    BY <1>3, <1>6, <2>1
  <2> QED BY <1>6, <1>7, <2>2 DEF Placed
<1>10. Faithful(p)'
  <2>1. \A q \in DOMAIN proc' \ {p} : Carries(proc'[q].todo) => proc'[q].w # proc'[p].w
    BY <1>5, <1>6, <1>7
  <2>2. Fresh(p)'
    BY <1>1, <1>5, <1>6, <1>7, <2>1 DEF Fresh
  <2> QED BY <2>2 DEF Faithful
<1>11. \A v \in 1..m.workspaces : lock[v] # p
  BY DEF FilesInv, Fit
<1>12. \A q \in m.procs \ {p} : Carries(proc[q].todo) /\ Fresh(q) =>
         /\ state'[proc[q].w] = state[proc[q].w] /\ archived'[proc[q].w] = archived[proc[q].w]
         /\ Carries(y.todo) => y.w # proc[q].w
  BY <1>1, <1>5, <1>6
<1>13. \A v \in 1..m.workspaces : lock'[v] = p => Held(y.todo) /\ y.w = v
  BY <1>1, <1>11
<1>14. \A q \in m.procs \ {p} : Held(proc[q].todo) /\ state[proc[q].w].status # "archived" =>
         state'[proc[q].w].status # "archived"
  BY <1>1
<1>15. /\ \A q \in m.procs \ {p}, v \in 1..m.workspaces : lock[v] = q => lock'[v] = q
       /\ \A q \in m.procs \ {p}, v \in 1..m.workspaces : lock'[v] = q => lock[v] = q
  BY <1>1
<1> QED BY <1>7, <1>8, <1>9, <1>10, <1>12, <1>13, <1>14, <1>15, Moves

\* create_workspace makes a directory.
LEMMA LayoutKeeps ==
  ASSUME NEW m, Fit(m), FilesInv(m), NEW p \in m.procs, Files(m)!Layout(p)
  PROVE  FilesInv(m)'
<1> DEFINE x == proc[p]  t == x.todo  r == Tail(t)  new == [status |-> "active", inputs |-> <<>>]
<1>1. PICK w \in (1..m.workspaces) \ dirs :
        /\ dirs' = dirs \cup {w}
        /\ proc' = [proc EXCEPT ![p] = [Files(m)!Done(p) EXCEPT !.w = w, !.st = new]]
  BY DEF Files!Layout, Files!Workspaces
<1>2. Files(m)!At(p, "layout") /\ UNCHANGED <<state, archived, latest, index, lock, inputs, acked, stops>>
  BY DEF Files!Layout
<1>3. Next1("layout", t, r) /\ Files(m)!Done(p) = (IF r = <<>> THEN Files(m)!Idle ELSE [x EXCEPT !.todo = r])
      /\ x \in Process
  BY <1>2, AtStep
<1>4. r \in Seq(Labels) /\ r # <<>> /\ Good(r) /\ ~ Held(r) /\ ~ Held(t) /\ ~ First(r, "state")
      /\ (Ahead(r, {"loadInput"}, {}) => Ahead(t, {"loadInput"}, {}))
      /\ (Ahead(r, {"loadReactivate"}, {}) => Ahead(t, {"loadReactivate"}, {}))
  BY <1>3 DEF Next1, Rule, Brief, Loading, Naming, Using
<1>5. new \in Contents /\ new.status = "active" /\ new.inputs = <<>>
  <2>1. <<>> \in Seq(1..inputs)
    BY EmptySeq
  <2> QED BY <2>1 DEF Contents
<1> HIDE DEF r, new
<1>6. proc' = [proc EXCEPT ![p] = [x EXCEPT !.todo = r, !.w = w, !.st = new]]
  <2>1. [[x EXCEPT !.todo = r] EXCEPT !.w = w, !.st = new] = [x EXCEPT !.todo = r, !.w = w, !.st = new]
    BY <1>3 DEF Process
  <2> QED BY <1>1, <1>3, <1>4, <2>1
<1> QED BY <1>1, <1>2, <1>4, <1>5, <1>6, NewDirectory

\* So does _temporary_workspace, whose state is then saved outside of a lock.
LEMMA TemporaryKeeps ==
  ASSUME NEW m, Fit(m), FilesInv(m), NEW p \in m.procs, Files(m)!Temporary(p)
  PROVE  FilesInv(m)'
<1> DEFINE x == proc[p]  t == x.todo  r == Files(m)!SaveSteps  new == [status |-> "temporary", inputs |-> <<>>]
<1>1. PICK w \in (1..m.workspaces) \ dirs :
        /\ dirs' = dirs \cup {w}
        /\ proc' = [proc EXCEPT ![p] = [x EXCEPT !.w = w, !.st = new, !.todo = r]]
  BY DEF Files!Temporary, Files!Workspaces
<1>2. Files(m)!At(p, "temporary") /\ UNCHANGED <<state, archived, latest, index, lock, inputs, acked, stops>>
  BY DEF Files!Temporary
<1>3. Next1("temporary", t, Tail(t)) /\ x \in Process
  BY <1>2, AtStep
<1>4. ~ Held(t)
  BY <1>3 DEF Next1, Rule, Naming
<1>5. r \in Seq(Labels) /\ r # <<>> /\ Good(r) /\ ~ Held(r)
      /\ ~ Ahead(r, {"loadInput"}, {}) /\ ~ Ahead(r, {"loadReactivate"}, {})
  <2> HIDE DEF r
  <2>1. Plan(r, "state", {"carries", "named", "mild", "recover"})
    BY SaveAlone DEF r
  <2> QED BY <2>1 DEF Plan, First
<1>6. new \in Contents /\ new.status = "temporary" /\ new.inputs = <<>>
  <2>1. <<>> \in Seq(1..inputs)
    BY EmptySeq
  <2> QED BY <2>1 DEF Contents
<1> HIDE DEF r, new
<1>7. proc' = [proc EXCEPT ![p] = [x EXCEPT !.todo = r, !.w = w, !.st = new]]
  <2>1. [x EXCEPT !.w = w, !.st = new, !.todo = r] = [x EXCEPT !.todo = r, !.w = w, !.st = new]
    BY <1>3 DEF Process
  <2> QED BY <1>1, <2>1
<1>8. First(r, "state") => new.status = "temporary"
  BY <1>6
<1> HIDE DEF x, t
<1>9. /\ ~ Held(proc[p].todo) /\ proc' = [proc EXCEPT ![p] = [proc[p] EXCEPT !.todo = r, !.w = w, !.st = new]]
      /\ new.status \in {"active", "temporary"} /\ dirs' = dirs \cup {w}
  BY <1>1, <1>4, <1>6, <1>7 DEF x, t
<1> QED BY <1>2, <1>5, <1>6, <1>8, <1>9, NewDirectory

\* The steps of every operation, at its call.
LEMMA CallPlan ==
  ASSUME NEW m, NEW o \in Calls
  PROVE  LET t == Files(m)!Steps(o) IN
         /\ t \in Seq(Labels) /\ Good(t) /\ t # <<>> /\ ~ Held(t) /\ ~ Carries(t)
         /\ ~ First(t, "state") /\ ~ First(t, "index")
         /\ Named(t) => o \notin {"create", "new", "recover"}
         /\ Ahead(t, {"loadInput"}, {}) => o = "record"
         /\ Ahead(t, {"loadReactivate"}, {}) => o = "reactivate"
<1> DEFINE t == Files(m)!Steps(o)
<1>1. PICK l, F :
        /\ l \in Labels /\ l # "index" /\ Plan(t, l, F) /\ "held" \notin F /\ "carries" \notin F
        /\ "named" \in F => o \notin {"create", "new", "recover"}
        /\ "input" \in F => o = "record"
        /\ "reactivate" \in F => o = "reactivate"
  <2>0. "lock" \in Labels /\ "loadArchive" \in Labels /\ "loadReactivate" \in Labels /\ "loadResume" \in Labels
        /\ "layout" \in Labels /\ "readPrevious" \in Labels /\ "mendLatest" \in Labels
    BY DEF Labels, Using, Loading
  <2>1. CASE o = "record"
    <3>1. t = Files(m)!RecordSteps
      BY <2>1 DEF Files!Steps
    <3> HIDE DEF t
    <3>2. Plan(t, "lock", {"named", "input", "mild"})
      BY <3>1, RecordPlan
    <3> QED BY <2>0, <2>1, <3>2
  <2>2. CASE o = "compact"
    <3>1. t = Files(m)!CompactSteps
      BY <2>2 DEF Files!Steps
    <3> HIDE DEF t
    <3>2. Plan(t, "lock", {"named", "settles", "mild"})
      BY <3>1, CompactAlone
    <3> QED BY <2>0, <2>2, <3>2
  <2>3. CASE o = "archive"
    <3>1. t = Files(m)!ArchiveSteps
      BY <2>3 DEF Files!Steps
    <3> HIDE DEF t
    <3>2. Plan(t, "loadArchive", {"named", "settles"})
      BY <3>1, ArchiveAlone
    <3> QED BY <2>0, <2>3, <3>2
  <2>4. CASE o = "reactivate"
    <3>1. t = Files(m)!ReactivateSteps
      BY <2>4 DEF Files!Steps
    <3> HIDE DEF t
    <3>2. Plan(t, "loadReactivate", {"named", "reactivate"})
      BY <3>1, ReactivatePlan
    <3> QED BY <2>0, <2>4, <3>2
  <2>5. CASE o = "resume"
    <3>1. t = Files(m)!ResumeSteps
      BY <2>5 DEF Files!Steps
    <3> HIDE DEF t
    <3>2. Plan(t, "loadResume", {"named", "mild"})
      BY <3>1, ResumePlan
    <3> QED BY <2>0, <2>5, <3>2
  <2>6. CASE o = "create"
    <3>1. t = Files(m)!CreateSteps
      BY <2>6 DEF Files!Steps
    <3> HIDE DEF t
    <3>2. Plan(t, "layout", {"mild", "recover"})
      BY <3>1, CreatePlan
    <3> QED BY <2>0, <2>6, <3>2
  <2>7. CASE o = "new"
    <3>1. t = <<"readPrevious">>
      BY <2>7 DEF Files!Steps
    <3> HIDE DEF t
    <3>2. Plan(t, "readPrevious", {})
      BY <3>1, SinglePlans
    <3> QED BY <2>0, <2>7, <3>2
  <2>8. CASE o = "recover"
    <3>1. t = <<"mendLatest", "list">>
      BY <2>8 DEF Files!Steps
    <3> HIDE DEF t
    <3>2. Plan(t, "mendLatest", {"recover"})
      BY <3>1, MendPlan
    <3> QED BY <2>0, <2>8, <3>2
  <2> HIDE DEF t
  <2> QED BY <2>1, <2>2, <2>3, <2>4, <2>5, <2>6, <2>7, <2>8 DEF Calls
<1>2. l # "end"
  <2>1. l \in Labels
    BY <1>1
  <2> QED BY <2>1 DEF Labels, Using, Loading
<1> HIDE DEF t
<1>3. /\ t \in Seq(Labels) /\ Good(t) /\ t # <<>> /\ ~ Held(t) /\ ~ Carries(t) /\ ~ First(t, "index")
      /\ Named(t) => o \notin {"create", "new", "recover"}
      /\ Ahead(t, {"loadInput"}, {}) => o = "record"
      /\ Ahead(t, {"loadReactivate"}, {}) => o = "reactivate"
  BY <1>1, <1>2 DEF Plan, First
<1>4. ~ First(t, "state")
  BY <1>3, NextStep DEF First, Next1
<1> QED BY <1>3, <1>4 DEF t

\* The beginning of an operation keeps the invariant: its steps are well formed.
LEMMA CallKeeps ==
  ASSUME NEW m, Fit(m), FilesInv(m), NEW p \in m.procs, NEW o \in Calls,
         NEW w \in dirs \cup {0}, w = 0 => o \in {"create", "new", "recover"}, Files(m)!Call(p, o, w)
  PROVE  FilesInv(m)'
<1> DEFINE x == proc[p]  t == Files(m)!Steps(o)  i == IF o = "record" THEN inputs' ELSE 0
           y == [Files(m)!Idle EXCEPT !.op = o, !.todo = t, !.w = w, !.item = i]
<1>1. /\ x = Files(m)!Idle /\ inputs' = (IF o = "record" THEN inputs + 1 ELSE inputs)
      /\ proc' = [proc EXCEPT ![p] = y]
      /\ UNCHANGED <<dirs, state, archived, latest, index, lock, acked, stops>>
  BY DEF Files!Call, Files!None, Files!files
<1>2. Typed(m) /\ proc \in [m.procs -> Process] /\ inputs \in Nat
  BY DEF FilesInv, Typed
<1>3. inputs' \in Nat /\ inputs <= inputs' /\ i \in 0..inputs' /\ (o = "record" => i # 0)
  BY <1>1, <1>2
<1>4. Contents \subseteq Contents' /\ Process \subseteq Process' /\ SUBSET (1..inputs) \subseteq SUBSET (1..inputs')
  BY <1>1, <1>2, <1>3, Grows
<1>5. /\ t \in Seq(Labels) /\ Good(t) /\ t # <<>> /\ ~ Held(t) /\ ~ Carries(t) /\ ~ First(t, "state")
      /\ Named(t) => w # 0
      /\ Ahead(t, {"loadInput"}, {}) => o = "record"
      /\ Ahead(t, {"loadReactivate"}, {}) => o = "reactivate"
  BY CallPlan
<1> HIDE DEF t, i
<1>6. y \in Process' /\ y.op = o /\ y.todo = t /\ y.w = w /\ y.item = i
  <2>1. Files(m)!Idle \in Process'
    BY <1>2, <1>4, IdleTyped
  <2>2. w \in dirs' \cup {0} /\ o \in Calls \cup {"none", "fallback"}
    BY <1>1
  <2>3. t \in Seq(Labels) /\ i \in (0..inputs)'
    BY <1>3, <1>5
  <2> DEFINE J == 0..inputs  e == Files(m)!Idle
  <2>4. e \in Process' /\ i \in J'
    BY <2>1, <2>3
  <2> HIDE DEF J, e
  <2>5. Process = [op : Calls \cup {"none", "fallback"}, todo : Seq(Labels), w : dirs \cup {0}, st : Contents,
                   idx : SUBSET dirs, item : J, left : SUBSET dirs]
    BY DEF Process, J
  <2>6. Process' = [op : Calls \cup {"none", "fallback"}, todo : Seq(Labels), w : dirs' \cup {0}, st : Contents',
                    idx : SUBSET dirs', item : J', left : SUBSET dirs']
    BY DEF Process, J
  <2>7. y = [e EXCEPT !.op = o, !.todo = t, !.w = w, !.item = i]
    BY DEF e
  <2> HIDE DEF y
  <2> QED BY <2>2, <2>3, <2>4, <2>6, <2>7
<1> HIDE DEF y
<1>7. proc'[p] = y /\ ~ Held(x.todo)
  <2>1. x.todo = <<>>
    BY <1>1 DEF Files!Idle
  <2> QED BY <1>1, <1>2, <2>1, NothingAhead
<1>8. Typed(m)'
  <2>1. proc' \in [m.procs -> Process'] /\ state' \in [1..m.workspaces -> Contents']
        /\ archived' \in [1..m.workspaces -> SUBSET (1..inputs')]
    BY <1>1, <1>2, <1>4, <1>6 DEF Typed
  <2>2. acked' \subseteq (1..m.workspaces) \X (1..inputs')
    BY <1>1, <1>2, <1>3 DEF Typed
  <2>3. \A v \in 1..m.workspaces : state'[v] # Files(m)!NoFile \/ archived'[v] # {} => v \in dirs'
    BY <1>1, <1>2 DEF Typed
  <2> QED BY <1>1, <1>2, <1>3, <2>1, <2>2, <2>3 DEF Typed
<1>9. Placed(m, p)' /\ Faithful(p)'
  BY <1>3, <1>5, <1>6, <1>7 DEF Placed, Faithful
<1>10. \A v \in 1..m.workspaces : lock[v] # p
  BY <1>7 DEF FilesInv, Fit
<1>11. \A q \in m.procs \ {p} : Carries(proc[q].todo) /\ Fresh(q) =>
         /\ state'[proc[q].w] = state[proc[q].w] /\ archived'[proc[q].w] = archived[proc[q].w]
         /\ Carries(y.todo) => y.w # proc[q].w
  BY <1>1, <1>5, <1>6
<1>12. \A v \in 1..m.workspaces : lock'[v] = p => Held(y.todo) /\ y.w = v
  BY <1>1, <1>10
<1>13. \A q \in m.procs \ {p} : Held(proc[q].todo) /\ state[proc[q].w].status # "archived" =>
         state'[proc[q].w].status # "archived"
  BY <1>1
<1>14. /\ \A q \in m.procs \ {p}, v \in 1..m.workspaces : lock[v] = q => lock'[v] = q
       /\ \A q \in m.procs \ {p}, v \in 1..m.workspaces : lock'[v] = q => lock[v] = q
       /\ proc' = [proc EXCEPT ![p] = y]
  BY <1>1
<1> QED BY <1>8, <1>9, <1>11, <1>12, <1>13, <1>14, Moves

\* The death of a process, which frees its locks, keeps the invariant.
LEMMA CrashKeeps ==
  ASSUME NEW m, Fit(m), FilesInv(m), NEW p \in m.procs, Files(m)!Crash(p)
  PROVE  FilesInv(m)'
<1> DEFINE y == Files(m)!Idle
<1>1. /\ proc' = [proc EXCEPT ![p] = y] /\ stops' = stops + 1
      /\ lock' = [w \in 1..m.workspaces |-> IF lock[w] = p THEN 0 ELSE lock[w]]
      /\ UNCHANGED <<dirs, state, archived, latest, index, inputs, acked>>
  BY DEF Files!Crash, Files!files, Files!None, Files!Workspaces
<1>2. Typed(m) /\ proc \in [m.procs -> Process] /\ \A q \in m.procs : q # 0
  BY DEF FilesInv, Fit, Typed
<1>3. y \in Process /\ y.todo = <<>>
  BY <1>2, IdleTyped DEF Typed, Files!Idle
<1>4. proc'[p] = y
  BY <1>1, <1>2
<1> HIDE DEF y
<1>5. Typed(m)'
  <2>1. Contents' = Contents /\ Process' = Process
    BY <1>1 DEF Contents, Process
  <2>2. proc' \in [m.procs -> Process] /\ lock' \in [1..m.workspaces -> m.procs \cup {0}]
    BY <1>1, <1>2, <1>3 DEF Typed
  <2>3. \A v \in 1..m.workspaces : state'[v] # Files(m)!NoFile \/ archived'[v] # {} => v \in dirs'
    BY <1>1, <1>2 DEF Typed
  <2>4. stops' \in Nat
    BY <1>1, <1>2 DEF Typed
  <2> QED BY <1>1, <1>2, <2>1, <2>2, <2>3, <2>4 DEF Typed
<1>6. Placed(m, p)' /\ Faithful(p)'
  BY <1>3, <1>4, NothingAhead DEF Placed, Faithful, First, y
<1>7. /\ \A v \in 1..m.workspaces : lock'[v] # p
      /\ \A q \in m.procs \ {p}, v \in 1..m.workspaces : lock[v] = q => lock'[v] = q
      /\ \A q \in m.procs \ {p}, v \in 1..m.workspaces : lock'[v] = q => lock[v] = q
  BY <1>1, <1>2
<1>8. \A q \in m.procs \ {p} : Carries(proc[q].todo) /\ Fresh(q) =>
        /\ state'[proc[q].w] = state[proc[q].w] /\ archived'[proc[q].w] = archived[proc[q].w]
        /\ Carries(y.todo) => y.w # proc[q].w
  BY <1>1, <1>3, NothingAhead
<1>9. \A q \in m.procs \ {p} : Held(proc[q].todo) /\ state[proc[q].w].status # "archived" =>
        state'[proc[q].w].status # "archived"
  BY <1>1
<1> QED BY <1>1, <1>5, <1>6, <1>7, <1>8, <1>9, Moves

\* A failing recovery, which goes on with a temporary workspace, keeps the invariant.
LEMMA RecoveryFailsKeeps ==
  ASSUME NEW m, Fit(m), FilesInv(m), NEW p \in m.procs, Files(m)!RecoveryFails(p)
  PROVE  FilesInv(m)'
<1>1. /\ Files(m)!Abort(p) /\ stops' = stops + 1
      /\ UNCHANGED <<dirs, state, archived, latest, index, lock, inputs, acked>>
  BY DEF Files!RecoveryFails, Files!files
<1> QED BY <1>1, AbortKeeps

\* A file is damaged while every process rests.
LEMMA DamageIs ==
  ASSUME NEW m, Files(m)!Damage
  PROVE  /\ \A p \in m.procs : proc[p] = Files(m)!Idle
         /\ stops' = stops + 1 /\ UNCHANGED <<dirs, archived, lock, proc, inputs, acked>>
         /\ \/ UNCHANGED <<latest, index, broken>>
               /\ \E w \in 1..m.workspaces :
                    /\ state[w].status \in {"active", "archived", "temporary"}
                    /\ state' = [state EXCEPT ![w] = [status |-> "malformed", inputs |-> <<>>]]
            \/ latest' = 0 /\ UNCHANGED <<state, index>> /\ broken' = broken \cup {"latest"}
            \/ index' = {} /\ UNCHANGED <<state, latest>> /\ broken' = broken \cup {"index"}
BY DEF Files!Damage, Files!Loads, Files!Malformed, Files!Statuses, Files!None, Files!Workspaces

\* Damage to a file keeps the invariant.
LEMMA DamageKeeps ==
  ASSUME NEW m, Fit(m), FilesInv(m), Files(m)!Damage
  PROVE  FilesInv(m)'
<1>1. /\ \A p \in m.procs : proc[p] = Files(m)!Idle
      /\ stops' = stops + 1 /\ UNCHANGED <<dirs, archived, lock, proc, inputs, acked>>
  BY DamageIs
<1>2. Typed(m) /\ Contents' = Contents /\ Process' = Process
  BY <1>1 DEF FilesInv, Contents, Process
<1>3. Typed(m)'
  <2> DEFINE c == [status |-> "malformed", inputs |-> <<>>]
  <2>1. c \in Contents
    <3>1. <<>> \in Seq(1..inputs)
      BY EmptySeq
    <3> QED BY <3>1 DEF Contents
  <2> HIDE DEF c
  <2>2. ASSUME NEW w \in 1..m.workspaces, state[w].status \in {"active", "archived", "temporary"},
               state' = [state EXCEPT ![w] = c], UNCHANGED <<latest, index>>
        PROVE  Typed(m)'
    <3>1. w \in dirs
      BY <1>2, <2>2 DEF Typed, Files!NoFile
    <3>2. \A v \in 1..m.workspaces : v # w => state'[v] = state[v]
      BY <1>2, <2>2 DEF Typed
    <3>3. state' \in [1..m.workspaces -> Contents]
          /\ \A v \in 1..m.workspaces : state'[v] # Files(m)!NoFile \/ archived'[v] # {} => v \in dirs'
      BY <1>1, <1>2, <2>1, <2>2, <3>1, <3>2 DEF Typed
    <3> QED BY <1>1, <1>2, <2>2, <3>3 DEF Typed
  <2>3. ASSUME state' = state, latest' \in {latest, 0}, index' \in {index, {}} PROVE Typed(m)'
    BY <1>1, <1>2, <2>3 DEF Typed
  <2>4. \/ /\ UNCHANGED <<latest, index>>
           /\ \E w \in 1..m.workspaces : state[w].status \in {"active", "archived", "temporary"}
                                         /\ state' = [state EXCEPT ![w] = c]
        \/ state' = state /\ latest' \in {latest, 0} /\ index' \in {index, {}}
    BY DamageIs DEF c
  <2> QED BY <2>2, <2>3, <2>4
<1>4. ASSUME NEW p \in m.procs PROVE Placed(m, p)' /\ Faithful(p)'
  <2>1. Placed(m, p) /\ proc'[p] = proc[p] /\ lock' = lock
    BY <1>1 DEF FilesInv
  <2>2. proc[p].todo = <<>>
    BY <1>1 DEF Files!Idle
  <2>3. Placed(m, p)'
    BY <2>1, OtherPlaced DEF Placed
  <2>4. Faithful(p)'
    BY <2>1, <2>2, NothingAhead DEF Faithful
  <2> QED BY <2>3, <2>4
<1>5. \A v \in 1..m.workspaces : lock'[v] # 0 => Held(proc'[lock'[v]].todo) /\ proc'[lock'[v]].w = v
  BY <1>1 DEF FilesInv
<1> QED BY <1>3, <1>4, <1>5 DEF FilesInv

-----------------------------------------------------------------------------
(* The files, in every state.                                               *)

\* The invariant holds at first.
LEMMA FilesInit ==
  ASSUME NEW m, Fit(m), Files(m)!Init, dirs \subseteq 1..m.workspaces
  PROVE  FilesInv(m)
<1> DEFINE new == [status |-> "active", inputs |-> <<>>]  no == Files(m)!NoFile
<1>1. /\ state = [w \in 1..m.workspaces |-> IF w \in dirs THEN new ELSE no]
      /\ archived = [w \in 1..m.workspaces |-> {}] /\ latest = (IF dirs = {} THEN 0 ELSE 1) /\ index = dirs
      /\ lock = [w \in 1..m.workspaces |-> 0] /\ proc = [p \in m.procs |-> Files(m)!Idle]
      /\ inputs = 0 /\ acked = {} /\ stops = 0 /\ dirs \in {{}, {1}}
  BY DEF Files!Init, Files!Workspaces, Files!None
<1>2. new \in Contents /\ no \in Contents /\ Files(m)!Idle \in Process /\ Files(m)!Idle.todo = <<>>
  <2>1. <<>> \in Seq(1..inputs) /\ inputs \in Nat
    BY <1>1, EmptySeq
  <2>2. new \in Contents
    BY <2>1 DEF Contents
  <2> QED BY <2>1, <2>2, IdleTyped DEF Files!Idle
<1> HIDE DEF new, no
<1>3. Typed(m)
  <2>1. state \in [1..m.workspaces -> Contents] /\ archived \in [1..m.workspaces -> SUBSET (1..inputs)]
        /\ lock \in [1..m.workspaces -> m.procs \cup {0}] /\ proc \in [m.procs -> Process]
    BY <1>1, <1>2
  <2>2. \A w \in 1..m.workspaces : state[w] # no \/ archived[w] # {} => w \in dirs
    BY <1>1
  <2>3. latest \in dirs \cup {0} /\ index \subseteq dirs /\ acked \subseteq (1..m.workspaces) \X (1..inputs)
        /\ inputs \in Nat /\ stops \in Nat
    BY <1>1
  <2> QED BY <2>1, <2>2, <2>3 DEF Typed, no
<1>4. ASSUME NEW p \in m.procs PROVE Placed(m, p) /\ Faithful(p)
  BY <1>1, <1>2, NothingAhead DEF Placed, Faithful, First
<1>5. \A w \in 1..m.workspaces : lock[w] = 0
  BY <1>1
<1> QED BY <1>3, <1>4, <1>5 DEF FilesInv

\* The invariant survives a step that changes none of the files and processes.
LEMMA FilesSame ==
  ASSUME NEW m, FilesInv(m), UNCHANGED Files(m)!vars
  PROVE  FilesInv(m)'
<1>1. UNCHANGED <<dirs, state, archived, latest, index, lock, proc, inputs, acked, stops>>
  BY DEF Files!vars, Files!files
<1>2. Contents' = Contents /\ Process' = Process
  BY <1>1 DEF Contents, Process
<1>3. Typed(m)'
  BY <1>1, <1>2 DEF FilesInv, Typed
<1>4. \A p \in m.procs : Placed(m, p)' /\ Faithful(p)'
  BY <1>1 DEF FilesInv, Placed, Faithful, Fresh
<1> QED BY <1>1, <1>3, <1>4 DEF FilesInv

\* Every step of an operation keeps the invariant.
LEMMA ProcessStep ==
  ASSUME NEW m, Fit(m), FilesInv(m), NEW p \in m.procs, Files(m)!Step(p)
  PROVE  FilesInv(m)'
<1>1. ASSUME \/ Files(m)!TakeLock(p) \/ Files(m)!Retain(p) \/ Files(m)!SaveState(p) \/ Files(m)!ReadIndex(p)
             \/ Files(m)!WriteIndex(p)
      PROVE  FilesInv(m)'
  BY <1>1, TakeLockKeeps, RetainKeeps, SaveStateKeeps, IndexSteps
<1>2. ASSUME \/ Files(m)!SaveLatest(p) \/ Files(m)!ClearOwn(p) \/ Files(m)!ClearLatest(p) \/ Files(m)!MendLatest(p)
             \/ Files(m)!Unlock(p)
      PROVE  FilesInv(m)'
  BY <1>2, PointerSteps, UnlockKeeps
<1>3. ASSUME \/ Files(m)!LoadForInput(p) \/ Files(m)!LoadForCompaction(p) \/ Files(m)!LoadToArchive(p)
             \/ Files(m)!LoadToReactivate(p) \/ Files(m)!LoadToResume(p)
      PROVE  FilesInv(m)'
  BY <1>3, LoadSteps
<1>4. ASSUME \/ Files(m)!ReadPrevious(p) \/ Files(m)!ReadLatest(p) \/ Files(m)!LoadLatest(p) \/ Files(m)!Select(p)
             \/ Files(m)!ListDirectories(p) \/ Files(m)!Probe(p) \/ Files(m)!NoWorkspaceLeft(p)
      PROVE  FilesInv(m)'
  BY <1>4, ChoiceSteps
<1>5. ASSUME Files(m)!Layout(p) \/ Files(m)!Quarantine(p) \/ Files(m)!Temporary(p) PROVE FilesInv(m)'
  BY <1>5, LayoutKeeps, QuarantineKeeps, TemporaryKeeps
<1> QED BY <1>1, <1>2, <1>3, <1>4, <1>5 DEF Files!Step

\* The invariant is inductive.
LEMMA FilesStep ==
  ASSUME NEW m, Fit(m), FilesInv(m), [Files(m)!Next]_(Files(m)!vars)
  PROVE  FilesInv(m)'
<1>1. ASSUME NEW p \in m.procs, NEW o \in m.operations, NEW w \in dirs, Files(m)!Call(p, o, w) PROVE FilesInv(m)'
  <2>1. o \in Calls /\ w \in dirs \cup {0} /\ w # 0
    BY DEF Fit, FilesInv, Typed
  <2> QED BY <1>1, <2>1, CallKeeps
<1>2. ASSUME NEW p \in m.procs, NEW o \in m.operations \cap {"create", "new", "recover"}, Files(m)!Call(p, o, 0)
      PROVE  FilesInv(m)'
  <2>1. o \in Calls /\ 0 \in dirs \cup {0} /\ o \in {"create", "new", "recover"}
    BY DEF Fit
  <2> QED BY <1>2, <2>1, CallKeeps
<1>3. ASSUME NEW p \in m.procs, Files(m)!Step(p) PROVE FilesInv(m)'
  BY <1>3, ProcessStep
<1>4. ASSUME NEW p \in m.procs, Files(m)!Crash(p) \/ Files(m)!RecoveryFails(p) PROVE FilesInv(m)'
  BY <1>4, CrashKeeps, RecoveryFailsKeeps
<1>5. ASSUME Files(m)!Damage PROVE FilesInv(m)'
  BY <1>5, DamageKeeps
<1>6. ASSUME Files(m)!Next PROVE FilesInv(m)'
  <2>1. \/ \E p \in m.procs, o \in m.operations, w \in dirs : Files(m)!Call(p, o, w)
        \/ \E p \in m.procs, o \in m.operations \cap {"create", "new", "recover"} : Files(m)!Call(p, o, 0)
        \/ \E p \in m.procs : Files(m)!Step(p) \/ Files(m)!Crash(p) \/ Files(m)!RecoveryFails(p)
        \/ Files(m)!Damage
    BY <1>6 DEF Files!Next, Files!None
  <2> QED BY <2>1, <1>1, <1>2, <1>3, <1>4, <1>5
<1> QED BY <1>6, FilesSame

\* The two files that the workspaces share.
Shared == {"latest", "index"}

\* The invariant types the state as the specification does.
LEMMA FilesTyped ==
  ASSUME NEW m, Fit(m), FilesInv(m), broken \subseteq Shared
  PROVE  Files(m)!TypeOK
<1>1. Typed(m)
  BY DEF FilesInv
<1>2. ASSUME NEW w \in 1..m.workspaces
      PROVE  /\ state[w].status \in {"none", "malformed", "active", "archived", "temporary"}
             /\ state[w] # Files(m)!NoFile => w \in dirs
             /\ lock[w] # 0 => lock[w] \in m.procs /\ proc[lock[w]].w = w
             /\ archived[w] \subseteq 1..inputs
  BY <1>1 DEF Typed, Contents, FilesInv
<1>3. broken \subseteq {"latest", "index"}
  BY DEF Shared
<1> QED BY <1>1, <1>2, <1>3 DEF Typed, Files!TypeOK, Files!Workspaces, Files!None, Files!Statuses

\* Who writes the state file of a workspace, and what becomes of the shared files.
LEMMA StateWriters ==
  ASSUME NEW m, Fit(m), FilesInv(m), [Files(m)!Next]_(Files(m)!vars)
  PROVE  /\ \/ state' = state
            \/ \E p \in m.procs : Files(m)!SaveState(p) \/ Files(m)!Quarantine(p)
            \/ Files(m)!Damage
         /\ broken \subseteq Shared => broken' \subseteq Shared
<1>1. ASSUME NEW p \in m.procs, Files(m)!Step(p)
      PROVE  state' = state \/ Files(m)!SaveState(p) \/ Files(m)!Quarantine(p)
  BY <1>1 DEF Files!Step, Files!TakeLock, Files!Retain, Files!ReadIndex, Files!WriteIndex, Files!SaveLatest,
     Files!ClearOwn, Files!Unlock, Files!LoadForInput, Files!LoadForCompaction, Files!LoadToArchive,
     Files!LoadToReactivate, Files!LoadToResume, Files!Load, Files!Layout, Files!ReadPrevious, Files!ReadLatest,
     Files!LoadLatest, Files!ClearLatest, Files!Select, Files!MendLatest, Files!ListDirectories, Files!Probe,
     Files!Temporary, Files!NoWorkspaceLeft, Files!files
<1>2. ASSUME NEW p \in m.procs, Files(m)!Step(p) PROVE broken' \subseteq broken
  BY <1>2 DEF Files!Step, Files!TakeLock, Files!Retain, Files!ReadIndex, Files!WriteIndex, Files!SaveLatest,
     Files!SaveState, Files!Quarantine,
     Files!ClearOwn, Files!Unlock, Files!LoadForInput, Files!LoadForCompaction, Files!LoadToArchive,
     Files!LoadToReactivate, Files!LoadToResume, Files!Load, Files!Layout, Files!ReadPrevious, Files!ReadLatest,
     Files!LoadLatest, Files!ClearLatest, Files!Select, Files!MendLatest, Files!ListDirectories, Files!Probe,
     Files!Temporary, Files!NoWorkspaceLeft, Files!files
<1>3. ASSUME NEW p, NEW o, NEW w, Files(m)!Call(p, o, w) PROVE state' = state /\ broken' = broken
  BY <1>3 DEF Files!Call, Files!files
<1>4. ASSUME NEW p, Files(m)!Crash(p) \/ Files(m)!RecoveryFails(p) PROVE state' = state /\ broken' = broken
  BY <1>4 DEF Files!Crash, Files!RecoveryFails, Files!files
<1>5. ASSUME Files(m)!Damage, broken \subseteq Shared PROVE broken' \subseteq Shared
  BY <1>5, DamageIs DEF Shared
<1>6. ASSUME UNCHANGED Files(m)!vars PROVE state' = state /\ broken' = broken
  BY <1>6 DEF Files!vars, Files!files
<1> QED BY <1>1, <1>2, <1>3, <1>4, <1>5, <1>6 DEF Files!Next

\* No step but a reactivation makes an archived workspace active.
LEMMA ArchiveStep ==
  ASSUME NEW m, Fit(m), FilesInv(m), [Files(m)!Next]_(Files(m)!vars), NEW w \in 1..m.workspaces
  PROVE  Files(m)!ArchiveKept(w)
<1> SUFFICES ASSUME state[w].status = "archived", state'[w].status = "active"
             PROVE  \E p \in m.procs : proc[p].op = "reactivate" /\ proc[p].w = w /\ Files(m)!At(p, "state")
  BY DEF Files!ArchiveKept
<1>1. state \in [1..m.workspaces -> Contents]
  BY DEF FilesInv, Typed
<1>2. ASSUME Files(m)!Damage PROVE FALSE
  <2>1. \/ state' = state
        \/ \E v \in 1..m.workspaces : state' = [state EXCEPT ![v] = [status |-> "malformed", inputs |-> <<>>]]
    BY <1>2, DamageIs
  <2>2. ASSUME NEW v \in 1..m.workspaces, state' = [state EXCEPT ![v] = [status |-> "malformed", inputs |-> <<>>]]
        PROVE  FALSE
    <3>1. CASE v = w
      BY <1>1, <2>2, <3>1
    <3>2. CASE v # w
      BY <1>1, <2>2, <3>2
    <3> QED BY <3>1, <3>2
  <2> QED BY <2>1, <2>2
<1>3. ASSUME NEW p \in m.procs, Files(m)!Quarantine(p) PROVE FALSE
  BY <1>1, <1>3 DEF Files!Quarantine, Files!NoFile
<1>4. ASSUME NEW p \in m.procs, Files(m)!SaveState(p)
      PROVE  proc[p].op = "reactivate" /\ proc[p].w = w /\ Files(m)!At(p, "state")
  <2>1. Files(m)!At(p, "state") /\ state' = [state EXCEPT ![proc[p].w] = proc[p].st]
    BY <1>4 DEF Files!SaveState
  <2>2. proc[p].w = w /\ proc[p].st.status = "active"
    BY <1>1, <2>1
  <2>3. Carries(proc[p].todo) /\ Faithful(p)
    BY <2>1, AtStep DEF Next1
  <2> QED BY <2>1, <2>2, <2>3 DEF Faithful, Fresh
<1> QED BY <1>2, <1>3, <1>4, StateWriters

-----------------------------------------------------------------------------
(* Operations that load under the lock what they save: inputs are kept.     *)

\* The elements of a sequence, in the module and here.
LEMMA SameElements == ASSUME NEW m, NEW s PROVE Files(m)!Elements(s) = Elems(s)
BY DEF Files!Elements, Elems

\* A process that has something to save or to name knows its workspace.
LEMMA Working ==
  ASSUME NEW m, Fit(m), KeptInv(m), NEW q \in m.procs,
         \/ Carries(proc[q].todo) \/ Publishes(proc[q].todo) \/ Held(proc[q].todo)
         \/ proc[q].item # 0
  PROVE  proc[q].w \in 1..m.workspaces /\ proc[q].w # 0
<1> DEFINE x == proc[q]  t == x.todo  r == Tail(t)
<1>1. x \in Process /\ Placed(m, q) /\ Keeps(m, q) /\ dirs \subseteq 1..m.workspaces
  BY DEF KeptInv, FilesInv, Typed
<1>2. CASE x.item # 0 \/ Held(t)
  BY <1>1, <1>2 DEF Keeps, Process, Placed
<1>3. CASE Carries(t) \/ Publishes(t)
  <2>1. t \in Seq(Labels) /\ t # <<>>
    BY <1>1, <1>3, NothingAhead DEF Process
  <2>2. Next1(Head(t), t, r)
    BY <1>1, <2>1, NextStep DEF Placed
  <2>3. Head(t) \in MildSteps
    BY <1>1, <2>1, LabelsTail DEF Keeps
  <2>4. Head(t) # "layout"
    BY <1>3, <2>2 DEF Next1, Rule, Loading
  <2>5. Named(t)
    BY <2>2, <2>3, <2>4 DEF Next1, MildSteps, Using, Naming, Loading
  <2> QED BY <1>1, <2>5 DEF Placed, Process
<1> QED BY <1>2, <1>3

\* p takes a step: what is kept, and what the others keep.
LEMMA KeptMoves ==
  ASSUME NEW m, Fit(m), KeptInv(m), FilesInv(m)', NEW p \in m.procs, NEW y,
         proc' = [proc EXCEPT ![p] = y], Keeps(m, p)',
         \A v \in 1..m.workspaces :
           /\ Files(m)!Kept(v) \subseteq Files(m)!Kept(v)' /\ archived[v] \subseteq archived'[v]
           /\ state[v] # Files(m)!NoFile => state'[v] # Files(m)!NoFile,
         \A q \in m.procs \ {p} : Carries(proc[q].todo) /\ Fresh(q) =>
           /\ state'[proc[q].w] = state[proc[q].w] /\ archived'[proc[q].w] = archived[proc[q].w]
           /\ Carries(y.todo) => y.w # proc[q].w,
         \A q \in m.procs \ {p} : Held(proc[q].todo) =>
           state'[proc[q].w] = state[proc[q].w] /\ archived'[proc[q].w] = archived[proc[q].w],
         Files(m)!AcknowledgedInputsAreKept', Files(m)!LatestWasSaved'
  PROVE  KeptInv(m)'
<1>1. ASSUME NEW q \in m.procs \ {p} PROVE Keeps(m, q)'
  <2> DEFINE x == proc[q]  t == x.todo  w == x.w
  <2>1. /\ proc'[q] = x /\ proc'[p] = y /\ DOMAIN proc' = m.procs /\ DOMAIN proc = m.procs
        /\ \A o \in m.procs \ {p} : proc'[o] = proc[o]
    BY DEF KeptInv, FilesInv, Typed
  <2>2. Keeps(m, q)
    BY DEF KeptInv
  <2>3. Carries(t) \/ Publishes(t) \/ Held(t) \/ x.item # 0 => w \in 1..m.workspaces
    BY Working
  <2>4. ASSUME Carries(t), Fresh(q) PROVE Fresh(q)'
    <3>1. ASSUME NEW o \in m.procs \ {q}, Carries(proc'[o].todo) PROVE proc'[o].w # w
      <4>1. CASE o = p
        BY <2>1, <2>4, <3>1, <4>1
      <4>2. CASE o # p
        BY <2>1, <2>4, <3>1, <4>2 DEF Fresh
      <4> QED BY <4>1, <4>2
    <3>2. state'[w] = state[w] /\ archived'[w] = archived[w]
      BY <2>4
    <3> QED BY <2>1, <2>4, <3>1, <3>2 DEF Fresh
  <2> DEFINE carried == Elems(x.st.inputs) \cup archived[w]
             next == Elems(x.st.inputs) \cup archived'[w]
  <2>5. ASSUME Carries(t) PROVE Fresh(q)' \/ (Held(t) /\ Files(m)!Kept(w)' \subseteq next)
    <3>1. CASE Fresh(q)
      BY <2>4, <2>5, <3>1
    <3>2. CASE ~ Fresh(q)
      <4>1. Held(t) /\ Files(m)!Kept(w) \subseteq carried
        BY <2>2, <2>5, <3>2 DEF Keeps
      <4>2. state'[w] = state[w] /\ archived'[w] = archived[w]
        BY <4>1
      <4>3. Files(m)!Kept(w)' = Files(m)!Kept(w)
        BY <4>2 DEF Files!Kept
      <4> QED BY <4>1, <4>2, <4>3
    <3> QED BY <3>1, <3>2
  <2>6. ASSUME x.item # 0, ~ Ahead(t, {"loadInput"}, {})
        PROVE  x.item \in (IF Carries(t) THEN next ELSE Files(m)!Kept(w)')
    <3>1. x.item \in (IF Carries(t) THEN carried ELSE Files(m)!Kept(w)) /\ w \in 1..m.workspaces
      BY <2>2, <2>3, <2>6 DEF Keeps
    <3>2. carried \subseteq next /\ Files(m)!Kept(w) \subseteq Files(m)!Kept(w)'
      BY <3>1
    <3> HIDE DEF carried, next
    <3> QED BY <3>1, <3>2
  <2>7. ASSUME Publishes(t) PROVE state'[w] # Files(m)!NoFile
    BY <2>2, <2>3, <2>7 DEF Keeps
  <2>8. /\ \A i \in 1..Len(t) : t[i] \in MildSteps
        /\ x.item # 0 => w # 0 /\ \A i \in 1..Len(t) : t[i] # "layout"
        /\ x.op \in Mild \cup {"none"} /\ (First(t, "state") => Held(t))
    BY <2>2 DEF Keeps
  <2>9. Elems(proc'[q].st.inputs) \cup archived'[proc'[q].w] = next
    BY <2>1
  <2> HIDE DEF next
  <2> QED BY <2>1, <2>5, <2>6, <2>7, <2>8, <2>9 DEF Keeps
<1> QED BY <1>1 DEF KeptInv

\* A step that leaves the states and the archives as they are.
LEMMA KeptQuiet ==
  ASSUME NEW m, Fit(m), KeptInv(m), FilesInv(m)', NEW p \in m.procs, NEW y,
         proc' = [proc EXCEPT ![p] = y], Keeps(m, p)', UNCHANGED <<state, archived, acked>>,
         latest' # 0 => latest' = latest \/ state[latest'] # Files(m)!NoFile,
         Carries(y.todo) => \/ Carries(proc[p].todo) /\ y.w = proc[p].w
                            \/ y.w \notin dirs \cup {0}
                            \/ state[y.w].status # "none"
  PROVE  KeptInv(m)'
<1>1. \A v : Files(m)!Kept(v)' = Files(m)!Kept(v)
  BY DEF Files!Kept
<1>2. ASSUME NEW q \in m.procs \ {p}, Carries(proc[q].todo), Fresh(q), Carries(y.todo)
      PROVE  y.w # proc[q].w
  <2>1. p \in DOMAIN proc \ {q} /\ proc[q].w \in dirs \cup {0}
    BY DEF KeptInv, FilesInv, Typed, Process
  <2> QED BY <1>2, <2>1 DEF Fresh
<1>3. Files(m)!AcknowledgedInputsAreKept'
  BY <1>1 DEF KeptInv, Files!AcknowledgedInputsAreKept
<1>4. Files(m)!LatestWasSaved'
  BY DEF KeptInv, Files!LatestWasSaved, Files!None
<1> QED BY <1>1, <1>2, <1>3, <1>4, KeptMoves

\* A process with nothing to do, or with its lock to release.
LEMMA Resting ==
  ASSUME NEW t, t = <<>> \/ t = <<"unlock">>
  PROVE  ~ Carries(t) /\ ~ Publishes(t) /\ ~ First(t, "state") /\ \A i \in 1..Len(t) : t[i] \in MildSteps
<1>1. CASE t = <<>>
  <2>1. Len(t) = 0
    BY <1>1
  <2> QED BY <1>1, <2>1, NothingAhead DEF First
<1>2. CASE t = <<"unlock">>
  <2>1. Plan(<<"unlock">>, "unlock", {"held", "named", "settles", "mild", "recover"})
    BY SinglePlans
  <2> QED BY <1>2, <2>1 DEF Plan, First
<1> QED BY <1>1, <1>2

\* Ending an operation early, by an error or a death, loses no acknowledged input.
LEMMA KeptAbort ==
  ASSUME NEW m, Fit(m), KeptInv(m), FilesInv(m)', NEW p \in m.procs,
         Files(m)!Abort(p) \/ proc' = [proc EXCEPT ![p] = Files(m)!Idle],
         UNCHANGED <<state, archived, acked>>,
         latest' # 0 => latest' = latest \/ state[latest'] # Files(m)!NoFile
  PROVE  KeptInv(m)'
<1> DEFINE y == proc'[p]
<1>1. proc \in [m.procs -> Process] /\ proc[p] \in Process
  BY DEF KeptInv, FilesInv, Typed
<1>0. proc[p].op \in Mild \cup {"none"} /\ proc[p].op # "recover"
  BY DEF KeptInv, Keeps, Mild
<1>2. (y.todo = <<>> \/ y.todo = <<"unlock">>) /\ y.item = 0 /\ y.op \in Mild \cup {"none"}
      /\ proc' = [proc EXCEPT ![p] = y]
  <2>1. CASE proc' = [proc EXCEPT ![p] = Files(m)!Idle]
    BY <1>1, <2>1 DEF Files!Idle, Files!None
  <2>2. CASE Files(m)!Abort(p)
    <3> DEFINE t == (IF Files(m)!Locking(p) THEN <<"unlock">> ELSE <<>>) \o Files(m)!Rescue(p)
               z == IF t = <<>> THEN Files(m)!Idle
                    ELSE [proc[p] EXCEPT !.op = proc[p].op, !.todo = t, !.item = 0]
    <3>1. proc' = [proc EXCEPT ![p] = z]
      BY <1>0, <2>2 DEF Files!Abort, Files!None
    <3>2. t = <<>> \/ t = <<"unlock">>
      <4>1. t = (IF Files(m)!Locking(p) THEN <<"unlock">> ELSE <<>>)
        <5>1. Files(m)!Rescue(p) = <<>>
          BY <1>0 DEF Files!Rescue
        <5>2. <<"unlock">> \in Seq(Labels) /\ <<>> \in Seq(Labels)
          BY SinglePlans, NothingAhead DEF Plan
        <5> QED BY <5>1, <5>2, ConcatEmptySeq
      <4> HIDE DEF t
      <4> QED BY <4>1
    <3> HIDE DEF t
    <3>3. (z.todo = <<>> \/ z.todo = <<"unlock">>) /\ z.item = 0 /\ z.op \in Mild \cup {"none"}
      BY <1>0, <1>1, <3>2 DEF Process, Files!Idle, Files!None
    <3> HIDE DEF z
    <3> QED BY <1>1, <3>1, <3>3
  <2> QED BY <2>1, <2>2
<1>3. ~ Carries(y.todo) /\ ~ Publishes(y.todo) /\ ~ First(y.todo, "state") /\ \A i \in 1..Len(y.todo) : y.todo[i] \in MildSteps
  BY <1>2, Resting
<1>4. Keeps(m, p)'
  BY <1>2, <1>3 DEF Keeps
<1> HIDE DEF y
<1> QED BY <1>2, <1>3, <1>4, KeptQuiet

\* A process that goes on with what it has loaded.
LEMMA KeptOn ==
  ASSUME NEW m, Fit(m), KeptInv(m), FilesInv(m)', NEW p \in m.procs,
         NEW l \in {"lock", "readIndex", "index", "latest"}, Files(m)!At(p, l), NEW y,
         proc' = [proc EXCEPT ![p] = y], y.op = proc[p].op, y.w = proc[p].w, y.item = proc[p].item, y.st = proc[p].st,
         y.todo = Tail(proc[p].todo), UNCHANGED <<state, archived, acked>>,
         latest' # 0 => latest' = latest \/ state[latest'] # Files(m)!NoFile
  PROVE  KeptInv(m)'
<1> DEFINE x == proc[p]  t == x.todo  r == Tail(t)  w == x.w
           carried == Elems(x.st.inputs) \cup archived[w]
<1>1. FilesInv(m) /\ Keeps(m, p) /\ DOMAIN proc = m.procs
  BY DEF KeptInv, FilesInv, Typed
<1>2. Next1(l, t, r)
  BY <1>1, AtStep
<1>3. /\ Carries(t) <=> Carries(r)
      /\ Held(t) => Held(r)
      /\ Publishes(r) => Publishes(t)
      /\ Ahead(t, {"loadInput"}, {}) <=> Ahead(r, {"loadInput"}, {})
  BY <1>2 DEF Next1, Loading
<1>0. y.op \in Mild \cup {"none"} /\ (First(r, "state") => Held(r))
  BY <1>1, <1>2 DEF Next1, Rule, Keeps
<1>4. /\ \A i \in 1..Len(r) : r[i] \in MildSteps
      /\ x.item # 0 => w # 0 /\ \A i \in 1..Len(r) : r[i] # "layout"
  <2>1. t \in Seq(Labels) /\ t # <<>>
    BY <1>2 DEF Next1
  <2>2. \A i \in 1..Len(r) : r[i] \in MildSteps
    BY <1>1, <2>1, LabelsTail DEF Keeps
  <2>3. ASSUME x.item # 0 PROVE w # 0 /\ \A i \in 1..Len(r) : r[i] # "layout"
    <3>1. w # 0 /\ \A i \in 1..Len(t) : t[i] # "layout"
      BY <1>1, <2>3 DEF Keeps
    <3> QED BY <2>1, <3>1, TailIs
  <2> QED BY <2>2, <2>3
<1> HIDE DEF r
<1>5. y.todo = r /\ proc'[p] = y /\ DOMAIN proc' = m.procs /\ \A q \in m.procs \ {p} : proc'[q] = proc[q]
  BY <1>1 DEF r
<1>6. Carries(r) => Fresh(p)' \/ (Held(r) /\ Files(m)!Kept(y.w)' \subseteq Elems(y.st.inputs) \cup archived'[y.w])
  <2> SUFFICES ASSUME Carries(r)
               PROVE  Fresh(p)' \/ (Held(r) /\ Files(m)!Kept(y.w)' \subseteq Elems(y.st.inputs) \cup archived'[y.w])
    OBVIOUS
  <2>1. Fresh(p) \/ (Held(t) /\ Files(m)!Kept(w) \subseteq carried)
    BY <1>1, <1>3 DEF Keeps
  <2>2. CASE Fresh(p)
    BY <1>1, <1>5, <2>2 DEF Fresh
  <2>3. CASE Held(t) /\ Files(m)!Kept(w) \subseteq carried
    BY <1>3, <2>3 DEF Files!Kept
  <2> QED BY <2>1, <2>2, <2>3
<1>7. y.item # 0 /\ ~ Ahead(r, {"loadInput"}, {}) =>
        y.item \in (IF Carries(r) THEN Elems(y.st.inputs) \cup archived'[y.w] ELSE Files(m)!Kept(y.w)')
  <2> SUFFICES ASSUME y.item # 0, ~ Ahead(r, {"loadInput"}, {})
               PROVE  y.item \in (IF Carries(r) THEN carried ELSE Files(m)!Kept(w))
    BY DEF Files!Kept
  <2> HIDE DEF carried
  <2>1. x.item \in (IF Carries(t) THEN carried ELSE Files(m)!Kept(w))
    BY <1>1, <1>3 DEF Keeps, carried
  <2> QED BY <1>3, <2>1
<1>8. Publishes(r) => state'[y.w] # Files(m)!NoFile
  BY <1>1, <1>3 DEF Keeps
<1>9. Keeps(m, p)'
  BY <1>0, <1>4, <1>5, <1>6, <1>7, <1>8 DEF Keeps
<1>10. Carries(y.todo) => Carries(proc[p].todo) /\ y.w = proc[p].w
  BY <1>3, <1>5
<1> QED BY <1>9, <1>10, KeptQuiet

\* Steps that leave states, archives and acknowledgements alone lose no input.
LEMMA KeptPass ==
  ASSUME NEW m, Fit(m), KeptInv(m), FilesInv(m)', NEW p \in m.procs,
         \/ Files(m)!TakeLock(p) \/ Files(m)!ReadIndex(p) \/ Files(m)!WriteIndex(p) \/ Files(m)!SaveLatest(p)
  PROVE  KeptInv(m)'
<1> DEFINE x == proc[p]  t == x.todo  r == Tail(t)
<1>1. FilesInv(m) /\ Keeps(m, p)
  BY DEF KeptInv
<1>2. CASE Files(m)!TakeLock(p)
  <2>1. Files(m)!At(p, "lock") /\ UNCHANGED <<state, archived, latest, acked>>
    BY <1>2 DEF Files!TakeLock, Files!files
  <2>2. Next1("lock", t, r) /\ Files(m)!Done(p) = (IF r = <<>> THEN Files(m)!Idle ELSE [x EXCEPT !.todo = r])
        /\ x \in Process
    BY <1>1, <2>1, AtStep
  <2>3. CASE lock[x.w] = 0
    <3> DEFINE y == [x EXCEPT !.todo = r]
    <3>1. r # <<>>
      BY <2>2 DEF Next1, Rule, Brief
    <3>2. proc' = [proc EXCEPT ![p] = y]
      BY <1>2, <2>2, <2>3, <3>1 DEF Files!TakeLock, Files!Continue, Files!None
    <3> HIDE DEF r
    <3>3. y.op = x.op /\ y.w = x.w /\ y.item = x.item /\ y.st = x.st /\ y.todo = r
      BY <2>2 DEF Process
    <3> HIDE DEF y
    <3> QED BY <2>1, <3>2, <3>3, KeptOn DEF r
  <2>4. CASE lock[x.w] # 0
    <3>1. Files(m)!Abort(p)
      BY <1>2, <2>4 DEF Files!TakeLock, Files!None
    <3> QED BY <2>1, <3>1, KeptAbort
  <2> QED BY <2>3, <2>4
<1>3. ASSUME NEW l \in {"readIndex", "index"}, Files(m)!At(p, l), NEW i,
             proc' = [proc EXCEPT ![p] = [Files(m)!Done(p) EXCEPT !.idx = i]],
             UNCHANGED <<state, archived, latest, acked>>,
             l = "index" => i = {}
      PROVE  KeptInv(m)'
  <2>1. Next1(l, t, r) /\ Files(m)!Done(p) = (IF r = <<>> THEN Files(m)!Idle ELSE [x EXCEPT !.todo = r])
        /\ x \in Process
    BY <1>1, <1>3, AtStep
  <2>2. CASE r = <<>>
    <3>1. l = "index"
      BY <1>3, <2>1, <2>2 DEF Next1, Rule, Brief
    <3>2. [Files(m)!Idle EXCEPT !.idx = {}] = Files(m)!Idle
      BY DEF Files!Idle
    <3>3. proc' = [proc EXCEPT ![p] = Files(m)!Idle]
      BY <1>3, <2>1, <2>2, <3>1, <3>2
    <3> QED BY <1>3, <3>3, KeptAbort
  <2>3. CASE r # <<>>
    <3> DEFINE y == [[x EXCEPT !.todo = r] EXCEPT !.idx = i]
    <3>1. proc' = [proc EXCEPT ![p] = y]
      BY <1>3, <2>1, <2>3
    <3> HIDE DEF r
    <3>2. y.op = x.op /\ y.w = x.w /\ y.item = x.item /\ y.st = x.st /\ y.todo = r
      BY <2>1 DEF Process
    <3> HIDE DEF y
    <3> QED BY <1>3, <3>1, <3>2, KeptOn DEF r
  <2> QED BY <2>2, <2>3
<1>4. CASE Files(m)!ReadIndex(p)
  <2>1. /\ Files(m)!At(p, "readIndex") /\ UNCHANGED <<state, archived, latest, acked>>
        /\ \/ Files(m)!Abort(p)
           \/ proc' = [proc EXCEPT ![p] = [Files(m)!Done(p) EXCEPT !.idx = Files(m)!Indexed(p)]]
    BY <1>4 DEF Files!ReadIndex, Files!files
  <2>2. CASE Files(m)!Abort(p)
    BY <2>1, <2>2, KeptAbort
  <2>3. CASE proc' = [proc EXCEPT ![p] = [Files(m)!Done(p) EXCEPT !.idx = Files(m)!Indexed(p)]]
    BY <1>3, <2>1, <2>3
  <2> QED BY <2>1, <2>2, <2>3
<1>5. CASE Files(m)!WriteIndex(p)
  <2>1. /\ Files(m)!At(p, "index") /\ UNCHANGED <<state, archived, latest, acked>>
        /\ proc' = [proc EXCEPT ![p] = [Files(m)!Done(p) EXCEPT !.idx = {}]]
    BY <1>5 DEF Files!WriteIndex
  <2> QED BY <1>3, <2>1
<1>6. CASE Files(m)!SaveLatest(p)
  <2>1. Files(m)!At(p, "latest") /\ UNCHANGED <<state, archived, acked>> /\ latest' = x.w
        /\ Files(m)!Continue(p)
    BY <1>6 DEF Files!SaveLatest
  <2>2. Next1("latest", t, r) /\ Files(m)!Done(p) = (IF r = <<>> THEN Files(m)!Idle ELSE [x EXCEPT !.todo = r])
        /\ x \in Process
    BY <1>1, <2>1, AtStep
  <2>3. state[x.w] # Files(m)!NoFile
    BY <1>1, <2>2 DEF Next1, Keeps
  <2>4. CASE r = <<>>
    <3>1. proc' = [proc EXCEPT ![p] = Files(m)!Idle]
      BY <2>1, <2>2, <2>4 DEF Files!Continue
    <3> QED BY <2>1, <2>3, <3>1, KeptAbort
  <2>5. CASE r # <<>>
    <3> DEFINE y == [x EXCEPT !.todo = r]
    <3>1. proc' = [proc EXCEPT ![p] = y]
      BY <2>1, <2>2, <2>5 DEF Files!Continue
    <3> HIDE DEF r
    <3>2. y.op = x.op /\ y.w = x.w /\ y.item = x.item /\ y.st = x.st /\ y.todo = r
      BY <2>2 DEF Process
    <3> HIDE DEF y
    <3> QED BY <2>1, <2>3, <3>1, <3>2, KeptOn DEF r
  <2> QED BY <2>4, <2>5
<1> QED BY <1>2, <1>4, <1>5, <1>6

\* What an operation loads under the lock has what was kept.
LEMMA KeptLoaded ==
  ASSUME NEW m, Fit(m), KeptInv(m), FilesInv(m)', NEW p \in m.procs,
         NEW l \in {"loadInput", "loadCompact", "loadResume"}, NEW required \in SUBSET {"active", "archived", "temporary"}, NEW st,
         Files(m)!Load(p, l, required, st),
         Elems(state[proc[p].w].inputs) \subseteq Elems(st.inputs),
         l = "loadInput" => proc[p].item \in Elems(st.inputs)
  PROVE  KeptInv(m)'
<1> DEFINE x == proc[p]  t == x.todo  r == Tail(t)  w == x.w
<1>1. FilesInv(m) /\ Keeps(m, p) /\ DOMAIN proc = m.procs
  BY DEF KeptInv, FilesInv, Typed
<1>2. Files(m)!At(p, l) /\ UNCHANGED <<dirs, state, archived, latest, acked>>
  BY DEF Files!Load, Files!files
<1>3. CASE state[w].status \notin required
  <2>1. Files(m)!Abort(p)
    BY <1>3 DEF Files!Load
  <2> QED BY <1>2, <2>1, KeptAbort
<1>4. CASE state[w].status \in required
  <2> DEFINE y == [[x EXCEPT !.todo = r] EXCEPT !.st = st]
  <2>1. Next1(l, t, r) /\ Files(m)!Done(p) = (IF r = <<>> THEN Files(m)!Idle ELSE [x EXCEPT !.todo = r])
        /\ x \in Process
    BY <1>1, <1>2, AtStep
  <2>2. r # <<>>
    BY <2>1 DEF Next1, Rule, Brief
  <2>3. proc' = [proc EXCEPT ![p] = y]
    BY <1>4, <2>1, <2>2 DEF Files!Load, Files!Loaded
  <2>4. /\ ~ Carries(t)
        /\ Carries(r) => Held(r)
        /\ l = "loadInput" => Carries(r)
        /\ Publishes(r) => Publishes(t) \/ l = "loadResume"
        /\ Ahead(t, {"loadInput"}, {}) <=> l = "loadInput" \/ Ahead(r, {"loadInput"}, {})
        /\ x.op \in Mild \cup {"none"} /\ (First(r, "state") => Held(r))
    BY <1>1, <2>1 DEF Next1, Rule, Loading, Keeps
  <2>5. /\ \A i \in 1..Len(r) : r[i] \in MildSteps
        /\ x.item # 0 => w # 0 /\ \A i \in 1..Len(r) : r[i] # "layout"
    <3>1. t \in Seq(Labels) /\ t # <<>>
      BY <2>1 DEF Next1
    <3>2. \A i \in 1..Len(r) : r[i] \in MildSteps
      BY <1>1, <3>1, LabelsTail DEF Keeps
    <3>3. ASSUME x.item # 0 PROVE w # 0 /\ \A i \in 1..Len(r) : r[i] # "layout"
      <4>1. w # 0 /\ \A i \in 1..Len(t) : t[i] # "layout"
        BY <1>1, <3>3 DEF Keeps
      <4> QED BY <3>1, <4>1, TailIs
    <3> QED BY <3>2, <3>3
  <2> HIDE DEF r
  <2>20. y.op = x.op /\ y.w = w /\ y.item = x.item /\ y.st = st /\ y.todo = r
    BY <2>1 DEF Process
  <2> HIDE DEF y
  <2>21. PICK z : z = y
    OBVIOUS
  <2>6. z.op = x.op /\ z.w = w /\ z.item = x.item /\ z.st = st /\ z.todo = r
    BY <2>20, <2>21
  <2>7. proc'[p] = z /\ proc' = [proc EXCEPT ![p] = z]
    BY <1>1, <2>3, <2>21
  <2>8. Files(m)!Kept(w) \subseteq Elems(st.inputs) \cup archived[w]
        /\ Files(m)!Kept(z.w)' = Files(m)!Kept(w)
    BY <1>2, <2>6, SameElements DEF Files!Kept
  <2>9. z.item # 0 /\ ~ Ahead(r, {"loadInput"}, {}) =>
          z.item \in (IF Carries(r) THEN Elems(z.st.inputs) \cup archived'[z.w] ELSE Files(m)!Kept(w))
    <3> SUFFICES ASSUME x.item # 0, ~ Ahead(r, {"loadInput"}, {})
                 PROVE  x.item \in (IF Carries(r) THEN Elems(st.inputs) \cup archived[w] ELSE Files(m)!Kept(w))
      BY <1>2, <2>6
    <3>1. CASE l = "loadInput"
      BY <2>4, <3>1
    <3>2. CASE l # "loadInput"
      <4>1. x.item \in Files(m)!Kept(w)
        BY <1>1, <2>4, <3>2 DEF Keeps
      <4> QED BY <2>8, <4>1
    <3> QED BY <3>1, <3>2
  <2>10. Publishes(r) => state'[z.w] # Files(m)!NoFile
    BY <1>1, <1>2, <1>4, <2>4, <2>6 DEF Keeps, Files!NoFile
  <2>11. Keeps(m, p)'
    <3>1. Files(m)!Kept(z.w)' \subseteq Elems(z.st.inputs) \cup archived'[z.w]
      BY <1>2, <2>6, <2>8
    <3> QED BY <2>4, <2>5, <2>6, <2>7, <2>8, <2>9, <2>10, <3>1 DEF Keeps
  <2>12. state[z.w].status # "none"
    BY <1>4, <2>6
  <2> QED BY <1>2, <2>7, <2>11, <2>12, KeptQuiet
<1> QED BY <1>3, <1>4

\* Trimming under the lock moves inputs from the state in hand to the archive.
LEMMA KeptRetain ==
  ASSUME NEW m, Fit(m), KeptInv(m), FilesInv(m)', NEW p \in m.procs, Files(m)!Retain(p)
  PROVE  KeptInv(m)'
<1> DEFINE x == proc[p]  t == x.todo  r == Tail(t)  w == x.w  s == x.st.inputs  n == Files(m)!Excess(s)
           kept == SubSeq(s, n + 1, Len(s))  out == Files(m)!Elements(SubSeq(s, 1, n))
           y == [[x EXCEPT !.todo = r] EXCEPT !.st.inputs = kept]
           carried == Elems(s) \cup archived[w]  now == Elems(kept) \cup (archived[w] \cup out)
<1>1. FilesInv(m) /\ Keeps(m, p) /\ DOMAIN proc = m.procs /\ DOMAIN archived = 1..m.workspaces
  BY DEF KeptInv, FilesInv, Typed
<1>2. Files(m)!At(p, "retain") /\ UNCHANGED <<dirs, state, latest, acked>>
      /\ archived' = [archived EXCEPT ![w] = archived[w] \cup out]
  BY DEF Files!Retain
<1>3. Next1("retain", t, r) /\ Files(m)!Done(p) = (IF r = <<>> THEN Files(m)!Idle ELSE [x EXCEPT !.todo = r])
      /\ x \in Process
  BY <1>1, <1>2, AtStep
<1>4. r # <<>> /\ Carries(t) /\ Carries(r) /\ Held(t) /\ Held(r) /\ (Publishes(r) <=> Publishes(t))
      /\ (Ahead(t, {"loadInput"}, {}) <=> Ahead(r, {"loadInput"}, {}))
      /\ x.op \in Mild \cup {"none"} /\ (First(r, "state") => Held(r))
  BY <1>1, <1>3 DEF Next1, Rule, Brief, Loading, Keeps
<1>5. proc' = [proc EXCEPT ![p] = y]
  <2> HIDE DEF kept
  <2> QED BY <1>3, <1>4 DEF Files!Retain, kept
<1>6. w \in 1..m.workspaces
  BY <1>4, Working
<1>7. /\ Elems(s) \subseteq Elems(kept) \cup out
      /\ s = <<>> => kept = <<>> /\ out = {}
  <2>1. s \in Seq(1..inputs)
    BY <1>3 DEF Process, Contents
  <2>2. \A i \in DOMAIN s : s[i] \in Files(m)!Elements(kept) \cup out
    BY <2>1, Trimmed
  <2>3. s = <<>> => kept = <<>> /\ out = {}
    BY <2>1, Trimmed
  <2> HIDE DEF kept, out
  <2> QED BY <2>2, <2>3, SameElements DEF Elems
<1>8. /\ \A i \in 1..Len(r) : r[i] \in MildSteps
      /\ x.item # 0 => w # 0 /\ \A i \in 1..Len(r) : r[i] # "layout"
  <2>1. t \in Seq(Labels) /\ t # <<>>
    BY <1>3 DEF Next1
  <2>2. \A i \in 1..Len(r) : r[i] \in MildSteps
    BY <1>1, <2>1, LabelsTail DEF Keeps
  <2>3. ASSUME x.item # 0 PROVE w # 0 /\ \A i \in 1..Len(r) : r[i] # "layout"
    <3>1. w # 0 /\ \A i \in 1..Len(t) : t[i] # "layout"
      BY <1>1, <2>3 DEF Keeps
    <3> QED BY <2>1, <3>1, TailIs
  <2> QED BY <2>2, <2>3
<1> HIDE DEF r, kept, out
<1>9. y.op = x.op /\ y.w = w /\ y.item = x.item /\ y.todo = r /\ y.st.inputs = kept /\ y.st.status = x.st.status
      /\ (kept = s => y.st = x.st)
  <2>1. x.st \in Contents
    BY <1>3 DEF Process
  <2>2. y.st = [x.st EXCEPT !.inputs = kept]
    BY <1>3 DEF Process
  <2>3. kept = s => [x.st EXCEPT !.inputs = kept] = x.st
    BY <2>1 DEF Contents
  <2> QED BY <1>3, <2>1, <2>2, <2>3 DEF Process, Contents
<1> HIDE DEF y
<1>10. PICK z : z = y
  OBVIOUS
<1>11. proc' = [proc EXCEPT ![p] = z] /\ proc'[p] = z /\ z.op = x.op /\ z.w = w /\ z.item = x.item /\ z.todo = r
       /\ z.st.inputs = kept /\ (kept = s => z.st = x.st)
       /\ DOMAIN proc' = m.procs /\ \A q \in m.procs \ {p} : proc'[q] = proc[q]
  BY <1>1, <1>5, <1>9, <1>10
<1>12. /\ archived'[w] = archived[w] \cup out
       /\ \A v \in 1..m.workspaces : v # w => archived'[v] = archived[v]
       /\ \A v \in 1..m.workspaces : archived[v] \subseteq archived'[v]
  BY <1>1, <1>2, <1>6
<1>13. \A v \in 1..m.workspaces : Files(m)!Kept(v) \subseteq Files(m)!Kept(v)'
  BY <1>2, <1>12 DEF Files!Kept
<1>14. carried \subseteq now /\ Elems(z.st.inputs) \cup archived'[z.w] = now
  BY <1>7, <1>11, <1>12
<1>15. Fresh(p)' \/ Files(m)!Kept(z.w)' \subseteq now
  <2>1. Fresh(p) \/ Files(m)!Kept(w) \subseteq carried
    BY <1>1, <1>4 DEF Keeps
  <2>2. ASSUME Fresh(p) PROVE Fresh(p)'
    <3>1. s = <<>>
      BY <2>2 DEF Fresh
    <3>2. z.st = x.st /\ archived'[w] = archived[w]
      BY <1>7, <1>11, <1>12, <3>1
    <3> QED BY <1>1, <1>2, <1>11, <2>2, <3>2 DEF Fresh
  <2>3. ASSUME Files(m)!Kept(w) \subseteq carried PROVE Files(m)!Kept(z.w)' \subseteq now
    <3>1. Files(m)!Kept(z.w)' = Files(m)!Kept(w) \cup out
      BY <1>2, <1>11, <1>12 DEF Files!Kept
    <3> HIDE DEF carried
    <3> QED BY <1>14, <2>3, <3>1 DEF now
  <2> QED BY <2>1, <2>2, <2>3
<1>16. z.item # 0 /\ ~ Ahead(r, {"loadInput"}, {}) => z.item \in now
  <2> SUFFICES ASSUME x.item # 0, ~ Ahead(r, {"loadInput"}, {}) PROVE x.item \in now
    BY <1>11
  <2>1. x.item \in carried
    BY <1>1, <1>4 DEF Keeps
  <2> HIDE DEF carried, now
  <2> QED BY <1>14, <2>1
<1>17. Publishes(r) => state'[z.w] # Files(m)!NoFile
  BY <1>1, <1>2, <1>4, <1>11 DEF Keeps
<1>18. Keeps(m, p)'
  <2> HIDE DEF now
  <2> QED BY <1>4, <1>8, <1>11, <1>14, <1>15, <1>16, <1>17 DEF Keeps
<1>19. ASSUME NEW q \in m.procs \ {p}, Carries(proc[q].todo), Fresh(q)
       PROVE  /\ state'[proc[q].w] = state[proc[q].w] /\ archived'[proc[q].w] = archived[proc[q].w]
              /\ z.w # proc[q].w
  <2>1. w # proc[q].w
    BY <1>1, <1>4, <1>19 DEF Fresh
  <2>2. proc[q].w \in 1..m.workspaces
    BY <1>19, Working
  <2> QED BY <1>2, <1>11, <1>12, <2>1, <2>2
<1>20. ASSUME NEW q \in m.procs \ {p}, Held(proc[q].todo)
       PROVE  state'[proc[q].w] = state[proc[q].w] /\ archived'[proc[q].w] = archived[proc[q].w]
  <2>1. lock[w] = p /\ lock[proc[q].w] = q
    BY <1>1, <1>4, <1>20 DEF FilesInv, Placed
  <2>2. proc[q].w \in 1..m.workspaces
    BY <1>20, Working
  <2> QED BY <1>2, <1>12, <2>1, <2>2
<1>21. Files(m)!AcknowledgedInputsAreKept'
  <2>1. \A a \in acked : a[2] \in Files(m)!Kept(a[1]) /\ a[1] \in 1..m.workspaces
    BY DEF KeptInv, FilesInv, Typed, Files!AcknowledgedInputsAreKept
  <2> QED BY <1>2, <1>13, <2>1 DEF Files!AcknowledgedInputsAreKept
<1>22. Files(m)!LatestWasSaved'
  BY <1>2 DEF KeptInv, Files!LatestWasSaved
<1> QED BY <1>2, <1>11, <1>12, <1>13, <1>18, <1>19, <1>20, <1>21, <1>22, KeptMoves

\* A saved state has every input that the file had, or the archive has it.
LEMMA KeptSave ==
  ASSUME NEW m, Fit(m), KeptInv(m), FilesInv(m)', NEW p \in m.procs, Files(m)!SaveState(p)
  PROVE  KeptInv(m)'
<1> DEFINE x == proc[p]  t == x.todo  r == Tail(t)  w == x.w  none == Files(m)!NoFile
           y == [[x EXCEPT !.todo = r] EXCEPT !.st = none]
           carried == Elems(x.st.inputs) \cup archived[w]
<1>1. FilesInv(m) /\ Keeps(m, p) /\ DOMAIN proc = m.procs /\ DOMAIN state = 1..m.workspaces
  BY DEF KeptInv, FilesInv, Typed
<1>2. Files(m)!At(p, "state") /\ UNCHANGED <<dirs, archived, latest, acked>>
      /\ state' = [state EXCEPT ![w] = x.st]
  BY DEF Files!SaveState
<1>3. Next1("state", t, r) /\ Files(m)!Done(p) = (IF r = <<>> THEN Files(m)!Idle ELSE [x EXCEPT !.todo = r])
      /\ x \in Process /\ Placed(m, p)
  BY <1>1, <1>2, AtStep
<1>4. r # <<>> /\ Carries(t) /\ ~ Carries(r) /\ Held(t)
      /\ (Ahead(t, {"loadInput"}, {}) <=> Ahead(r, {"loadInput"}, {}))
      /\ x.op \in Mild \cup {"none"} /\ ~ First(r, "state")
  BY <1>1, <1>3 DEF Next1, Rule, Brief, First, Keeps
<1>5. proc' = [proc EXCEPT ![p] = y]
  BY <1>3, <1>4 DEF Files!SaveState
<1>6. w \in 1..m.workspaces /\ x.st # none
  <2>1. x.st.status \in {"active", "archived", "temporary"}
    BY <1>3, <1>4 DEF Placed
  <2> QED BY <1>4, <2>1, Working DEF Files!NoFile
<1>7. /\ \A i \in 1..Len(r) : r[i] \in MildSteps
      /\ x.item # 0 => w # 0 /\ \A i \in 1..Len(r) : r[i] # "layout"
  <2>1. t \in Seq(Labels) /\ t # <<>>
    BY <1>3 DEF Next1
  <2>2. \A i \in 1..Len(r) : r[i] \in MildSteps
    BY <1>1, <2>1, LabelsTail DEF Keeps
  <2>3. ASSUME x.item # 0 PROVE w # 0 /\ \A i \in 1..Len(r) : r[i] # "layout"
    <3>1. w # 0 /\ \A i \in 1..Len(t) : t[i] # "layout"
      BY <1>1, <2>3 DEF Keeps
    <3> QED BY <2>1, <3>1, TailIs
  <2> QED BY <2>2, <2>3
<1> HIDE DEF r, none
<1>8. y.op = x.op /\ y.w = w /\ y.item = x.item /\ y.todo = r
  BY <1>3 DEF Process
<1> HIDE DEF y
<1>9. PICK z : z = y
  OBVIOUS
<1>10. proc' = [proc EXCEPT ![p] = z] /\ proc'[p] = z /\ z.op = x.op /\ z.w = w /\ z.item = x.item /\ z.todo = r
  BY <1>1, <1>5, <1>8, <1>9
<1>11. /\ state'[w] = x.st /\ \A v \in 1..m.workspaces : v # w => state'[v] = state[v]
       /\ \A v \in 1..m.workspaces : state[v] # none => state'[v] # none
  BY <1>1, <1>2, <1>6
<1>12. Files(m)!Kept(z.w)' = carried /\ Files(m)!Kept(w) \subseteq carried
  <2>1. Files(m)!Kept(z.w)' = carried
    BY <1>2, <1>10, <1>11, SameElements DEF Files!Kept
  <2>2. CASE Fresh(p)
    <3>1. Files(m)!Elements(<<>>) = {}
      BY DEF Files!Elements
    <3> QED BY <2>1, <2>2, <3>1 DEF Fresh, Files!Kept
  <2>3. CASE ~ Fresh(p)
    BY <1>1, <1>4, <2>1, <2>3 DEF Keeps
  <2> QED BY <2>2, <2>3
<1>13. \A v \in 1..m.workspaces : Files(m)!Kept(v) \subseteq Files(m)!Kept(v)'
  <2> TAKE v \in 1..m.workspaces
  <2>1. CASE v = w
    BY <1>10, <1>12, <2>1
  <2>2. CASE v # w
    BY <1>2, <1>11, <2>2 DEF Files!Kept
  <2> QED BY <2>1, <2>2
<1>14. z.item # 0 /\ ~ Ahead(r, {"loadInput"}, {}) => z.item \in Files(m)!Kept(z.w)'
  <2> SUFFICES ASSUME x.item # 0, ~ Ahead(r, {"loadInput"}, {}) PROVE x.item \in carried
    BY <1>10, <1>12
  <2> QED BY <1>1, <1>4 DEF Keeps
<1>15. Keeps(m, p)'
  BY <1>4, <1>6, <1>7, <1>10, <1>11, <1>14 DEF Keeps, none
<1>16. ASSUME NEW q \in m.procs \ {p}, Carries(proc[q].todo), Fresh(q)
       PROVE  state'[proc[q].w] = state[proc[q].w] /\ archived'[proc[q].w] = archived[proc[q].w]
  <2>1. w # proc[q].w
    BY <1>1, <1>4, <1>16 DEF Fresh
  <2>2. proc[q].w \in 1..m.workspaces
    BY <1>16, Working
  <2> QED BY <1>2, <1>11, <2>1, <2>2
<1>17. ASSUME NEW q \in m.procs \ {p}, Held(proc[q].todo)
       PROVE  state'[proc[q].w] = state[proc[q].w] /\ archived'[proc[q].w] = archived[proc[q].w]
  <2>1. lock[w] = p /\ lock[proc[q].w] = q
    BY <1>1, <1>4, <1>17 DEF FilesInv, Placed
  <2>2. proc[q].w \in 1..m.workspaces
    BY <1>17, Working
  <2> QED BY <1>2, <1>11, <2>1, <2>2
<1>18. Files(m)!AcknowledgedInputsAreKept'
  <2>1. \A a \in acked : a[2] \in Files(m)!Kept(a[1]) /\ a[1] \in 1..m.workspaces
    BY DEF KeptInv, FilesInv, Typed, Files!AcknowledgedInputsAreKept
  <2> QED BY <1>2, <1>13, <2>1 DEF Files!AcknowledgedInputsAreKept
<1>19. Files(m)!LatestWasSaved'
  <2>1. latest # 0 => state[latest] # none /\ latest \in 1..m.workspaces
    BY DEF KeptInv, FilesInv, Typed, Files!LatestWasSaved, Files!None, none
  <2> QED BY <1>2, <1>11, <2>1 DEF Files!LatestWasSaved, Files!None, none
<1>20. \A v \in 1..m.workspaces : archived[v] \subseteq archived'[v]
  BY <1>2
<1>21. ~ Carries(z.todo)
  BY <1>4, <1>10
<1> QED BY <1>10, <1>11, <1>13, <1>15, <1>16, <1>17, <1>18, <1>19, <1>20, <1>21, KeptMoves DEF none

\* An input is acknowledged when it is in the file or in the archive.
LEMMA KeptUnlock ==
  ASSUME NEW m, Fit(m), KeptInv(m), FilesInv(m)', NEW p \in m.procs, Files(m)!Unlock(p)
  PROVE  KeptInv(m)'
<1> DEFINE x == proc[p]  t == x.todo  r == Tail(t)  w == x.w
           y == IF r = <<>> THEN Files(m)!Idle ELSE [[x EXCEPT !.todo = r] EXCEPT !.item = 0]
<1>1. FilesInv(m) /\ Keeps(m, p) /\ DOMAIN proc = m.procs
  BY DEF KeptInv, FilesInv, Typed
<1>2. Files(m)!At(p, "unlock") /\ UNCHANGED <<dirs, state, archived, latest>>
      /\ acked' = (IF x.item = 0 THEN acked ELSE acked \cup {<<w, x.item>>})
  BY DEF Files!Unlock, Files!files, Files!None
<1>3. Next1("unlock", t, r) /\ Files(m)!Done(p) = (IF r = <<>> THEN Files(m)!Idle ELSE [x EXCEPT !.todo = r])
      /\ x \in Process
  BY <1>1, <1>2, AtStep
<1>4. ~ Carries(r) /\ ~ Carries(t) /\ ~ Ahead(t, {"loadInput"}, {}) /\ (Publishes(r) => Publishes(t))
      /\ x.op \in Mild \cup {"none"} /\ (First(r, "state") => Held(r))
  BY <1>1, <1>3 DEF Next1, Rule, Loading, Keeps
<1>5. proc' = [proc EXCEPT ![p] = y]
  <2>1. [Files(m)!Done(p) EXCEPT !.item = 0] = y
    <3>1. CASE r = <<>>
      <4>1. \A f \in Process : f.item = 0 => [f EXCEPT !.item = 0] = f
        BY DEF Process
      <4>2. Files(m)!Idle.item = 0 /\ Files(m)!Idle \in Process
        BY <1>1, IdleTyped DEF FilesInv, Typed, Files!Idle, Files!None
      <4> QED BY <1>3, <3>1, <4>1, <4>2
    <3>2. CASE r # <<>>
      BY <1>3, <3>2
    <3> QED BY <3>1, <3>2
  <2> HIDE DEF y
  <2> QED BY <2>1 DEF Files!Unlock, Files!None
<1>6. \A i \in 1..Len(r) : r[i] \in MildSteps
  <2>1. t \in Seq(Labels) /\ t # <<>>
    BY <1>3 DEF Next1
  <2> QED BY <1>1, <2>1, LabelsTail DEF Keeps
<1> HIDE DEF r
<1>7. y.op \in Mild \cup {"none"} /\ y.item = 0 /\ y.todo = r /\ (r # <<>> => y.w = w)
  <2>1. CASE r = <<>>
    BY <2>1 DEF Files!Idle, Files!None
  <2>2. CASE r # <<>>
    BY <1>3, <1>4, <2>2 DEF Process
  <2> QED BY <2>1, <2>2
<1> HIDE DEF y
<1>8. PICK z : z = y
  OBVIOUS
<1>9. /\ proc' = [proc EXCEPT ![p] = z] /\ proc'[p] = z /\ z.item = 0 /\ z.todo = r /\ (r # <<>> => z.w = w)
      /\ z.op \in Mild \cup {"none"}
  BY <1>1, <1>5, <1>7, <1>8
<1>10. Publishes(r) => state'[z.w] # Files(m)!NoFile
  BY <1>1, <1>2, <1>4, <1>9, NothingAhead DEF Keeps
<1>11. Keeps(m, p)'
  BY <1>4, <1>6, <1>9, <1>10 DEF Keeps
<1>12. \A v : Files(m)!Kept(v)' = Files(m)!Kept(v)
  BY <1>2 DEF Files!Kept
<1>13. Files(m)!AcknowledgedInputsAreKept'
  <2>1. \A a \in acked : a[2] \in Files(m)!Kept(a[1])
    BY DEF KeptInv, Files!AcknowledgedInputsAreKept
  <2>2. x.item # 0 => x.item \in Files(m)!Kept(w)
    BY <1>1, <1>4 DEF Keeps
  <2> QED BY <1>2, <1>12, <2>1, <2>2 DEF Files!AcknowledgedInputsAreKept
<1>14. Files(m)!LatestWasSaved'
  BY <1>2 DEF KeptInv, Files!LatestWasSaved
<1>15. ~ Carries(z.todo)
  BY <1>4, <1>9
<1> QED BY <1>2, <1>9, <1>11, <1>12, <1>13, <1>14, <1>15, KeptMoves

\* A new directory has no inputs to lose.
LEMMA KeptLayout ==
  ASSUME NEW m, Fit(m), KeptInv(m), FilesInv(m)', NEW p \in m.procs, Files(m)!Layout(p)
  PROVE  KeptInv(m)'
<1> DEFINE x == proc[p]  t == x.todo  r == Tail(t)  new == [status |-> "active", inputs |-> <<>>]
<1>1. FilesInv(m) /\ Keeps(m, p) /\ DOMAIN proc = m.procs /\ Typed(m) /\ proc \in [m.procs -> Process]
  BY DEF KeptInv, FilesInv, Typed
<1>2. PICK w \in (1..m.workspaces) \ dirs :
        /\ dirs' = dirs \cup {w}
        /\ proc' = [proc EXCEPT ![p] = [Files(m)!Done(p) EXCEPT !.w = w, !.st = new]]
  BY DEF Files!Layout, Files!Workspaces
<1>3. Files(m)!At(p, "layout") /\ UNCHANGED <<state, archived, latest, acked>>
  BY DEF Files!Layout
<1>4. Next1("layout", t, r) /\ Files(m)!Done(p) = (IF r = <<>> THEN Files(m)!Idle ELSE [x EXCEPT !.todo = r])
      /\ x \in Process
  BY <1>1, <1>3, AtStep
<1>5. r # <<>> /\ ~ Publishes(r) /\ t \in Seq(Labels) /\ t # <<>> /\ Head(t) = "layout"
      /\ x.op \in Mild \cup {"none"} /\ (First(r, "state") => Held(r))
  BY <1>1, <1>4 DEF Next1, Rule, Brief, Keeps
<1>6. \A i \in 1..Len(r) : r[i] \in MildSteps
  BY <1>1, <1>5, LabelsTail DEF Keeps
<1>7. x.item = 0
  <2>1. t[1] = "layout" /\ 1 \in 1..Len(t)
    BY <1>5, TailIs
  <2> QED BY <1>1, <2>1 DEF Keeps
<1> DEFINE y == [[x EXCEPT !.todo = r] EXCEPT !.w = w, !.st = new]
<1>8. proc' = [proc EXCEPT ![p] = y]
  BY <1>2, <1>4, <1>5
<1> HIDE DEF r, new
<1>9. y.op = x.op /\ y.w = w /\ y.item = 0 /\ y.todo = r /\ y.st = new
  BY <1>4, <1>7 DEF Process
<1> HIDE DEF y
<1>10. PICK z : z = y
  OBVIOUS
<1>11. proc' = [proc EXCEPT ![p] = z] /\ proc'[p] = z /\ z.op = x.op /\ z.w = w /\ z.item = 0 /\ z.todo = r /\ z.st = new
       /\ DOMAIN proc' = m.procs /\ \A q \in m.procs \ {p} : proc'[q] = proc[q]
  BY <1>1, <1>8, <1>9, <1>10
<1>12. Fresh(p)'
  <2>1. \A q \in m.procs : proc[q].w # w
    BY <1>1 DEF Typed, Process
  <2>2. state[w] = Files(m)!NoFile /\ archived[w] = {}
    BY <1>1 DEF Typed
  <2>3. \A q \in DOMAIN proc' \ {p} : Carries(proc'[q].todo) => proc'[q].w # proc'[p].w
    BY <1>11, <2>1
  <2> QED BY <1>3, <1>11, <2>2, <2>3 DEF Fresh, new, Files!NoFile
<1>13. Keeps(m, p)'
  BY <1>5, <1>6, <1>11, <1>12 DEF Keeps
<1>14. z.w \notin dirs \cup {0}
  BY <1>11
<1> QED BY <1>3, <1>11, <1>13, <1>14, KeptQuiet

\* What holds of an operation at its call.
LEMMA MildCall ==
  ASSUME NEW m, NEW o \in Mild
  PROVE  LET t == Files(m)!Steps(o) IN
         /\ \A i \in 1..Len(t) : t[i] \in MildSteps
         /\ ~ Carries(t) /\ ~ Publishes(t) /\ ~ First(t, "state")
         /\ o = "record" => Ahead(t, {"loadInput"}, {}) /\ \A i \in 1..Len(t) : t[i] # "layout"
<1> DEFINE t == Files(m)!Steps(o)
<1>1. CASE o = "record"
  <2>1. t = Files(m)!RecordSteps
    BY <1>1 DEF Files!Steps
  <2> DEFINE S == Labels \ {"layout"}
  <2>2. "lock" \in S /\ "loadInput" \in S /\ "retain" \in S /\ "state" \in S /\ "readIndex" \in S
        /\ "index" \in S /\ "latest" \in S /\ "unlock" \in S
    BY DEF Labels, Using, Loading
  <2>3. \A l \in S : l # "layout"
    OBVIOUS
  <2> HIDE DEF S
  <2>4. <<"lock", "loadInput", "retain">> \in Seq(S) /\ Files(m)!SaveSteps \in Seq(S)
        /\ <<"latest", "unlock">> \in Seq(S)
    BY <2>2, Three, Two DEF Files!SaveSteps
  <2>5. \A a, b, c \in Seq(S) : (a \o b) \o c \in Seq(S)
    BY Joined DEF Join
  <2>6. t \in Seq(S)
    BY <2>1, <2>4, <2>5 DEF Files!RecordSteps
  <2> HIDE DEF t
  <2>7. Plan(t, "lock", {"named", "input", "mild"})
    BY <2>1, RecordPlan
  <2>8. \A i \in 1..Len(t) : t[i] \in S
    BY <2>6, ElementOfSeq
  <2> QED BY <2>3, <2>7, <2>8 DEF Plan, First, t
<1>2. CASE o = "compact"
  <2>1. t = Files(m)!CompactSteps
    BY <1>2 DEF Files!Steps
  <2> HIDE DEF t
  <2>2. Plan(t, "lock", {"named", "settles", "mild"})
    BY <2>1, CompactAlone
  <2> QED BY <1>2, <2>2 DEF Plan, First, t
<1>3. CASE o = "resume"
  <2>1. t = Files(m)!ResumeSteps
    BY <1>3 DEF Files!Steps
  <2> HIDE DEF t
  <2>2. Plan(t, "loadResume", {"named", "mild"})
    BY <2>1, ResumePlan
  <2> QED BY <1>3, <2>2 DEF Plan, First, t
<1>4. CASE o = "create"
  <2>1. t = Files(m)!CreateSteps
    BY <1>4 DEF Files!Steps
  <2> HIDE DEF t
  <2>2. Plan(t, "layout", {"mild", "recover"})
    BY <2>1, CreatePlan
  <2> QED BY <1>4, <2>2 DEF Plan, First, t
<1> QED BY <1>1, <1>2, <1>3, <1>4 DEF Mild

\* A mild operation begins with nothing in hand.
LEMMA KeptCall ==
  ASSUME NEW m, Fit(m), KeptInv(m), FilesInv(m)', NEW p \in m.procs, NEW o \in Mild,
         NEW w \in dirs \cup {0}, w = 0 => o # "record", Files(m)!Call(p, o, w)
  PROVE  KeptInv(m)'
<1> DEFINE t == Files(m)!Steps(o)  i == IF o = "record" THEN inputs' ELSE 0
           y == [Files(m)!Idle EXCEPT !.op = o, !.todo = t, !.w = w, !.item = i]
<1>1. DOMAIN proc = m.procs
  BY DEF KeptInv, FilesInv, Typed
<1>2. /\ proc' = [proc EXCEPT ![p] = y] /\ UNCHANGED <<state, archived, latest, acked>>
  BY DEF Files!Call, Files!None, Files!files
<1>3. /\ \A k \in 1..Len(t) : t[k] \in MildSteps
      /\ ~ Carries(t) /\ ~ Publishes(t) /\ ~ First(t, "state")
      /\ o = "record" => Ahead(t, {"loadInput"}, {}) /\ \A k \in 1..Len(t) : t[k] # "layout"
  BY MildCall
<1> HIDE DEF t
<1>4. y.op = o /\ y.todo = t /\ y.w = w /\ (o # "record" => y.item = 0)
  BY DEF Files!Idle
<1> HIDE DEF y
<1>5. PICK z : z = y
  OBVIOUS
<1>6. proc' = [proc EXCEPT ![p] = z] /\ proc'[p] = z /\ z.op = o /\ z.todo = t /\ z.w = w /\ (o # "record" => z.item = 0)
  BY <1>1, <1>2, <1>4, <1>5
<1>7. Keeps(m, p)'
  BY <1>3, <1>6 DEF Keeps
<1>8. ~ Carries(z.todo)
  BY <1>3, <1>6
<1> QED BY <1>2, <1>6, <1>7, <1>8, KeptQuiet

\* Every step of a mild operation keeps the inputs.
LEMMA KeptProcess ==
  ASSUME NEW m, Fit(m), KeptInv(m), FilesInv(m)', NEW p \in m.procs, Files(m)!Step(p)
  PROVE  KeptInv(m)'
<1>1. FilesInv(m) /\ Keeps(m, p)
  BY DEF KeptInv
<1>2. ASSUME NEW l, Files(m)!At(p, l) PROVE l \in MildSteps
  <2>1. Next1(l, proc[p].todo, Tail(proc[p].todo))
    BY <1>1, <1>2, AtStep
  <2>2. proc[p].todo \in Seq(Labels) /\ proc[p].todo # <<>> /\ Head(proc[p].todo) = l
    BY <2>1 DEF Next1
  <2> QED BY <1>1, <2>2, LabelsTail DEF Keeps
<1>3. ASSUME Files(m)!Retain(p) \/ Files(m)!SaveState(p) \/ Files(m)!Unlock(p) \/ Files(m)!Layout(p)
      PROVE  KeptInv(m)'
  BY <1>3, KeptRetain, KeptSave, KeptUnlock, KeptLayout
<1>4. ASSUME Files(m)!TakeLock(p) \/ Files(m)!ReadIndex(p) \/ Files(m)!WriteIndex(p) \/ Files(m)!SaveLatest(p)
      PROVE  KeptInv(m)'
  BY <1>4, KeptPass
<1> DEFINE c == state[proc[p].w]
<1>5. CASE Files(m)!LoadForInput(p)
  <2> DEFINE st == [c EXCEPT !.inputs = Append(@, proc[p].item)]  R == {"active", "archived", "temporary"}
  <2>1. Files(m)!Load(p, "loadInput", R, st) /\ Files(m)!At(p, "loadInput")
    BY <1>5 DEF Files!LoadForInput, Files!Load, Files!Current, Files!Statuses
  <2>2. Ahead(proc[p].todo, {"loadInput"}, {}) /\ proc[p] \in Process /\ Placed(m, p)
    BY <1>1, <2>1, AtStep DEF Next1
  <2>3. proc[p].item # 0 /\ proc[p].item \in 1..inputs
    BY <1>1, <2>2 DEF Placed, Process, FilesInv, Typed
  <2>4. c \in Contents
    BY <1>1, <2>3, Working DEF FilesInv, Typed
  <2>5. st.inputs = Append(c.inputs, proc[p].item) /\ c.inputs \in Seq(1..inputs)
    BY <2>4 DEF Contents
  <2> DEFINE s == c.inputs  e == proc[p].item  a == st.inputs
  <2> HIDE DEF st
  <2>6. Len(s) \in Nat /\ DOMAIN s = 1..Len(s) /\ Len(a) = Len(s) + 1 /\ DOMAIN a = 1..Len(a)
        /\ a[Len(s) + 1] = e /\ \A i \in 1..Len(s) : a[i] = s[i]
    <3> HIDE DEF s, e, a
    <3>1. s \in Seq(1..inputs) /\ a = Append(s, e) /\ e \in 1..inputs
      BY <2>3, <2>5 DEF s, e, a
    <3> QED BY <3>1, AppendProperties, LenProperties
  <2> HIDE DEF s, e, a
  <2>7. Elems(s) \subseteq Elems(a) /\ e \in Elems(a)
    <3>1. \A i \in DOMAIN s : i \in DOMAIN a /\ a[i] = s[i]
      BY <2>6
    <3>2. Len(s) + 1 \in DOMAIN a
      BY <2>6
    <3> QED BY <2>6, <3>1, <3>2 DEF Elems
  <2> QED BY <2>1, <2>7, KeptLoaded DEF s, e, a
<1>6. CASE Files(m)!LoadForCompaction(p)
  <2>1. Files(m)!Load(p, "loadCompact", {"active", "archived", "temporary"}, c)
    BY <1>6 DEF Files!LoadForCompaction, Files!Current, Files!Statuses
  <2> QED BY <2>1, KeptLoaded
<1>7. CASE Files(m)!LoadToResume(p)
  <2>1. Files(m)!Load(p, "loadResume", {"active"}, c) /\ {"active"} \in SUBSET {"active", "archived", "temporary"}
    BY <1>7 DEF Files!LoadToResume, Files!Current
  <2> QED BY <2>1, KeptLoaded
<1>8. CASE Files(m)!NoWorkspaceLeft(p)
  BY <1>8, KeptAbort DEF Files!NoWorkspaceLeft, Files!files
<1>9. ASSUME \/ Files(m)!LoadToArchive(p) \/ Files(m)!LoadToReactivate(p) \/ Files(m)!ClearOwn(p)
             \/ Files(m)!ReadPrevious(p) \/ Files(m)!ReadLatest(p) \/ Files(m)!LoadLatest(p)
             \/ Files(m)!ClearLatest(p) \/ Files(m)!Select(p) \/ Files(m)!ListDirectories(p)
             \/ Files(m)!Probe(p) \/ Files(m)!Quarantine(p) \/ Files(m)!MendLatest(p) \/ Files(m)!Temporary(p)
      PROVE  FALSE
  <2>1. \E l \in {"loadArchive", "loadReactivate", "clearOwn", "readPrevious", "readLatest", "loadLatest", "clear",
                  "select", "list", "probe", "quarantine", "mendLatest", "temporary"} : Files(m)!At(p, l)
    BY <1>9 DEF Files!LoadToArchive, Files!LoadToReactivate, Files!Load, Files!ClearOwn, Files!ReadPrevious,
       Files!ReadLatest, Files!LoadLatest, Files!ClearLatest, Files!Select, Files!ListDirectories, Files!Probe,
       Files!Quarantine, Files!MendLatest, Files!Temporary
  <2> QED BY <1>2, <2>1 DEF MildSteps
<1> QED BY <1>3, <1>4, <1>5, <1>6, <1>7, <1>8, <1>9 DEF Files!Step

\* No input is acknowledged at first.
LEMMA KeptInit ==
  ASSUME NEW m, Fit(m), Files(m)!Init, dirs \subseteq 1..m.workspaces
  PROVE  KeptInv(m)
<1>1. FilesInv(m)
  BY FilesInit
<1>2. \A p \in m.procs : proc[p].todo = <<>> /\ proc[p].item = 0 /\ proc[p].op = "none"
  BY DEF Files!Init, Files!Idle, Files!None
<1>3. \A p \in m.procs : Keeps(m, p)
  BY <1>2, Resting DEF Keeps
<1>4. Files(m)!AcknowledgedInputsAreKept
  BY DEF Files!Init, Files!AcknowledgedInputsAreKept
<1>5. Files(m)!LatestWasSaved
  BY DEF Files!Init, Files!LatestWasSaved, Files!NoFile, Files!None, Files!Workspaces
<1> QED BY <1>1, <1>3, <1>4, <1>5 DEF KeptInv

\* The invariant of the inputs is inductive for mild operations.
LEMMA KeptStep ==
  ASSUME NEW m, Fit(m), m.operations \subseteq Mild, KeptInv(m), [Files(m)!Next]_(Files(m)!vars)
  PROVE  KeptInv(m)'
<1>1. FilesInv(m)'
  BY FilesStep DEF KeptInv
<1>2. ASSUME NEW p \in m.procs, NEW o \in m.operations, NEW w \in dirs, Files(m)!Call(p, o, w) PROVE KeptInv(m)'
  <2>1. o \in Mild /\ w \in dirs \cup {0} /\ w # 0
    BY DEF KeptInv, FilesInv, Typed
  <2> QED BY <1>1, <1>2, <2>1, KeptCall
<1>3. ASSUME NEW p \in m.procs, NEW o \in m.operations \cap {"create", "new", "recover"}, Files(m)!Call(p, o, 0)
      PROVE  KeptInv(m)'
  <2>1. o \in Mild /\ 0 \in dirs \cup {0} /\ o # "record"
    OBVIOUS
  <2> QED BY <1>1, <1>3, <2>1, KeptCall
<1>4. ASSUME NEW p \in m.procs, Files(m)!Step(p) PROVE KeptInv(m)'
  BY <1>1, <1>4, KeptProcess
<1>5. ASSUME NEW p \in m.procs, Files(m)!Crash(p) PROVE KeptInv(m)'
  BY <1>1, <1>5, KeptAbort DEF Files!Crash, Files!files
<1>6. ASSUME Files(m)!Damage PROVE KeptInv(m)'
  <2>1. "recover" \in Mild
    BY <1>6 DEF Files!Damage
  <2> QED BY <2>1 DEF Mild
<1>9. ASSUME NEW p \in m.procs, Files(m)!RecoveryFails(p) PROVE KeptInv(m)'
  <2>1. proc[p].op \in Mild \cup {"none"}
    BY DEF KeptInv, Keeps
  <2> QED BY <1>9, <2>1 DEF Files!RecoveryFails, Mild
<1>7. ASSUME UNCHANGED Files(m)!vars PROVE KeptInv(m)'
  <2>1. UNCHANGED <<dirs, state, archived, latest, proc, acked>>
    BY <1>7 DEF Files!vars, Files!files
  <2>2. \A v : Files(m)!Kept(v)' = Files(m)!Kept(v)
    BY <2>1 DEF Files!Kept
  <2>3. ASSUME NEW p \in m.procs PROVE Keeps(m, p)'
    <3>1. Keeps(m, p) /\ proc'[p] = proc[p]
      BY <2>1 DEF KeptInv
    <3>2. Fresh(p)' <=> Fresh(p)
      BY <2>1 DEF Fresh
    <3> QED BY <2>1, <2>2, <3>1, <3>2 DEF Keeps
  <2>4. Files(m)!AcknowledgedInputsAreKept' /\ Files(m)!LatestWasSaved'
    BY <2>1, <2>2 DEF KeptInv, Files!AcknowledgedInputsAreKept, Files!LatestWasSaved
  <2> QED BY <1>1, <2>3, <2>4 DEF KeptInv
<1>8. ASSUME Files(m)!Next PROVE KeptInv(m)'
  <2>1. \/ \E p \in m.procs, o \in m.operations, w \in dirs : Files(m)!Call(p, o, w)
        \/ \E p \in m.procs, o \in m.operations \cap {"create", "new", "recover"} : Files(m)!Call(p, o, 0)
        \/ \E p \in m.procs : Files(m)!Step(p) \/ Files(m)!Crash(p) \/ Files(m)!RecoveryFails(p)
        \/ Files(m)!Damage
    BY <1>8 DEF Files!Next, Files!None
  <2> QED BY <2>1, <1>2, <1>3, <1>4, <1>5, <1>6, <1>9
<1> QED BY <1>7, <1>8

-----------------------------------------------------------------------------
(* One process after another: the steps a process takes next.               *)

Jumps(m) ==
  {Files(m)!CreateSteps, <<"select">>, <<"loadLatest">>, <<"clear", "select">>, <<"latest">>, <<"probe">>, <<"readLatest">>,
   <<"quarantine", "clearOwn", "probe">>, Files(m)!SaveSteps}
    \cup {c \o Files(m)!ArchiveSteps \o Files(m)!CreateSteps : c \in {<<>>, Files(m)!CompactSteps}}

\* What an exception may leave to do.
Remains == {<<>>, <<"unlock">>, <<"temporary">>, <<"unlock", "temporary">>}

\* A process goes on, ends, releases its lock, or begins other steps.
Turn(m, p, y) ==
  /\ proc' = [proc EXCEPT ![p] = y]
  /\ y.op \in {proc[p].op, "none", "fallback"}
  /\ y.todo \in {Tail(proc[p].todo)} \cup Remains \cup Jumps(m)

\* An operation ends early.
LEMMA AbortTurns ==
  ASSUME NEW m, Fit(m), FilesInv(m), NEW p \in m.procs, Files(m)!Abort(p)
  PROVE  \E y : /\ proc' = [proc EXCEPT ![p] = y] /\ proc'[p] = y /\ y.todo \in Remains
                /\ y.op = (IF proc[p].op = "recover" THEN "fallback" ELSE proc[p].op) \/ y = Files(m)!Idle
                /\ proc[p].op = "recover" => y.op = "fallback"
<1> DEFINE x == proc[p]
           t == (IF Files(m)!Locking(p) THEN <<"unlock">> ELSE <<>>) \o Files(m)!Rescue(p)
           o == IF x.op = "recover" THEN "fallback" ELSE x.op
<1>1. x \in Process /\ proc \in [m.procs -> Process]
  BY DEF FilesInv, Typed
<1>2. t \in Remains /\ (t = <<>> => x.op # "recover")
  <2> HIDE DEF t
  <2> QED BY AfterException DEF Remains, t
<1>3. proc' = [proc EXCEPT ![p] =
         IF t = <<>> THEN Files(m)!Idle ELSE [x EXCEPT !.op = o, !.todo = t, !.item = 0]]
  BY DEF Files!Abort, Files!None
<1> HIDE DEF t, o
<1>4. PICK y : y = IF t = <<>> THEN Files(m)!Idle ELSE [x EXCEPT !.op = o, !.todo = t, !.item = 0]
  OBVIOUS
<1>5. proc' = [proc EXCEPT ![p] = y] /\ proc'[p] = y
  BY <1>1, <1>3, <1>4
<1>6. CASE t = <<>>
  <2>1. y = Files(m)!Idle /\ y.todo = <<>>
    BY <1>4, <1>6 DEF Files!Idle
  <2> QED BY <1>2, <1>5, <1>6, <2>1 DEF Remains
<1>7. CASE t # <<>>
  <2>1. y.op = o /\ y.todo = t
    BY <1>1, <1>4, <1>7 DEF Process
  <2> QED BY <1>2, <1>5, <2>1 DEF o
<1> QED BY <1>6, <1>7

\* Every step of a process goes to its next one, jumps, or ends the operation.
LEMMA Turns ==
  ASSUME NEW m, Fit(m), FilesInv(m), NEW p \in m.procs, Files(m)!Step(p)
  PROVE  \E y : Turn(m, p, y)
<1> DEFINE x == proc[p]  t == x.todo  r == Tail(t)  d == Files(m)!Done(p)
<1>1. x \in Process /\ proc \in [m.procs -> Process] /\ Files(m)!Idle \in Process /\ Files(m)!Idle.todo = <<>>
      /\ Files(m)!Idle.op = "none"
  BY IdleTyped DEF FilesInv, Typed, Files!Idle
<1>2. ASSUME NEW l, Files(m)!At(p, l) PROVE d \in Process /\ d.todo = r /\ d.op \in {x.op, "none"}
  <2>1. d = (IF r = <<>> THEN Files(m)!Idle ELSE [x EXCEPT !.todo = r]) /\ r \in Seq(Labels)
    BY <1>2, AtStep DEF Next1
  <2> QED BY <1>1, <2>1 DEF Process
<1>3. ASSUME Files(m)!Abort(p) PROVE \E y : Turn(m, p, y)
  <2>1. PICK y : /\ proc' = [proc EXCEPT ![p] = y] /\ proc'[p] = y /\ y.todo \in Remains
                 /\ y.op = (IF proc[p].op = "recover" THEN "fallback" ELSE proc[p].op) \/ y = Files(m)!Idle
                 /\ proc[p].op = "recover" => y.op = "fallback"
    BY <1>3, AbortTurns
  <2> QED BY <1>1, <2>1 DEF Turn
<1>4. ASSUME NEW l, Files(m)!At(p, l), Files(m)!Continue(p) PROVE \E y : Turn(m, p, y)
  <2>1. PICK y : y = d
    OBVIOUS
  <2> QED BY <1>2, <1>4, <2>1 DEF Turn, Files!Continue
<1>5. ASSUME NEW l, Files(m)!At(p, l), NEW y, proc' = [proc EXCEPT ![p] = y], y.op = d.op, y.todo = d.todo
      PROVE  \E z : Turn(m, p, z)
  BY <1>2, <1>5 DEF Turn
<1>6. CASE Files(m)!TakeLock(p)
  BY <1>3, <1>4, <1>6 DEF Files!TakeLock
<1>7. CASE Files(m)!Retain(p)
  <2>1. PICK n : n = SubSeq(x.st.inputs, Files(m)!Excess(x.st.inputs) + 1, Len(x.st.inputs))
    OBVIOUS
  <2>2. PICK y : y = [d EXCEPT !.st.inputs = n]
    OBVIOUS
  <2>3. Files(m)!At(p, "retain") /\ proc' = [proc EXCEPT ![p] = y]
    BY <1>7, <2>1, <2>2 DEF Files!Retain
  <2>4. y.op = d.op /\ y.todo = d.todo
    BY <1>2, <2>2, <2>3 DEF Process
  <2> QED BY <1>5, <2>3, <2>4
<1>8. CASE Files(m)!SaveState(p)
  <2>1. PICK y : y = [d EXCEPT !.st = Files(m)!NoFile]
    OBVIOUS
  <2>2. Files(m)!At(p, "state") /\ proc' = [proc EXCEPT ![p] = y]
    BY <1>8, <2>1 DEF Files!SaveState
  <2>3. y.op = d.op /\ y.todo = d.todo
    BY <1>2, <2>1, <2>2 DEF Process
  <2> QED BY <1>5, <2>2, <2>3
<1>9. CASE (Files(m)!ReadIndex(p) \/ Files(m)!WriteIndex(p)) /\ ~ Files(m)!Abort(p)
  <2>1. PICK i : proc' = [proc EXCEPT ![p] = [d EXCEPT !.idx = i]]
    BY <1>9 DEF Files!ReadIndex, Files!WriteIndex
  <2>2. PICK y : y = [d EXCEPT !.idx = i]
    OBVIOUS
  <2>3. PICK l : Files(m)!At(p, l)
    BY <1>9 DEF Files!ReadIndex, Files!WriteIndex
  <2>4. y.op = d.op /\ y.todo = d.todo
    BY <1>2, <2>2, <2>3 DEF Process
  <2> QED BY <1>5, <2>1, <2>2, <2>3, <2>4
<1>10. CASE \/ Files(m)!SaveLatest(p) \/ Files(m)!ClearOwn(p) \/ Files(m)!ClearLatest(p) \/ Files(m)!Quarantine(p)
            \/ Files(m)!MendLatest(p)
  BY <1>3, <1>4, <1>10 DEF Files!SaveLatest, Files!ClearOwn, Files!ClearLatest, Files!Quarantine, Files!MendLatest
<1>11. CASE Files(m)!Unlock(p)
  <2>1. PICK y : y = [d EXCEPT !.item = 0]
    OBVIOUS
  <2>2. Files(m)!At(p, "unlock") /\ proc' = [proc EXCEPT ![p] = y]
    BY <1>11, <2>1 DEF Files!Unlock, Files!None
  <2>3. y.op = d.op /\ y.todo = d.todo
    BY <1>2, <2>1, <2>2 DEF Process
  <2> QED BY <1>5, <2>2, <2>3
<1>12. CASE \/ Files(m)!LoadForInput(p) \/ Files(m)!LoadForCompaction(p) \/ Files(m)!LoadToArchive(p)
            \/ Files(m)!LoadToReactivate(p) \/ Files(m)!LoadToResume(p)
  <2>1. PICK l, R, st : Files(m)!Load(p, l, R, st)
    BY <1>12 DEF Files!LoadForInput, Files!LoadForCompaction, Files!LoadToArchive, Files!LoadToReactivate,
       Files!LoadToResume
  <2>2. CASE Files(m)!Abort(p)
    BY <1>3, <2>2
  <2>3. CASE ~ Files(m)!Abort(p)
    <3>1. PICK y : y = [d EXCEPT !.st = st]
      OBVIOUS
    <3>2. Files(m)!At(p, l) /\ proc' = [proc EXCEPT ![p] = y]
      BY <2>1, <2>3, <3>1 DEF Files!Load, Files!Loaded
    <3>3. y.op = d.op /\ y.todo = d.todo
      BY <1>2, <3>1, <3>2 DEF Process
    <3> QED BY <1>5, <3>2, <3>3
  <2> QED BY <2>2, <2>3
<1>13. CASE Files(m)!Layout(p)
  <2>1. PICK w, st : proc' = [proc EXCEPT ![p] = [d EXCEPT !.w = w, !.st = st]]
    BY <1>13 DEF Files!Layout
  <2>2. PICK y : y = [d EXCEPT !.w = w, !.st = st]
    OBVIOUS
  <2>3. Files(m)!At(p, "layout")
    BY <1>13 DEF Files!Layout
  <2>4. y.op = d.op /\ y.todo = d.todo
    BY <1>2, <2>2, <2>3 DEF Process
  <2> QED BY <1>5, <2>1, <2>2, <2>3, <2>4
<1>14. ASSUME NEW j \in Jumps(m), NEW y, proc' = [proc EXCEPT ![p] = y], y.op = x.op, y.todo = j PROVE \E z : Turn(m, p, z)
  BY <1>14 DEF Turn
<1> HIDE DEF d
<1>15. CASE Files(m)!ReadPrevious(p) /\ ~ Files(m)!Abort(p)
  <2>1. PICK c \in {<<>>, Files(m)!CompactSteps} :
          proc' = [proc EXCEPT ![p] = [x EXCEPT !.w = latest,
                     !.todo = IF latest = 0 THEN Files(m)!CreateSteps
                              ELSE c \o Files(m)!ArchiveSteps \o Files(m)!CreateSteps]]
    BY <1>15 DEF Files!ReadPrevious, Files!None
  <2>2. PICK j : j = IF latest = 0 THEN Files(m)!CreateSteps ELSE c \o Files(m)!ArchiveSteps \o Files(m)!CreateSteps
    OBVIOUS
  <2>3. j \in Jumps(m)
    BY <2>2 DEF Jumps
  <2>4. PICK y : y = [x EXCEPT !.w = latest, !.todo = j]
    OBVIOUS
  <2>5. proc' = [proc EXCEPT ![p] = y] /\ y.op = x.op /\ y.todo = j
    BY <1>1, <2>1, <2>2, <2>4 DEF Process
  <2> QED BY <1>14, <2>3, <2>5
<1>16. CASE Files(m)!ReadLatest(p)
  <2>1. PICK j : j = IF latest = 0 THEN <<"select">> ELSE <<"loadLatest">>
    OBVIOUS
  <2>2. PICK y : y = [x EXCEPT !.w = latest, !.todo = j]
    OBVIOUS
  <2>3. proc' = [proc EXCEPT ![p] = y]
    BY <1>16, <2>1, <2>2 DEF Files!ReadLatest, Files!None
  <2>4. y.op = x.op /\ y.todo = j /\ j \in Jumps(m)
    BY <1>1, <2>1, <2>2 DEF Process, Jumps
  <2> QED BY <1>14, <2>3, <2>4
<1>17. CASE Files(m)!LoadLatest(p)
  <2>1. CASE Files(m)!Usable(x.w)
    BY <1>1, <1>17, <2>1 DEF Files!LoadLatest, Turn, Remains
  <2>2. CASE ~ Files(m)!Usable(x.w)
    <3>1. PICK j : j = <<"clear", "select">>
      OBVIOUS
    <3>2. PICK y : y = [x EXCEPT !.todo = j]
      OBVIOUS
    <3>3. proc' = [proc EXCEPT ![p] = y]
      BY <1>17, <2>2, <3>1, <3>2 DEF Files!LoadLatest, Files!GoTo
    <3>4. y.op = x.op /\ y.todo = j /\ j \in Jumps(m)
      BY <1>1, <3>1, <3>2 DEF Process, Jumps
    <3> QED BY <1>14, <3>3, <3>4
  <2> QED BY <2>1, <2>2
<1>18. CASE Files(m)!Select(p)
  <2>1. \/ proc' = [proc EXCEPT ![p] = [x EXCEPT !.todo = Files(m)!CreateSteps]]
        \/ \E w : proc' = [proc EXCEPT ![p] = [x EXCEPT !.w = w, !.todo = <<"latest">>]]
    BY <1>18 DEF Files!Select, Files!GoTo
  <2>2. CASE proc' = [proc EXCEPT ![p] = [x EXCEPT !.todo = Files(m)!CreateSteps]]
    <3>1. PICK j : j = Files(m)!CreateSteps
      OBVIOUS
    <3>2. PICK y : y = [x EXCEPT !.todo = j]
      OBVIOUS
    <3>3. y.op = x.op /\ y.todo = j /\ j \in Jumps(m)
      BY <1>1, <3>1, <3>2 DEF Process, Jumps
    <3> QED BY <1>14, <2>2, <3>1, <3>2, <3>3
  <2>3. ASSUME NEW w, proc' = [proc EXCEPT ![p] = [x EXCEPT !.w = w, !.todo = <<"latest">>]]
        PROVE  \E z : Turn(m, p, z)
    <3>1. PICK j : j = <<"latest">>
      OBVIOUS
    <3>2. PICK y : y = [x EXCEPT !.w = w, !.todo = j]
      OBVIOUS
    <3>3. y.op = x.op /\ y.todo = j /\ j \in Jumps(m)
      BY <1>1, <3>1, <3>2 DEF Process, Jumps
    <3> QED BY <1>14, <2>3, <3>1, <3>2, <3>3
  <2> QED BY <2>1, <2>2, <2>3
<1>19. CASE Files(m)!ListDirectories(p)
  <2>1. PICK j : j = <<"probe">>
    OBVIOUS
  <2>2. PICK y : y = [x EXCEPT !.left = dirs, !.todo = j]
    OBVIOUS
  <2>3. proc' = [proc EXCEPT ![p] = y]
    BY <1>19, <2>1, <2>2 DEF Files!ListDirectories
  <2>4. y.op = x.op /\ y.todo = j /\ j \in Jumps(m)
    BY <1>1, <2>1, <2>2 DEF Process, Jumps
  <2> QED BY <1>14, <2>3, <2>4
<1>20. CASE Files(m)!Probe(p)
  <2>1. Files(m)!At(p, "probe")
    BY <1>20 DEF Files!Probe
  <2>2. t = <<"probe">>
    <3>1. Next1("probe", t, r)
      BY <2>1, AtStep
    <3>2. t \in Seq(Labels) /\ t # <<>> /\ Head(t) = "probe" /\ Tail(t) = <<>>
      BY <3>1 DEF Next1, Rule
    <3>3. Len(t) = 1 /\ t[1] = "probe"
      <4>1. Len(Tail(t)) = Len(t) - 1 /\ Len(t) \in Nat /\ Head(t) = t[1]
        BY <3>2, TailIs
      <4>2. Len(Tail(t)) = 0
        <5>1. Len(<<>>) = 0
          OBVIOUS
        <5> QED BY <3>2, <5>1
      <4> QED BY <3>2, <4>1, <4>2
    <3>4. <<"probe">> \in Seq(Labels) /\ Len(<<"probe">>) = 1 /\ <<"probe">>[1] = "probe"
      BY SinglePlans DEF Plan
    <3> DEFINE s == <<"probe">>
    <3> HIDE DEF s
    <3>5. s \in Seq(Labels) /\ Len(s) = 1 /\ s[1] = "probe"
      BY <3>4 DEF s
    <3>6. t = s
      <4>1. \A i \in 1..Len(t) : t[i] = s[i]
        BY <3>3, <3>5
      <4> HIDE DEF t
      <4> QED BY <3>2, <3>3, <3>5, <4>1, SeqEqual
    <3> QED BY <3>6 DEF s
  <2>3. \/ proc' = [proc EXCEPT ![p] = [x EXCEPT !.todo = <<"readLatest">>]]
        \/ \E w, left : proc' = [proc EXCEPT ![p] = [x EXCEPT !.w = w, !.left = left,
             !.todo = IF Files(m)!Loads(w) THEN t ELSE <<"quarantine", "clearOwn", "probe">>]]
    BY <1>20 DEF Files!Probe, Files!GoTo
  <2>4. CASE proc' = [proc EXCEPT ![p] = [x EXCEPT !.todo = <<"readLatest">>]]
    <3>1. PICK j : j = <<"readLatest">>
      OBVIOUS
    <3>2. PICK y : y = [x EXCEPT !.todo = j]
      OBVIOUS
    <3>3. y.op = x.op /\ y.todo = j /\ j \in Jumps(m)
      BY <1>1, <3>1, <3>2 DEF Process, Jumps
    <3> QED BY <1>14, <2>4, <3>1, <3>2, <3>3
  <2>5. ASSUME NEW w, NEW left, proc' = [proc EXCEPT ![p] = [x EXCEPT !.w = w, !.left = left,
                 !.todo = IF Files(m)!Loads(w) THEN t ELSE <<"quarantine", "clearOwn", "probe">>]]
        PROVE  \E z : Turn(m, p, z)
    <3>1. PICK j : j = IF Files(m)!Loads(w) THEN t ELSE <<"quarantine", "clearOwn", "probe">>
      OBVIOUS
    <3>2. PICK y : y = [x EXCEPT !.w = w, !.left = left, !.todo = j]
      OBVIOUS
    <3>3. j \in Jumps(m)
      BY <2>2, <3>1 DEF Jumps
    <3>4. y.op = x.op /\ y.todo = j
      BY <1>1, <3>2 DEF Process
    <3> QED BY <1>14, <2>5, <3>1, <3>2, <3>3, <3>4
  <2> QED BY <2>3, <2>4, <2>5
<1>21. CASE Files(m)!NoWorkspaceLeft(p)
  BY <1>1, <1>21 DEF Files!NoWorkspaceLeft, Turn, Remains
<1>22. CASE Files(m)!Temporary(p)
  <2>1. PICK w, st : proc' = [proc EXCEPT ![p] = [x EXCEPT !.w = w, !.st = st, !.todo = Files(m)!SaveSteps]]
    BY <1>22 DEF Files!Temporary
  <2>2. PICK j : j = Files(m)!SaveSteps
    OBVIOUS
  <2>3. PICK y : y = [x EXCEPT !.w = w, !.st = st, !.todo = j]
    OBVIOUS
  <2>4. y.op = x.op /\ y.todo = j /\ j \in Jumps(m)
    BY <1>1, <2>2, <2>3 DEF Process, Jumps
  <2> QED BY <1>14, <2>1, <2>2, <2>3, <2>4
<1> QED BY <1>3, <1>6, <1>7, <1>8, <1>9, <1>10, <1>11, <1>12, <1>13, <1>15, <1>16, <1>17, <1>18, <1>19, <1>20, <1>21,
    <1>22 DEF Files!Step

\* Where an operation jumps to, something is left, and writing the index is not the first of
\* it.
LEMMA JumpPlans ==
  ASSUME NEW m, NEW j \in Jumps(m)
  PROVE  j # <<>> /\ ~ First(j, "index")
<1>1. PICK k, F : k # "index" /\ k # "end" /\ Plan(j, k, F)
  <2>1. CASE j = Files(m)!CreateSteps
    BY <2>1, CreatePlan
  <2>2. CASE j \in {<<"select">>, <<"loadLatest">>, <<"latest">>, <<"probe">>, <<"readLatest">>}
    <3>1. /\ Plan(<<"probe">>, "probe", {"recover"})
          /\ Plan(<<"readLatest">>, "readLatest", {"recover"})
          /\ Plan(<<"select">>, "select", {"recover"})
          /\ Plan(<<"loadLatest">>, "loadLatest", {"named", "recover"})
          /\ Plan(<<"latest">>, "latest", {"named", "publishes", "mild", "recover"})
      BY SinglePlans
    <3>2. CASE j = <<"select">>
      BY <3>1, <3>2
    <3>3. CASE j = <<"loadLatest">>
      BY <3>1, <3>3
    <3>4. CASE j = <<"latest">>
      BY <3>1, <3>4
    <3>5. CASE j = <<"probe">>
      BY <3>1, <3>5
    <3>6. CASE j = <<"readLatest">>
      BY <3>1, <3>6
    <3> QED BY <2>2, <3>2, <3>3, <3>4, <3>5, <3>6
  <2>3. CASE j = <<"clear", "select">>
    BY <2>3, ClearPlan
  <2>4. CASE j = <<"quarantine", "clearOwn", "probe">>
    BY <2>4, QuarantinePlan
  <2>5. CASE \E c \in {<<>>, Files(m)!CompactSteps} : j = c \o Files(m)!ArchiveSteps \o Files(m)!CreateSteps
    <3>1. PICK c \in {<<>>, Files(m)!CompactSteps} : j = c \o Files(m)!ArchiveSteps \o Files(m)!CreateSteps
      BY <2>5
    <3>2. PICK l \in {"lock", "loadArchive"} :
            Plan(c \o Files(m)!ArchiveSteps \o Files(m)!CreateSteps, l, {"named", "settles"})
      BY NewPlan
    <3> QED BY <3>1, <3>2
  <2>6. CASE j = Files(m)!SaveSteps
    BY <2>6, SaveAlone
  <2> QED BY <2>1, <2>2, <2>3, <2>4, <2>5, <2>6 DEF Jumps
<1>2. First(j, k) /\ k # "index"
  BY <1>1 DEF Plan
<1> QED BY <1>2 DEF First

\* An exception leaves nothing to read or to write of the index.
LEMMA RemainsBegin ==
  ASSUME NEW t \in Remains
  PROVE  ~ First(t, "index") /\ ~ First(t, "readIndex")
<1>1. /\ Plan(<<"unlock">>, "unlock", {"held", "named", "settles", "mild", "recover"})
      /\ Plan(<<"temporary">>, "temporary", {})
      /\ Plan(<<"unlock", "temporary">>, "unlock", {"held", "named", "settles"})
  BY SinglePlans, UnlockThenTemporary
<1>2. CASE t = <<>>
  BY <1>2 DEF First
<1>3. CASE t = <<"unlock">>
  BY <1>1, <1>3 DEF Plan, First
<1>4. CASE t = <<"temporary">>
  BY <1>1, <1>4 DEF Plan, First
<1>5. CASE t = <<"unlock", "temporary">>
  BY <1>1, <1>5 DEF Plan, First
<1> QED BY <1>2, <1>3, <1>4, <1>5 DEF Remains

\* The index is written next only after it was read.
LEMMA NotIndex ==
  ASSUME NEW m, Fit(m), FilesInv(m), NEW p \in m.procs, NEW l, Files(m)!At(p, l), l # "readIndex",
         NEW y, Turn(m, p, y)
  PROVE  ~ First(y.todo, "index")
<1>1. Next1(l, proc[p].todo, Tail(proc[p].todo))
  BY AtStep
<1>2. CASE y.todo = Tail(proc[p].todo)
  BY <1>1, <1>2 DEF Next1, Rule
<1>3. CASE y.todo \in Remains
  BY <1>3, RemainsBegin
<1>4. CASE y.todo \in Jumps(m)
  BY <1>4, JumpPlans
<1> QED BY <1>2, <1>3, <1>4 DEF Turn

\* Of all the steps only four change state files, the index, or read it.
LEMMA StepAt ==
  ASSUME NEW m, NEW p, Files(m)!Step(p)
  PROVE  /\ Files(m)!At(p, Head(proc[p].todo)) /\ stops' = stops /\ broken' \subseteq broken
         /\ \/ state' = state /\ index' = index /\ ~ Files(m)!At(p, "readIndex") /\ ~ Files(m)!At(p, "index")
            \/ Files(m)!SaveState(p) \/ Files(m)!ReadIndex(p) \/ Files(m)!WriteIndex(p) \/ Files(m)!Quarantine(p)
<1>1. CASE Files(m)!TakeLock(p) \/ Files(m)!Unlock(p) \/ Files(m)!Layout(p) \/ Files(m)!NoWorkspaceLeft(p)
  BY <1>1 DEF Files!TakeLock, Files!Unlock, Files!Layout, Files!NoWorkspaceLeft, Files!files, Files!At
<1>2. CASE Files(m)!Retain(p) \/ Files(m)!SaveLatest(p) \/ Files(m)!ClearOwn(p) \/ Files(m)!ClearLatest(p)
  BY <1>2 DEF Files!Retain, Files!SaveLatest, Files!ClearOwn, Files!ClearLatest, Files!files, Files!At
<1>3. CASE Files(m)!SaveState(p) \/ Files(m)!ReadIndex(p) \/ Files(m)!WriteIndex(p) \/ Files(m)!Quarantine(p)
  BY <1>3 DEF Files!SaveState, Files!ReadIndex, Files!WriteIndex, Files!Quarantine, Files!files, Files!At
<1>4. CASE \/ Files(m)!LoadForInput(p) \/ Files(m)!LoadForCompaction(p) \/ Files(m)!LoadToArchive(p)
           \/ Files(m)!LoadToReactivate(p) \/ Files(m)!LoadToResume(p)
  BY <1>4 DEF Files!LoadForInput, Files!LoadForCompaction, Files!LoadToArchive, Files!LoadToReactivate,
     Files!LoadToResume, Files!Load, Files!files, Files!At
<1>5. CASE \/ Files(m)!ReadPrevious(p) \/ Files(m)!ReadLatest(p) \/ Files(m)!LoadLatest(p) \/ Files(m)!Select(p)
           \/ Files(m)!ListDirectories(p) \/ Files(m)!Probe(p) \/ Files(m)!MendLatest(p) \/ Files(m)!Temporary(p)
  BY <1>5 DEF Files!ReadPrevious, Files!ReadLatest, Files!LoadLatest, Files!Select, Files!ListDirectories, Files!Probe,
     Files!MendLatest, Files!Temporary, Files!files, Files!At
<1> QED BY <1>1, <1>2, <1>3, <1>4, <1>5 DEF Files!Step

\* A step of the only process leaves every saved workspace in the index, or about to be
\* entered.
LEMMA IndexingTurn ==
  ASSUME NEW m, Fit(m), FilesInv(m), NEW c \in m.procs, Indexing(m, c), Files(m)!Step(c)
  PROVE  Indexing(m, c)'
<1> DEFINE x == proc[c]  t == x.todo  r == Tail(t)  w == x.w
<1>1. PICK y : Turn(m, c, y)
  BY Turns
<1>2. proc'[c] = y /\ x \in Process /\ Typed(m)
  BY <1>1 DEF Turn, FilesInv, Typed
<1>3. stops' = stops /\ (stops' = 0 => broken' = {})
  BY StepAt DEF Indexing
<1>4. CASE state' = state /\ index' = index /\ ~ Files(m)!At(c, "readIndex") /\ ~ Files(m)!At(c, "index")
  <2>1. ~ First(t, "readIndex") /\ ~ First(t, "index")
    BY <1>4 DEF Files!At, First
  <2>2. ~ First(y.todo, "index")
    <3>1. Files(m)!At(c, Head(t))
      BY StepAt
    <3>2. Head(t) # "readIndex"
      BY <2>1, <3>1 DEF Files!At, First
    <3> QED BY <1>1, <3>1, <3>2, NotIndex
  <2> QED BY <1>2, <1>3, <1>4, <2>1, <2>2 DEF Indexing
<1>5. CASE Files(m)!SaveState(c)
  <2> DEFINE z == [[x EXCEPT !.todo = r] EXCEPT !.st = Files(m)!NoFile]
  <2>1. Files(m)!At(c, "state") /\ state' = [state EXCEPT ![w] = x.st] /\ index' = index
    BY <1>5 DEF Files!SaveState
  <2>2. Next1("state", t, r) /\ Files(m)!Done(c) = (IF r = <<>> THEN Files(m)!Idle ELSE [x EXCEPT !.todo = r])
    BY <2>1, AtStep
  <2>3. r # <<>> /\ First(r, "readIndex") /\ t # <<>> /\ Head(t) = "state"
    BY <2>2 DEF Next1, Rule, First
  <2>4. proc' = [proc EXCEPT ![c] = z]
    BY <1>5, <2>2, <2>3 DEF Files!SaveState
  <2> HIDE DEF r
  <2>5. z.todo = r /\ z.w = w
    BY <1>2 DEF Process
  <2> HIDE DEF z
  <2>6. proc'[c] = z
    BY <2>4 DEF FilesInv, Typed
  <2>7. ~ First(z.todo, "index") /\ First(z.todo, "readIndex") /\ ~ First(t, "readIndex") /\ ~ First(t, "index")
    BY <2>3, <2>5 DEF First
  <2>8. \A v \in 1..m.workspaces : v # w => state'[v] = state[v]
    BY <1>2, <2>1 DEF Typed
  <2> QED BY <1>3, <2>1, <2>5, <2>6, <2>7, <2>8 DEF Indexing
<1>9. CASE Files(m)!ReadIndex(c) /\ "index" \in broken
  <2>0. Files(m)!Abort(c)
    BY <1>9 DEF Files!ReadIndex
  <2>1. PICK z : /\ proc' = [proc EXCEPT ![c] = z] /\ proc'[c] = z /\ z.todo \in Remains
                 /\ z.op = (IF proc[c].op = "recover" THEN "fallback" ELSE proc[c].op) \/ z = Files(m)!Idle
                 /\ proc[c].op = "recover" => z.op = "fallback"
    BY <2>0, AbortTurns
  <2>2. stops # 0
    BY <1>9 DEF Indexing
  <2> QED BY <1>3, <2>1, <2>2, RemainsBegin DEF Indexing
<1>6. CASE Files(m)!ReadIndex(c) /\ "index" \notin broken
  <2> DEFINE z == [[x EXCEPT !.todo = r] EXCEPT !.idx = index \cup {w}]
  <2>1. Files(m)!At(c, "readIndex") /\ state' = state /\ index' = index
    BY <1>6 DEF Files!ReadIndex, Files!files
  <2>2. Next1("readIndex", t, r) /\ Files(m)!Done(c) = (IF r = <<>> THEN Files(m)!Idle ELSE [x EXCEPT !.todo = r])
    BY <2>1, AtStep
  <2>3. r # <<>> /\ First(r, "index")
    BY <2>2 DEF Next1, Rule, First
  <2>4. proc' = [proc EXCEPT ![c] = z]
    BY <1>6, <2>2, <2>3 DEF Files!ReadIndex, Files!Indexed
  <2> HIDE DEF r
  <2>5. z.todo = r /\ z.w = w /\ z.idx = index \cup {w}
    BY <1>2 DEF Process
  <2> HIDE DEF z
  <2>6. proc'[c] = z
    BY <2>4 DEF FilesInv, Typed
  <2> QED BY <1>3, <2>1, <2>3, <2>5, <2>6 DEF Indexing
<1>7. CASE Files(m)!WriteIndex(c)
  <2>1. Files(m)!At(c, "index") /\ state' = state /\ index' = x.idx
    BY <1>7 DEF Files!WriteIndex
  <2>2. First(t, "index") /\ ~ First(t, "readIndex")
    BY <2>1 DEF Files!At, First
  <2>3. index' = index \cup {w}
    BY <2>1, <2>2 DEF Indexing
  <2>4. ~ First(y.todo, "index")
    BY <1>1, <2>1, NotIndex
  <2> QED BY <1>2, <1>3, <2>1, <2>2, <2>3, <2>4 DEF Indexing
<1>8. CASE Files(m)!Quarantine(c)
  <2>1. Files(m)!At(c, "quarantine") /\ index' = index /\ state' = [state EXCEPT ![w] = Files(m)!NoFile]
    BY <1>8 DEF Files!Quarantine
  <2>2. ~ First(t, "index") /\ ~ First(t, "readIndex")
    BY <2>1 DEF Files!At, First
  <2>3. ~ First(y.todo, "index")
    BY <1>1, <2>1, NotIndex
  <2>4. \A v \in 1..m.workspaces : state'[v] # Files(m)!NoFile => state'[v] = state[v]
    BY <1>2, <2>1 DEF Typed
  <2> QED BY <1>2, <1>3, <2>1, <2>2, <2>3, <2>4 DEF Indexing
<1> QED BY <1>4, <1>5, <1>6, <1>7, <1>8, <1>9, StepAt

\* That is inductive while one process works.
LEMMA IndexingStep ==
  ASSUME NEW m, Fit(m), FilesInv(m), NEW c, m.procs = {c}, Indexing(m, c), [Files(m)!Next]_(Files(m)!vars)
  PROVE  Indexing(m, c)'
<1>1. Typed(m) /\ c \in m.procs /\ stops \in Nat
  BY DEF FilesInv, Typed
<1>2. ASSUME Files(m)!Step(c) PROVE Indexing(m, c)'
  BY <1>1, <1>2, IndexingTurn
<1>3. ASSUME Files(m)!Crash(c) PROVE Indexing(m, c)'
  <2>1. stops' = stops + 1 /\ proc' = [proc EXCEPT ![c] = Files(m)!Idle]
    BY <1>3 DEF Files!Crash
  <2>2. proc'[c].todo = <<>> /\ stops' # 0
    BY <1>1, <2>1 DEF Typed, Files!Idle
  <2> QED BY <2>2 DEF Indexing, First
<1>4. ASSUME Files(m)!Damage PROVE Indexing(m, c)'
  <2>1. stops' = stops + 1 /\ proc' = proc /\ proc[c] = Files(m)!Idle
    BY <1>1, <1>4 DEF Files!Damage
  <2>2. proc'[c].todo = <<>>
    BY <2>1 DEF Files!Idle
  <2> QED BY <1>1, <2>1, <2>2 DEF Indexing, First
<1>7. ASSUME Files(m)!RecoveryFails(c) PROVE Indexing(m, c)'
  <2>1. stops' = stops + 1 /\ Files(m)!Abort(c)
    BY <1>7 DEF Files!RecoveryFails
  <2>2. PICK z : /\ proc' = [proc EXCEPT ![c] = z] /\ proc'[c] = z /\ z.todo \in Remains
                 /\ z.op = (IF proc[c].op = "recover" THEN "fallback" ELSE proc[c].op) \/ z = Files(m)!Idle
                 /\ proc[c].op = "recover" => z.op = "fallback"
    BY <1>1, <2>1, AbortTurns
  <2> QED BY <1>1, <2>1, <2>2, RemainsBegin DEF Indexing
<1>5. ASSUME NEW o \in m.operations, NEW w, Files(m)!Call(c, o, w) PROVE Indexing(m, c)'
  <2>1. /\ proc[c] = Files(m)!Idle /\ UNCHANGED <<state, index, broken, stops>>
        /\ \E i : proc' = [proc EXCEPT ![c] = [Files(m)!Idle EXCEPT !.op = o, !.todo = Files(m)!Steps(o), !.w = w,
                                                                     !.item = i]]
    BY <1>5 DEF Files!Call, Files!files
  <2>2. proc[c].todo = <<>>
    BY <2>1 DEF Files!Idle
  <2>3. proc'[c].todo = Files(m)!Steps(o)
    BY <1>1, <2>1 DEF Typed, Files!Idle
  <2>4. ~ First(Files(m)!Steps(o), "index")
    <3> DEFINE t == Files(m)!Steps(o)
    <3>1. o \in Calls
      BY DEF Fit
    <3> QED BY <3>1, CallPlan
  <2> QED BY <2>1, <2>2, <2>3, <2>4 DEF Indexing, First
<1>6. ASSUME UNCHANGED Files(m)!vars PROVE Indexing(m, c)'
  BY <1>6 DEF Files!vars, Files!files, Indexing
<1> QED BY <1>1, <1>2, <1>3, <1>4, <1>5, <1>6, <1>7 DEF Files!Next

-----------------------------------------------------------------------------
(* A start that recovers.                                                   *)

\* While recovery looks for a workspace it has nothing to save or to name.
LEMMA Looking ==
  ASSUME NEW t \in Seq(Finding)
  PROVE  /\ ~ Carries(t) /\ ~ Publishes(t) /\ ~ Settles(t)
         /\ ~ First(t, "loadLatest") /\ ~ First(t, "readIndex") /\ ~ First(t, "index")
<1>1. \A i \in 1..Len(t) : t[i] \in Finding
  BY ElementOfSeq
<1>2. "state" \notin Finding /\ "latest" \notin Finding /\ "unlock" \notin Finding /\ "loadLatest" \notin Finding
      /\ "readIndex" \notin Finding /\ "index" \notin Finding
  BY DEF Finding
<1>3. ~ Carries(t) /\ ~ Publishes(t) /\ ~ Settles(t)
  BY <1>1, <1>2 DEF Carries, Publishes, Settles, Ahead
<1>4. t # <<>> => Head(t) \in Finding
  OBVIOUS
<1> QED BY <1>2, <1>3, <1>4 DEF First

\* Naming or making a workspace does not begin with loading the latest one.
LEMMA MakingOnly ==
  ASSUME NEW t \in Seq(Making)
  PROVE  ~ First(t, "loadLatest")
<1>1. t # <<>> => Head(t) \in Making
  OBVIOUS
<1> QED BY <1>1 DEF First, Making

\* Where a recovery jumps to is of one of the two kinds.
LEMMA RecoverJumps ==
  ASSUME NEW m
  PROVE  /\ <<"select">> \in Seq(Finding) /\ <<"readLatest">> \in Seq(Finding) /\ <<"probe">> \in Seq(Finding)
         /\ <<"mendLatest", "list">> \in Seq(Finding) /\ <<"clear", "select">> \in Seq(Finding)
         /\ <<"quarantine", "clearOwn", "probe">> \in Seq(Finding)
         /\ Files(m)!CreateSteps \in Seq(Making) /\ <<"latest">> \in Seq(Making)
<1>1. /\ "select" \in Finding /\ "readLatest" \in Finding /\ "probe" \in Finding /\ "list" \in Finding
      /\ "mendLatest" \in Finding /\ "clear" \in Finding /\ "quarantine" \in Finding /\ "clearOwn" \in Finding
  BY DEF Finding
<1>2. /\ "layout" \in Making /\ "lock" \in Making /\ "state" \in Making /\ "readIndex" \in Making
      /\ "index" \in Making /\ "latest" \in Making /\ "unlock" \in Making
  BY DEF Making
<1>3. /\ <<"select">> \in Seq(Finding) /\ <<"readLatest">> \in Seq(Finding) /\ <<"probe">> \in Seq(Finding)
  BY <1>1, Alone
<1>4. /\ <<"clear", "select">> \in Seq(Finding) /\ <<"mendLatest", "list">> \in Seq(Finding)
      /\ <<"quarantine", "clearOwn", "probe">> \in Seq(Finding)
  BY <1>1, Two, Three
<1>5. /\ <<"layout", "lock">> \in Seq(Making) /\ Files(m)!SaveSteps \in Seq(Making)
      /\ <<"latest", "unlock">> \in Seq(Making)
  BY <1>2, Two, Three DEF Files!SaveSteps
<1>6. \A a, b, c \in Seq(Making) : (a \o b) \o c \in Seq(Making)
  BY Joined DEF Join
<1>7. Files(m)!CreateSteps \in Seq(Making)
  BY <1>5, <1>6 DEF Files!CreateSteps
<1>8. <<"latest">> \in Seq(Making)
  BY <1>2, Alone
<1> QED BY <1>3, <1>4, <1>7, <1>8

\* The rest of a recovery is of the kind its first step is of.
LEMMA RecoverHead ==
  ASSUME NEW m, NEW c, Recovers(c), NEW l, Files(m)!At(c, l)
  PROVE  LET t == proc[c].todo IN
         \/ l = "loadLatest"
         \/ l \in Finding /\ t \in Seq(Finding) /\ Tail(t) \in Seq(Finding)
         \/ l \in Making /\ t \in Seq(Making) /\ Tail(t) \in Seq(Making)
<1> DEFINE t == proc[c].todo
<1>1. t # <<>> /\ Head(t) = l
  BY DEF Files!At
<1>2. t = <<"loadLatest">> => Head(t) = "loadLatest"
  OBVIOUS
<1>3. \A S : t \in Seq(S) => Head(t) \in S /\ Tail(t) \in Seq(S)
  BY <1>1, HeadTailProperties
<1> QED BY <1>1, <1>2, <1>3 DEF Recovers

\* It goes on looking.
LEMMA StillLooking ==
  ASSUME NEW c, NEW y, proc'[c] = y, y.todo \in Seq(Finding), "latest" \notin broken' \/ First(y.todo, "mendLatest")
  PROVE  Recovers(c)'
<1>1. /\ ~ Carries(y.todo) /\ ~ Publishes(y.todo) /\ ~ Settles(y.todo)
      /\ ~ First(y.todo, "loadLatest") /\ ~ First(y.todo, "readIndex") /\ ~ First(y.todo, "index")
  BY Looking
<1> QED BY <1>1 DEF Recovers

\* It goes on making a workspace, or naming one.
LEMMA StillMaking ==
  ASSUME NEW c, NEW y, proc'[c] = y, y.todo \in Seq(Making),
         Carries(y.todo) => y.st.status = "active",
         Publishes(y.todo) => y.w # 0 /\ state'[y.w].status = "active",
         Settles(y.todo) => y.w # 0 /\ state'[y.w].status = "active" /\ latest' = y.w,
         First(y.todo, "readIndex") \/ First(y.todo, "index") =>
           y.w # 0 /\ state'[y.w].status = "active" /\ Held(y.todo),
         "latest" \notin broken'
  PROVE  Recovers(c)'
<1>1. ~ First(y.todo, "loadLatest")
  BY MakingOnly
<1> QED BY <1>1 DEF Recovers

\* What recovery promises of its end.
EndsWell(m, c) ==
  \/ proc'[c].op = "recover"
  \/ proc'[c] = Files(m)!Idle /\ latest' # 0 /\ state'[latest'].status = "active"
  \/ /\ proc'[c].op = "fallback" /\ "index" \in broken
     /\ \E w \in 1..m.workspaces : state'[w].status = "active"

\* Making a workspace leaves an active one for the pointer.
LEMMA RecoverMakes ==
  ASSUME NEW m, Fit(m), NEW c, m.procs = {c}, StartInv(m, c), proc[c].op = "recover",
         \/ Files(m)!TakeLock(c) \/ Files(m)!SaveState(c) \/ Files(m)!ReadIndex(c) \/ Files(m)!WriteIndex(c)
         \/ Files(m)!Layout(c)
  PROVE  (proc'[c].op = "recover" => Recovers(c)') /\ EndsWell(m, c)
<1> DEFINE x == proc[c]  t == x.todo  r == Tail(t)  w == x.w  d == [x EXCEPT !.todo = r]
<1>1. FilesInv(m) /\ c \in m.procs /\ x \in Process /\ proc \in [m.procs -> Process] /\ Recovers(c) /\ Typed(m)
  BY DEF StartInv, FilesInv, Typed
<1>2. ASSUME NEW l \in {"lock", "state", "readIndex", "index", "layout"}, Files(m)!At(c, l)
      PROVE  /\ Next1(l, t, r) /\ Files(m)!Done(c) = d /\ r \in Seq(Making) /\ r \in Seq(Labels) /\ r # <<>>
             /\ Placed(m, c)
  <2>1. Next1(l, t, r) /\ Files(m)!Done(c) = (IF r = <<>> THEN Files(m)!Idle ELSE d) /\ Placed(m, c)
    BY <1>1, <1>2, AtStep
  <2>0. r \in Seq(Labels) /\ t # <<>> /\ Head(t) = l
    BY <2>1 DEF Next1
  <2>2. r # <<>> /\ r \in Seq(Labels)
    <3>1. CASE l = "index"
      <4>1. Held(t)
        BY <1>1, <2>0, <3>1 DEF Recovers, First
      <4>2. Held(r)
        BY <2>1, <3>1, <4>1 DEF Next1
      <4> QED BY <2>0, <4>2, NothingAhead
    <3>2. CASE l # "index"
      BY <1>2, <2>1, <3>2 DEF Next1, Rule, Brief
    <3> QED BY <3>1, <3>2
  <2>3. l # "loadLatest" /\ l \notin Finding
    BY DEF Finding
  <2>4. r \in Seq(Making)
    BY <1>1, <1>2, <2>3, RecoverHead
  <2> QED BY <2>1, <2>2, <2>4
<1>3. /\ Carries(t) => x.st.status = "active"
      /\ Publishes(t) => w # 0 /\ state[w].status = "active"
      /\ Settles(t) => w # 0 /\ state[w].status = "active" /\ latest = w
      /\ First(t, "readIndex") \/ First(t, "index") => w # 0 /\ state[w].status = "active" /\ Held(t)
  BY <1>1 DEF Recovers
<1>8. "latest" \notin broken'
  <2>1. broken' \subseteq broken
    BY DEF Files!TakeLock, Files!SaveState, Files!ReadIndex, Files!WriteIndex, Files!Layout, Files!files
  <2>2. ~ First(t, "mendLatest")
    BY DEF Files!TakeLock, Files!SaveState, Files!ReadIndex, Files!WriteIndex, Files!Layout, Files!At, First
  <2> QED BY <1>1, <2>1, <2>2 DEF Recovers
<1>4. CASE Files(m)!TakeLock(c)
  <2>1. Files(m)!At(c, "lock") /\ UNCHANGED <<state, latest>>
    BY <1>4 DEF Files!TakeLock, Files!files
  <2>2. Next1("lock", t, r) /\ Files(m)!Done(c) = d /\ r \in Seq(Making) /\ r \in Seq(Labels) /\ Placed(m, c)
    BY <1>2, <2>1
  <2>3. lock[w] = 0
    <3>1. ~ Held(t) /\ Named(t)
      BY <2>2 DEF Next1, Rule, Using, Naming
    <3>2. w # 0 /\ w \in 1..m.workspaces
      BY <1>1, <2>2, <3>1 DEF Placed, Process, Typed
    <3>3. lock[w] \in {c, 0}
      BY <1>1, <3>2 DEF Typed
    <3>4. lock[w] # 0 => Held(proc[lock[w]].todo)
      BY <1>1, <3>2 DEF FilesInv
    <3> QED BY <3>1, <3>3, <3>4
  <2>4. proc' = [proc EXCEPT ![c] = d]
    BY <1>4, <2>2, <2>3 DEF Files!TakeLock, Files!Continue, Files!None
  <2>5. /\ Carries(r) => Carries(t)
        /\ Publishes(r) => Publishes(t)
        /\ Settles(r) => Settles(t)
        /\ ~ First(r, "readIndex") /\ ~ First(r, "index")
    BY <2>2 DEF Next1, Loading, Rule
  <2> HIDE DEF r
  <2>6. PICK y : y = d
    OBVIOUS
  <2>7. y.todo = r /\ y.w = w /\ y.st = x.st /\ y.op = "recover" /\ proc'[c] = y
    BY <1>1, <2>4, <2>6 DEF Process
  <2>8. Recovers(c)'
    BY <1>3, <1>8, <2>1, <2>2, <2>5, <2>7, StillMaking
  <2> QED BY <2>7, <2>8 DEF EndsWell
<1>5. CASE Files(m)!SaveState(c)
  <2>1. Files(m)!At(c, "state") /\ latest' = latest /\ state' = [state EXCEPT ![w] = x.st]
        /\ proc' = [proc EXCEPT ![c] = [Files(m)!Done(c) EXCEPT !.st = Files(m)!NoFile]]
    BY <1>5 DEF Files!SaveState
  <2>2. Next1("state", t, r) /\ Files(m)!Done(c) = d /\ r \in Seq(Making) /\ r \in Seq(Labels) /\ Placed(m, c)
    BY <1>2, <2>1
  <2>3. /\ ~ Carries(r) /\ Carries(t)
        /\ Settles(r) => Settles(t)
        /\ Named(t)
        /\ ~ First(r, "index") /\ (Held(t) => Held(r)) /\ First(t, "state")
    BY <2>2 DEF Next1, Rule, Using, Naming, First
  <2>4. w # 0 /\ w \in 1..m.workspaces /\ state'[w].status = "active" /\ Held(r)
    BY <1>1, <1>3, <2>1, <2>2, <2>3 DEF Placed, Process, Typed
  <2> HIDE DEF r
  <2>5. PICK y : y = [d EXCEPT !.st = Files(m)!NoFile]
    OBVIOUS
  <2>6. proc' = [proc EXCEPT ![c] = y]
    BY <2>1, <2>2, <2>5
  <2>7. y.todo = r /\ y.w = w /\ y.op = "recover" /\ proc'[c] = y
    BY <1>1, <2>5, <2>6 DEF Process
  <2>8. Recovers(c)'
    BY <1>3, <1>8, <2>1, <2>2, <2>3, <2>4, <2>7, StillMaking
  <2> QED BY <2>7, <2>8 DEF EndsWell
<1>9. CASE Files(m)!ReadIndex(c) /\ "index" \in broken
  <2>1. Files(m)!Abort(c) /\ Files(m)!At(c, "readIndex") /\ state' = state
    BY <1>9 DEF Files!ReadIndex, Files!files
  <2>2. PICK y : /\ proc' = [proc EXCEPT ![c] = y] /\ proc'[c] = y /\ y.todo \in Remains
                 /\ y.op = (IF proc[c].op = "recover" THEN "fallback" ELSE proc[c].op) \/ y = Files(m)!Idle
                 /\ proc[c].op = "recover" => y.op = "fallback"
    BY <1>1, <2>1, AbortTurns
  <2>3. proc'[c].op = "fallback"
    BY <2>2
  <2>4. First(t, "readIndex")
    BY <2>1 DEF Files!At, First
  <2>5. w \in 1..m.workspaces /\ state'[w].status = "active"
    BY <1>1, <1>3, <2>1, <2>4 DEF Process, Typed
  <2> QED BY <1>9, <2>3, <2>5 DEF EndsWell
<1>6. CASE (Files(m)!ReadIndex(c) /\ "index" \notin broken) \/ Files(m)!WriteIndex(c)
  <2>1. PICK l, i :
          /\ l \in {"readIndex", "index"} /\ Files(m)!At(c, l) /\ UNCHANGED <<latest, state>>
          /\ proc' = [proc EXCEPT ![c] = [Files(m)!Done(c) EXCEPT !.idx = i]]
    BY <1>6 DEF Files!ReadIndex, Files!WriteIndex, Files!files
  <2>2. Next1(l, t, r) /\ Files(m)!Done(c) = d /\ r \in Seq(Making) /\ r \in Seq(Labels)
    BY <1>2, <2>1
  <2>3. /\ Carries(r) => Carries(t)
        /\ Publishes(r) => Publishes(t)
        /\ Settles(r) => Settles(t)
        /\ ~ First(r, "readIndex") /\ (Held(t) => Held(r))
    BY <2>1, <2>2 DEF Next1, Loading, Rule
  <2>8. First(t, "readIndex") \/ First(t, "index")
    BY <2>1 DEF Files!At, First
  <2> HIDE DEF r
  <2>4. PICK y : y = [d EXCEPT !.idx = i]
    OBVIOUS
  <2>5. proc' = [proc EXCEPT ![c] = y]
    BY <2>1, <2>2, <2>4
  <2>6. y.todo = r /\ y.w = w /\ y.op = "recover" /\ proc'[c] = y /\ y.st = x.st
    BY <1>1, <2>4, <2>5 DEF Process
  <2>7. Recovers(c)'
    BY <1>3, <1>8, <2>1, <2>2, <2>3, <2>6, <2>8, StillMaking
  <2> QED BY <2>6, <2>7 DEF EndsWell
<1>7. CASE Files(m)!Layout(c)
  <2> DEFINE new == [status |-> "active", inputs |-> <<>>]
  <2>1. PICK v : proc' = [proc EXCEPT ![c] = [Files(m)!Done(c) EXCEPT !.w = v, !.st = new]]
    BY <1>7 DEF Files!Layout
  <2>2. Files(m)!At(c, "layout")
    BY <1>7 DEF Files!Layout
  <2>3. Next1("layout", t, r) /\ Files(m)!Done(c) = d /\ r \in Seq(Making) /\ r \in Seq(Labels)
    BY <1>2, <2>2
  <2>4. ~ Publishes(r) /\ ~ Settles(r) /\ ~ First(r, "readIndex") /\ ~ First(r, "index")
    BY <2>3 DEF Next1, Rule
  <2> HIDE DEF r
  <2>5. PICK y : y = [d EXCEPT !.w = v, !.st = new]
    OBVIOUS
  <2>6. proc' = [proc EXCEPT ![c] = y]
    BY <2>1, <2>3, <2>5
  <2>7. y.todo = r /\ y.op = "recover" /\ proc'[c] = y /\ y.st = new
    BY <1>1, <2>5, <2>6 DEF Process
  <2>8. Recovers(c)'
    BY <1>8, <2>3, <2>4, <2>7, StillMaking
  <2> QED BY <2>7, <2>8 DEF EndsWell
<1> QED BY <1>4, <1>5, <1>6, <1>7, <1>9

\* Looking through the directories leaves a recovery with steps of looking.
LEMMA RecoverLooks ==
  ASSUME NEW m, Fit(m), NEW c, m.procs = {c}, StartInv(m, c), proc[c].op = "recover",
         \/ Files(m)!ListDirectories(c) \/ Files(m)!Probe(c) \/ Files(m)!Quarantine(c) \/ Files(m)!ClearOwn(c)
         \/ Files(m)!ClearLatest(c) \/ Files(m)!MendLatest(c)
  PROVE  Recovers(c)' /\ EndsWell(m, c)
<1> DEFINE x == proc[c]  t == x.todo  r == Tail(t)
<1>1. FilesInv(m) /\ c \in m.procs /\ x \in Process /\ proc \in [m.procs -> Process] /\ Recovers(c)
  BY DEF StartInv, FilesInv, Typed
<1>6. "latest" \notin broken'
  <2>1. CASE Files(m)!MendLatest(c)
    BY <2>1 DEF Files!MendLatest
  <2>2. CASE ~ Files(m)!MendLatest(c)
    <3>1. broken' \subseteq broken
      BY <2>2 DEF Files!ListDirectories, Files!Probe, Files!Quarantine, Files!ClearOwn, Files!ClearLatest, Files!files
    <3>2. ~ First(t, "mendLatest")
      BY <2>2 DEF Files!ListDirectories, Files!Probe, Files!Quarantine, Files!ClearOwn, Files!ClearLatest,
         Files!At, First
    <3> QED BY <1>1, <3>1, <3>2 DEF Recovers
  <2> QED BY <2>1, <2>2
<1>2. ASSUME NEW y, proc' = [proc EXCEPT ![c] = y], y.op = "recover", y.todo \in Seq(Finding)
      PROVE  Recovers(c)' /\ EndsWell(m, c)
  <2>1. proc'[c] = y
    BY <1>1, <1>2
  <2> QED BY <1>2, <1>6, <2>1, StillLooking DEF EndsWell
<1>3. CASE Files(m)!ListDirectories(c)
  <2>1. PICK j : j = <<"probe">>
    OBVIOUS
  <2>2. PICK y : y = [x EXCEPT !.left = dirs, !.todo = j]
    OBVIOUS
  <2>3. proc' = [proc EXCEPT ![c] = y]
    BY <1>3, <2>1, <2>2 DEF Files!ListDirectories
  <2>4. y.op = "recover" /\ y.todo = j /\ j \in Seq(Finding)
    BY <1>1, <2>1, <2>2, RecoverJumps DEF Process
  <2> QED BY <1>2, <2>3, <2>4
<1>4. CASE Files(m)!Probe(c)
  <2>1. Files(m)!At(c, "probe")
    BY <1>4 DEF Files!Probe
  <2>2. t \in Seq(Finding)
    <3>1. "probe" # "loadLatest" /\ "probe" \notin Making
      BY DEF Making
    <3> QED BY <1>1, <2>1, <3>1, RecoverHead
  <2>3. \/ proc' = [proc EXCEPT ![c] = [x EXCEPT !.todo = <<"readLatest">>]]
        \/ \E w, left : proc' = [proc EXCEPT ![c] = [x EXCEPT !.w = w, !.left = left,
             !.todo = IF Files(m)!Loads(w) THEN t ELSE <<"quarantine", "clearOwn", "probe">>]]
    BY <1>4 DEF Files!Probe, Files!GoTo
  <2>4. CASE proc' = [proc EXCEPT ![c] = [x EXCEPT !.todo = <<"readLatest">>]]
    <3>1. PICK j : j = <<"readLatest">>
      OBVIOUS
    <3>2. PICK y : y = [x EXCEPT !.todo = j]
      OBVIOUS
    <3>3. y.op = "recover" /\ y.todo = j /\ j \in Seq(Finding)
      BY <1>1, <3>1, <3>2, RecoverJumps DEF Process
    <3> QED BY <1>2, <2>4, <3>1, <3>2, <3>3
  <2>5. ASSUME NEW w, NEW left, proc' = [proc EXCEPT ![c] = [x EXCEPT !.w = w, !.left = left,
                 !.todo = IF Files(m)!Loads(w) THEN t ELSE <<"quarantine", "clearOwn", "probe">>]]
        PROVE  Recovers(c)' /\ EndsWell(m, c)
    <3>1. PICK j : j = IF Files(m)!Loads(w) THEN t ELSE <<"quarantine", "clearOwn", "probe">>
      OBVIOUS
    <3>2. PICK y : y = [x EXCEPT !.w = w, !.left = left, !.todo = j]
      OBVIOUS
    <3>3. j \in Seq(Finding)
      BY <2>2, <3>1, RecoverJumps
    <3>4. y.op = "recover" /\ y.todo = j
      BY <1>1, <3>2 DEF Process
    <3> QED BY <1>2, <2>5, <3>1, <3>2, <3>3, <3>4
  <2> QED BY <2>3, <2>4, <2>5
<1>5. CASE Files(m)!Quarantine(c) \/ Files(m)!ClearOwn(c) \/ Files(m)!ClearLatest(c) \/ Files(m)!MendLatest(c)
  <2>1. PICK l \in {"quarantine", "clearOwn", "clear", "mendLatest"} : Files(m)!At(c, l)
    BY <1>5 DEF Files!Quarantine, Files!ClearOwn, Files!ClearLatest, Files!MendLatest
  <2>2. proc' = [proc EXCEPT ![c] = Files(m)!Done(c)]
    <3>1. CASE Files(m)!ClearOwn(c)
      <4>1. Files(m)!At(c, "clearOwn")
        BY <3>1 DEF Files!ClearOwn
      <4>2. ~ First(t, "mendLatest")
        BY <4>1 DEF Files!At, First
      <4>3. "latest" \notin broken
        BY <1>1, <4>2 DEF Recovers
      <4> QED BY <3>1, <4>3 DEF Files!ClearOwn, Files!Continue
    <3>2. CASE ~ Files(m)!ClearOwn(c)
      BY <1>5, <3>2 DEF Files!Quarantine, Files!ClearLatest, Files!MendLatest, Files!Continue
    <3> QED BY <3>1, <3>2
  <2>3. /\ Next1(l, t, r)
        /\ Files(m)!Done(c) = (IF r = <<>> THEN Files(m)!Idle ELSE [x EXCEPT !.todo = r])
    BY <1>1, <2>1, AtStep
  <2>4. r # <<>>
    BY <2>3 DEF Next1, Rule, Brief
  <2>5. r \in Seq(Finding)
    <3>1. l # "loadLatest" /\ l \notin Making
      BY DEF Making
    <3> QED BY <1>1, <2>1, <3>1, RecoverHead
  <2> HIDE DEF r
  <2>6. PICK y : y = [x EXCEPT !.todo = r]
    OBVIOUS
  <2>7. y.op = "recover" /\ y.todo = r
    BY <1>1, <2>6 DEF Process
  <2> QED BY <1>2, <2>2, <2>3, <2>4, <2>5, <2>6, <2>7
<1> QED BY <1>3, <1>4, <1>5

\* A workspace is chosen only if it loads and is active.
LEMMA RecoverChooses ==
  ASSUME NEW m, Fit(m), NEW c, m.procs = {c}, StartInv(m, c), proc[c].op = "recover",
         Files(m)!ReadLatest(c) \/ Files(m)!Select(c)
  PROVE  Recovers(c)' /\ EndsWell(m, c)
<1> DEFINE x == proc[c]
<1>1. FilesInv(m) /\ c \in m.procs /\ x \in Process /\ proc \in [m.procs -> Process] /\ Recovers(c)
  BY DEF StartInv, FilesInv, Typed
<1>4. "latest" \notin broken'
  <2>1. broken' \subseteq broken
    BY DEF Files!ReadLatest, Files!Select, Files!files
  <2>2. ~ First(proc[c].todo, "mendLatest")
    BY DEF Files!ReadLatest, Files!Select, Files!At, First
  <2> QED BY <1>1, <2>1, <2>2 DEF Recovers
<1>2. CASE Files(m)!ReadLatest(c)
  <2>1. UNCHANGED <<state, latest>>
    BY <1>2 DEF Files!ReadLatest, Files!files
  <2>2. PICK j : j = IF latest = 0 THEN <<"select">> ELSE <<"loadLatest">>
    OBVIOUS
  <2>3. PICK y : y = [x EXCEPT !.w = latest, !.todo = j]
    OBVIOUS
  <2>4. proc' = [proc EXCEPT ![c] = y]
    BY <1>2, <2>2, <2>3 DEF Files!ReadLatest, Files!None
  <2>5. y.op = "recover" /\ y.todo = j /\ y.w = latest /\ proc'[c] = y
    BY <1>1, <2>3, <2>4 DEF Process
  <2>6. CASE latest = 0
    BY <1>4, <2>2, <2>5, <2>6, RecoverJumps, StillLooking DEF EndsWell
  <2>7. CASE latest # 0
    <3>1. j = <<"loadLatest">>
      BY <2>2, <2>7
    <3>2. ~ Carries(j) /\ ~ Publishes(j) /\ ~ Settles(j) /\ ~ First(j, "readIndex") /\ ~ First(j, "index")
      <4>1. Plan(<<"loadLatest">>, "loadLatest", {"named", "recover"})
        BY SinglePlans
      <4> QED BY <3>1, <4>1 DEF Plan, First
    <3> QED BY <1>4, <2>1, <2>5, <3>1, <3>2 DEF Recovers, EndsWell
  <2> QED BY <2>6, <2>7
<1>3. CASE Files(m)!Select(c)
  <2>1. /\ UNCHANGED <<state, latest>>
        /\ \/ proc' = [proc EXCEPT ![c] = [x EXCEPT !.todo = Files(m)!CreateSteps]]
           \/ \E w \in 1..m.workspaces :
                state[w].status = "active" /\ proc' = [proc EXCEPT ![c] = [x EXCEPT !.w = w, !.todo = <<"latest">>]]
    BY <1>3 DEF Files!Select, Files!GoTo, Files!files, Files!Workspaces
  <2>2. CASE proc' = [proc EXCEPT ![c] = [x EXCEPT !.todo = Files(m)!CreateSteps]]
    <3>1. PICK j : j = Files(m)!CreateSteps
      OBVIOUS
    <3>2. PICK y : y = [x EXCEPT !.todo = j]
      OBVIOUS
    <3>3. y.op = "recover" /\ y.todo = j /\ proc'[c] = y
      BY <1>1, <2>2, <3>1, <3>2 DEF Process
    <3>4. ~ Carries(j) /\ ~ Publishes(j) /\ ~ Settles(j) /\ ~ First(j, "readIndex") /\ ~ First(j, "index")
      BY <3>1, CreatePlan DEF Plan, First
    <3>5. Recovers(c)'
      BY <1>4, <3>1, <3>3, <3>4, RecoverJumps, StillMaking
    <3> QED BY <3>3, <3>5 DEF EndsWell
  <2>3. ASSUME NEW w \in 1..m.workspaces, state[w].status = "active",
               proc' = [proc EXCEPT ![c] = [x EXCEPT !.w = w, !.todo = <<"latest">>]]
        PROVE  Recovers(c)' /\ EndsWell(m, c)
    <3>1. PICK j : j = <<"latest">>
      OBVIOUS
    <3>2. PICK y : y = [x EXCEPT !.w = w, !.todo = j]
      OBVIOUS
    <3>3. y.op = "recover" /\ y.todo = j /\ y.w = w /\ proc'[c] = y
      BY <1>1, <2>3, <3>1, <3>2 DEF Process
    <3>4. ~ Carries(j) /\ ~ Settles(j) /\ ~ First(j, "readIndex") /\ ~ First(j, "index")
      <4>1. Plan(<<"latest">>, "latest", {"named", "publishes", "mild", "recover"})
        BY SinglePlans
      <4> QED BY <3>1, <4>1 DEF Plan, First
    <3>5. w # 0 /\ state'[w].status = "active" /\ j \in Seq(Making)
      <4>1. w # 0
        BY DEF Fit
      <4> QED BY <2>1, <2>3, <3>1, <4>1, RecoverJumps
    <3>6. Recovers(c)'
      BY <1>4, <3>3, <3>4, <3>5, StillMaking
    <3> QED BY <3>3, <3>6 DEF EndsWell
  <2> QED BY <2>1, <2>2, <2>3
<1> QED BY <1>2, <1>3

\* The steps with which it may end.
LEMMA RecoverEnds ==
  ASSUME NEW m, Fit(m), NEW c, m.procs = {c}, StartInv(m, c), proc[c].op = "recover",
         Files(m)!SaveLatest(c) \/ Files(m)!Unlock(c) \/ Files(m)!LoadLatest(c)
  PROVE  (proc'[c].op = "recover" => Recovers(c)') /\ EndsWell(m, c)
<1> DEFINE x == proc[c]  t == x.todo  r == Tail(t)  w == x.w  d == [x EXCEPT !.todo = r]
<1>1. FilesInv(m) /\ c \in m.procs /\ x \in Process /\ proc \in [m.procs -> Process] /\ Recovers(c)
  BY DEF StartInv, FilesInv, Typed
<1>2. /\ Carries(t) => x.st.status = "active"
      /\ Publishes(t) => w # 0 /\ state[w].status = "active"
      /\ Settles(t) => w # 0 /\ state[w].status = "active" /\ latest = w
      /\ First(t, "loadLatest") => latest = w
  BY <1>1 DEF Recovers
<1>3. ASSUME NEW l \in {"latest", "unlock"}, Files(m)!At(c, l)
      PROVE  /\ Next1(l, t, r) /\ r \in Seq(Making)
             /\ Files(m)!Done(c) = IF r = <<>> THEN Files(m)!Idle ELSE d
  <2>1. l # "loadLatest" /\ l \notin Finding
    BY DEF Finding
  <2>2. r \in Seq(Making)
    BY <1>1, <1>3, <2>1, RecoverHead
  <2> QED BY <1>1, <1>3, <2>2, AtStep
<1>4. Files(m)!Idle.op = "none" /\ "none" # "recover"
  BY DEF Files!Idle
<1>8. "latest" \notin broken'
  <2>1. broken' \subseteq broken
    BY DEF Files!SaveLatest, Files!Unlock, Files!LoadLatest, Files!files
  <2>2. ~ First(t, "mendLatest")
    BY DEF Files!SaveLatest, Files!Unlock, Files!LoadLatest, Files!At, First
  <2> QED BY <1>1, <2>1, <2>2 DEF Recovers
<1>5. CASE Files(m)!SaveLatest(c)
  <2>1. /\ Files(m)!At(c, "latest") /\ latest' = w /\ state' = state
        /\ proc' = [proc EXCEPT ![c] = Files(m)!Done(c)]
    BY <1>5 DEF Files!SaveLatest, Files!Continue
  <2>2. /\ Next1("latest", t, r) /\ r \in Seq(Making)
        /\ Files(m)!Done(c) = IF r = <<>> THEN Files(m)!Idle ELSE d
    BY <1>3, <2>1
  <2>3. w # 0 /\ state'[w].status = "active" /\ latest' = w
    BY <1>2, <2>1, <2>2 DEF Next1
  <2>5. (Carries(r) => Carries(t)) /\ ~ First(r, "readIndex") /\ ~ First(r, "index")
    BY <2>2 DEF Next1, Loading, Rule
  <2> HIDE DEF r
  <2>6. CASE r = <<>>
    <3>1. proc'[c] = Files(m)!Idle
      BY <1>1, <2>1, <2>2, <2>6
    <3> QED BY <1>4, <2>3, <3>1 DEF EndsWell
  <2>7. CASE r # <<>>
    <3>1. PICK y : y = d
      OBVIOUS
    <3>2. y.todo = r /\ y.w = w /\ y.st = x.st /\ proc'[c] = y /\ y.op = "recover"
      BY <1>1, <2>1, <2>2, <2>7, <3>1 DEF Process
    <3>3. Recovers(c)'
      BY <1>2, <1>8, <2>2, <2>3, <2>5, <3>2, StillMaking
    <3> QED BY <3>2, <3>3 DEF EndsWell
  <2> QED BY <2>6, <2>7
<1>6. CASE Files(m)!Unlock(c)
  <2>1. /\ Files(m)!At(c, "unlock") /\ UNCHANGED <<state, latest>>
        /\ proc' = [proc EXCEPT ![c] = [Files(m)!Done(c) EXCEPT !.item = 0]]
    BY <1>6 DEF Files!Unlock, Files!files, Files!None
  <2>2. /\ Next1("unlock", t, r) /\ r \in Seq(Making)
        /\ Files(m)!Done(c) = IF r = <<>> THEN Files(m)!Idle ELSE d
    BY <1>3, <2>1
  <2>3. w # 0 /\ state'[w].status = "active" /\ latest' = w
    BY <1>2, <2>1, <2>2 DEF Next1
  <2>5. ~ Carries(r) /\ ~ First(r, "readIndex") /\ ~ First(r, "index")
    BY <2>2 DEF Next1, Rule
  <2> HIDE DEF r
  <2>6. CASE r = <<>>
    <3>1. PICK y : y = [Files(m)!Idle EXCEPT !.item = 0]
      OBVIOUS
    <3>2. y = Files(m)!Idle
      BY <3>1 DEF Files!Idle, Files!None
    <3>3. proc'[c] = y
      BY <1>1, <2>1, <2>2, <2>6, <3>1
    <3> QED BY <1>4, <2>3, <3>2, <3>3 DEF EndsWell
  <2>7. CASE r # <<>>
    <3>1. PICK y : y = [d EXCEPT !.item = 0]
      OBVIOUS
    <3>2. y.todo = r /\ y.w = w /\ y.st = x.st /\ proc'[c] = y /\ y.op = "recover"
      BY <1>1, <2>1, <2>2, <2>7, <3>1 DEF Process
    <3>3. Recovers(c)'
      BY <1>8, <2>2, <2>3, <2>5, <3>2, StillMaking
    <3> QED BY <3>2, <3>3 DEF EndsWell
  <2> QED BY <2>6, <2>7
<1>7. CASE Files(m)!LoadLatest(c)
  <2>1. UNCHANGED <<state, latest>> /\ Files(m)!At(c, "loadLatest")
    BY <1>7 DEF Files!LoadLatest, Files!files
  <2>2. CASE Files(m)!Usable(w)
    <3>1. proc' = [proc EXCEPT ![c] = Files(m)!Idle]
      BY <1>7, <2>2 DEF Files!LoadLatest
    <3>2. proc'[c] = Files(m)!Idle
      BY <1>1, <3>1
    <3>3. latest = w /\ state[w].status = "active"
      BY <1>2, <2>1, <2>2 DEF Files!At, First, Files!Usable
    <3>4. w # 0
      <4>1. Next1("loadLatest", t, r) /\ Placed(m, c)
        BY <1>1, <2>1, AtStep
      <4>2. Named(t)
        BY <4>1 DEF Next1, Using, Naming
      <4> QED BY <4>1, <4>2 DEF Placed
    <3> QED BY <1>4, <2>1, <3>2, <3>3, <3>4 DEF EndsWell
  <2>3. CASE ~ Files(m)!Usable(w)
    <3>1. PICK j : j = <<"clear", "select">>
      OBVIOUS
    <3>2. PICK y : y = [x EXCEPT !.todo = j]
      OBVIOUS
    <3>3. proc' = [proc EXCEPT ![c] = y]
      BY <1>7, <2>3, <3>1, <3>2 DEF Files!LoadLatest, Files!GoTo
    <3>4. y.op = "recover" /\ y.todo = j /\ j \in Seq(Finding) /\ proc'[c] = y
      BY <1>1, <3>1, <3>2, <3>3, RecoverJumps DEF Process
    <3>5. Recovers(c)'
      BY <1>8, <3>4, StillLooking
    <3> QED BY <3>4, <3>5 DEF EndsWell
  <2> QED BY <2>2, <2>3
<1> QED BY <1>5, <1>6, <1>7

\* Recovery takes no other steps.
LEMMA RecoverStep ==
  ASSUME NEW m, Fit(m), NEW c, m.procs = {c}, StartInv(m, c), proc[c].op = "recover", Files(m)!Step(c)
  PROVE  /\ proc'[c].op = "recover" => Recovers(c)'
         /\ EndsWell(m, c) \/ Files(m)!NoWorkspaceLeft(c)
<1>1. FilesInv(m) /\ c \in m.procs /\ proc \in [m.procs -> Process] /\ Recovers(c)
  BY DEF StartInv, FilesInv, Typed
<1>2. ASSUME NEW l \in {"retain", "loadInput", "loadCompact", "loadArchive", "loadReactivate", "loadResume",
                        "readPrevious", "temporary"}, Files(m)!At(c, l)
      PROVE  FALSE
  <2>1. l # "loadLatest" /\ l \notin Finding /\ l \notin Making
    BY DEF Finding, Making
  <2> QED BY <1>1, <1>2, <2>1, RecoverHead
<1>3. ~ Files(m)!Retain(c) /\ ~ Files(m)!ReadPrevious(c) /\ ~ Files(m)!Temporary(c)
  BY <1>2 DEF Files!Retain, Files!ReadPrevious, Files!Temporary
<1>4. /\ ~ Files(m)!LoadForInput(c) /\ ~ Files(m)!LoadForCompaction(c) /\ ~ Files(m)!LoadToArchive(c)
      /\ ~ Files(m)!LoadToReactivate(c) /\ ~ Files(m)!LoadToResume(c)
  BY <1>2 DEF Files!LoadForInput, Files!LoadForCompaction, Files!LoadToArchive, Files!LoadToReactivate,
     Files!LoadToResume, Files!Load
<1>5. CASE Files(m)!NoWorkspaceLeft(c)
  <2>1. proc'[c] = Files(m)!Idle
    BY <1>1, <1>5 DEF Files!NoWorkspaceLeft
  <2> QED BY <1>5, <2>1 DEF Files!Idle
<1>6. ASSUME \/ Files(m)!TakeLock(c) \/ Files(m)!SaveState(c) \/ Files(m)!ReadIndex(c) \/ Files(m)!WriteIndex(c)
             \/ Files(m)!Layout(c)
      PROVE  (proc'[c].op = "recover" => Recovers(c)') /\ EndsWell(m, c)
  BY <1>6, RecoverMakes
<1>7. ASSUME \/ Files(m)!ListDirectories(c) \/ Files(m)!Probe(c) \/ Files(m)!Quarantine(c) \/ Files(m)!ClearOwn(c)
             \/ Files(m)!ClearLatest(c) \/ Files(m)!MendLatest(c)
      PROVE  Recovers(c)' /\ EndsWell(m, c)
  BY <1>7, RecoverLooks
<1>8. ASSUME Files(m)!ReadLatest(c) \/ Files(m)!Select(c) PROVE Recovers(c)' /\ EndsWell(m, c)
  BY <1>8, RecoverChooses
<1>9. ASSUME Files(m)!SaveLatest(c) \/ Files(m)!Unlock(c) \/ Files(m)!LoadLatest(c)
      PROVE  (proc'[c].op = "recover" => Recovers(c)') /\ EndsWell(m, c)
  BY <1>9, RecoverEnds
<1> QED BY <1>3, <1>4, <1>5, <1>6, <1>7, <1>8, <1>9 DEF Files!Step

\* The invariant of starts holds at first.
LEMMA StartInit ==
  ASSUME NEW m, Fit(m), NEW c, m.procs = {c}, Files(m)!Init, dirs \subseteq 1..m.workspaces
  PROVE  StartInv(m, c)
<1>1. FilesInv(m)
  BY FilesInit
<1>2. /\ state = [w \in 1..m.workspaces |-> IF w \in dirs THEN [status |-> "active", inputs |-> <<>>]
                                            ELSE Files(m)!NoFile]
      /\ index = dirs /\ broken = {} /\ proc = [p \in m.procs |-> Files(m)!Idle]
  BY DEF Files!Init, Files!Workspaces
<1>3. proc[c] = Files(m)!Idle /\ proc[c].todo = <<>> /\ proc[c].op = "none"
  BY <1>2 DEF Files!Idle
<1>4. Indexing(m, c)
  <2>1. \A w \in 1..m.workspaces : state[w] # Files(m)!NoFile => w \in index
    BY <1>2
  <2> QED BY <1>2, <1>3, <2>1 DEF Indexing, First
<1> QED BY <1>1, <1>3, <1>4 DEF StartInv

\* It is inductive, and a recovery that ends has named an active workspace.
LEMMA StartStep ==
  ASSUME NEW m, Fit(m), NEW c, m.procs = {c}, StartInv(m, c), [Files(m)!Next]_(Files(m)!vars)
  PROVE  StartInv(m, c)' /\ Files(m)!EndsActive(c)
<1>1. FilesInv(m) /\ Indexing(m, c) /\ c \in m.procs /\ proc \in [m.procs -> Process] /\ stops \in Nat
  BY DEF StartInv, FilesInv, Typed
<1>2. FilesInv(m)' /\ Indexing(m, c)'
  BY <1>1, FilesStep, IndexingStep
<1>3. Files(m)!Idle.op = "none"
  BY DEF Files!Idle
<1>4. SUFFICES (proc'[c].op = "recover" => Recovers(c)') /\ Files(m)!EndsActive(c)
  BY <1>2 DEF StartInv
<1>5. ASSUME Files(m)!Step(c) PROVE (proc'[c].op = "recover" => Recovers(c)') /\ Files(m)!EndsActive(c)
  <2>1. CASE proc[c].op = "recover"
    <3>1. /\ proc'[c].op = "recover" => Recovers(c)'
          /\ EndsWell(m, c) \/ Files(m)!NoWorkspaceLeft(c)
      BY <1>5, <2>1, RecoverStep
    <3> QED BY <1>3, <3>1 DEF Files!EndsActive, Files!None, Files!Workspaces, EndsWell
  <2>2. CASE proc[c].op # "recover"
    <3>1. PICK y : Turn(m, c, y)
      BY <1>1, <1>5, Turns
    <3>2. proc'[c].op # "recover"
      BY <1>1, <2>2, <3>1 DEF Turn
    <3> QED BY <2>2, <3>2 DEF Files!EndsActive
  <2> QED BY <2>1, <2>2
<1>6. ASSUME Files(m)!Crash(c) PROVE (proc'[c].op = "recover" => Recovers(c)') /\ Files(m)!EndsActive(c)
  <2>1. proc' = [proc EXCEPT ![c] = Files(m)!Idle] /\ stops' # stops
    BY <1>1, <1>6 DEF Files!Crash
  <2> QED BY <1>1, <1>3, <2>1 DEF Files!EndsActive
<1>10. ASSUME Files(m)!RecoveryFails(c)
       PROVE  (proc'[c].op = "recover" => Recovers(c)') /\ Files(m)!EndsActive(c)
  <2>1. Files(m)!Abort(c) /\ stops' # stops
    BY <1>1, <1>10 DEF Files!RecoveryFails
  <2>2. PICK z : /\ proc' = [proc EXCEPT ![c] = z] /\ proc'[c] = z /\ z.todo \in Remains
                 /\ z.op = (IF proc[c].op = "recover" THEN "fallback" ELSE proc[c].op) \/ z = Files(m)!Idle
                 /\ proc[c].op = "recover" => z.op = "fallback"
    BY <1>1, <2>1, AbortTurns
  <2> QED BY <1>3, <2>1, <2>2 DEF Files!EndsActive
<1>7. ASSUME Files(m)!Damage
      PROVE  (proc'[c].op = "recover" => Recovers(c)') /\ Files(m)!EndsActive(c)
  <2>1. proc[c] = Files(m)!Idle /\ proc' = proc
    BY <1>1, <1>7 DEF Files!Damage
  <2> QED BY <1>3, <2>1 DEF Files!EndsActive
<1>8. ASSUME NEW o \in m.operations, NEW w, Files(m)!Call(c, o, w)
      PROVE  (proc'[c].op = "recover" => Recovers(c)') /\ Files(m)!EndsActive(c)
  <2>1. /\ proc[c] = Files(m)!Idle
        /\ \E i : proc' = [proc EXCEPT ![c] = [Files(m)!Idle EXCEPT !.op = o, !.todo = Files(m)!Steps(o), !.w = w,
                                                                     !.item = i]]
    BY <1>8 DEF Files!Call
  <2>2. proc'[c].op = o /\ proc'[c].todo = Files(m)!Steps(o)
    BY <1>1, <2>1 DEF Files!Idle
  <2>3. o = "recover" => Files(m)!Steps(o) = <<"mendLatest", "list">>
    BY DEF Files!Steps
  <2>4. PICK j : j = <<"mendLatest", "list">>
    OBVIOUS
  <2>5. j \in Seq(Finding) /\ First(j, "mendLatest")
    BY <2>4, RecoverJumps DEF First
  <2>6. o = "recover" => Recovers(c)'
    BY <2>2, <2>3, <2>4, <2>5, StillLooking
  <2> QED BY <1>3, <2>1, <2>2, <2>6 DEF Files!EndsActive
<1>9. ASSUME UNCHANGED Files(m)!vars PROVE (proc'[c].op = "recover" => Recovers(c)') /\ Files(m)!EndsActive(c)
  <2>1. UNCHANGED <<state, latest, broken, proc>>
    BY <1>9 DEF Files!vars, Files!files
  <2>2. (proc'[c].op = "recover" => Recovers(c)')
    BY <2>1 DEF StartInv, Recovers
  <2>3. Files(m)!EndsActive(c)
    BY <1>3, <2>1 DEF Files!EndsActive
  <2> QED BY <2>2, <2>3
<1> QED BY <1>5, <1>6, <1>7, <1>8, <1>9, <1>10 DEF Files!Next

\* It implies a complete index where nothing was interrupted.
LEMMA StartIndexed ==
  ASSUME NEW m, NEW c, m.procs = {c}, StartInv(m, c)
  PROVE  Files(m)!IndexIsComplete
<1>1. ASSUME \A p \in m.procs : proc[p] = Files(m)!Idle, stops = 0,
             NEW w \in 1..m.workspaces, state[w] # Files(m)!NoFile
      PROVE  w \in index
  <2>1. proc[c].todo = <<>>
    BY <1>1 DEF Files!Idle
  <2> QED BY <1>1, <2>1 DEF StartInv, Indexing, First
<1> QED BY <1>1 DEF Files!IndexIsComplete, Files!Workspaces

-----------------------------------------------------------------------------
(* The daily command.                                                       *)

Stages == {"SUCCESS", "PARTIAL", "FAILED"}
Statuses == Stages \cup {"none", "NOOP"}

\* The stages before the scores, those after them, and all of a command.
Unscored == {"idle", "snapshot", "sync", "bench", "mend", "features", "score"}
Scored == {"outcomes", "contexts", "group", "memory", "entity", "conclude"}
Places == Unscored \cup Scored \cup {"persist", "commit"}

Rows(d) == [id : 0..d.runs, status : Statuses, scope : SUBSET d.symbols, successful : SUBSET d.symbols]

Warehouse(d) ==
  [snapshot : BOOLEAN, bench : BOOLEAN, bars : [d.symbols -> 0..2], scored : [d.symbols -> 0..d.runs],
   ledger : SUBSET Rows(d)]

Command(d) ==
  [pc : Places, scope : SUBSET d.symbols, todo : SUBSET d.symbols, failed : SUBSET d.symbols,
   eligible : SUBSET d.symbols, ready : BOOLEAN, grouped : BOOLEAN, gaps : SUBSET Stages,
   builds : SUBSET Stages, problems : SUBSET {"PARTIAL", "FAILED"}, status : Statuses]

DailyTyped(d) ==
  /\ saved \in Warehouse(d) /\ here \in Warehouse(d)
  /\ spoiled \in BOOLEAN /\ run \in Command(d) /\ runs \in 0..d.runs
  /\ reply \in [told : Statuses, exit : {0, 1, 3, 255}]

\* A command works on what was committed, adds scores of its own and, last, its row.
Recorded(d) ==
  LET down == run.eligible \ run.failed  pc == run.pc IN
  /\ pc = "idle" => here = saved
  /\ pc # "idle" => reply.exit = 255
  /\ pc # "commit" => here.ledger = saved.ledger
  /\ pc \in Unscored => here.scored = saved.scored
  /\ \A s \in d.symbols : here.scored[s] = saved.scored[s] \/ (here.scored[s] = runs /\ s \in down)
  /\ pc = "commit" =>
       /\ here.ledger =
            saved.ledger \cup {[id |-> runs, status |-> run.status, scope |-> run.scope, successful |-> down]}
       /\ reply.told = run.status

\* No stage has had a problem and no symbol failed.
Clean == run.problems = {} /\ run.failed = {}

\* What that says of the symbols, stage after stage.
Sound(d) ==
  LET pc == run.pc IN
  /\ run.failed \cup run.eligible \cup run.todo \subseteq run.scope
  /\ pc = "snapshot" => run.eligible = {} /\ run.gaps = {}
  /\ pc \in {"sync", "bench"} => run.scope # {} /\ run.eligible = {} /\ run.gaps = {}
  /\ pc = "bench" => run.scope = run.todo \cup run.failed
  /\ pc = "mend" =>
       /\ run.scope # {} /\ run.eligible \cap run.todo = {}
       /\ run.scope = run.todo \cup run.failed \cup run.eligible
       /\ run.problems = {} => run.ready
       /\ run.gaps \subseteq {"SUCCESS"} => \A s \in run.eligible : here.bars[s] # 1
  /\ pc \in {"features", "score"} /\ Clean =>
       run.scope # {} /\ run.eligible = run.scope /\ run.ready /\ \A s \in run.scope : here.bars[s] # 1
  /\ pc \in Scored /\ Clean => \A s \in run.scope : here.bars[s] = 2 /\ here.scored[s] = runs
  /\ pc \in {"persist", "commit"} /\ run.status = "SUCCESS" =>
       \A s \in run.scope : here.bars[s] = 2 /\ here.scored[s] = runs

DailyInv(d) ==
  /\ DailyTyped(d) /\ Recorded(d) /\ Sound(d)
  /\ Commands(d)!WorkIsRecorded /\ Commands(d)!ExitTellsTheLedger

-----------------------------------------------------------------------------
(* The stages of a command, and what they leave alone.                      *)

\* The problems of a run after a stage, by the stage's results.
LEMMA ProblemsOf ==
  ASSUME NEW d, DailyTyped(d), NEW results \in SUBSET Stages
  PROVE  LET p == Commands(d)!Problems(results) IN
         p \in SUBSET {"PARTIAL", "FAILED"} /\ (p = {} <=> run.problems = {} /\ results \subseteq {"SUCCESS"})
<1>1. run.problems \subseteq {"PARTIAL", "FAILED"}
  BY DEF DailyTyped, Command
<1>2. CASE results \subseteq {"SUCCESS"}
  <2>1. Commands(d)!StageStatus(results) = "SUCCESS"
    BY <1>2 DEF Commands!StageStatus
  <2>2. Commands(d)!Problems(results) = run.problems
    BY <2>1 DEF Commands!Problems
  <2> QED BY <1>1, <1>2, <2>2
<1>3. CASE ~ (results \subseteq {"SUCCESS"})
  <2>1. results # {} /\ results \cap {"PARTIAL", "FAILED"} # {}
    BY <1>3 DEF Stages
  <2>2. Commands(d)!StageStatus(results) \in {"PARTIAL", "FAILED"}
    BY <2>1 DEF Commands!StageStatus
  <2>3. Commands(d)!Problems(results) = run.problems \cup ({Commands(d)!StageStatus(results)} \ {"SUCCESS"})
    BY <2>1 DEF Commands!Problems
  <2> QED BY <1>1, <1>3, <2>2, <2>3
<1> QED BY <1>2, <1>3

\* A stage works in its transaction.
LEMMA Stage ==
  ASSUME NEW d, DailyInv(d), UNCHANGED <<saved, reply, runs>>,
         run' \in Command(d), here' \in Warehouse(d), spoiled' \in BOOLEAN, Recorded(d)', Sound(d)'
  PROVE  DailyInv(d)'
<1>1. DailyTyped(d)'
  BY DEF DailyInv, DailyTyped
<1>2. Commands(d)!WorkIsRecorded' /\ Commands(d)!ExitTellsTheLedger'
  BY DEF DailyInv, Commands!WorkIsRecorded, Commands!ExitTellsTheLedger, Commands!ExitCode
<1> QED BY <1>1, <1>2 DEF DailyInv

\* Before the scores, and after them.
LEMMA Records ==
  ASSUME NEW d, DailyInv(d), UNCHANGED <<saved, reply, runs>>, run.pc \notin {"idle", "commit"},
         run'.pc \notin {"idle", "commit"}, here'.ledger = here.ledger, here'.scored = here.scored,
         \/ run.pc \in Unscored
         \/ run'.pc \notin Unscored /\ run'.eligible = run.eligible /\ run'.failed = run.failed
  PROVE  Recorded(d)'
<1>1. run.pc \in Unscored => here.scored = saved.scored
  BY DEF DailyInv, Recorded
<1>2. /\ run'.pc \in Unscored => here'.scored = saved'.scored
      /\ \A s \in d.symbols :
           \/ here'.scored[s] = saved'.scored[s]
           \/ here'.scored[s] = runs' /\ s \in run'.eligible \ run'.failed
  BY <1>1 DEF DailyInv, Recorded
<1> QED BY <1>2 DEF DailyInv, Recorded

\* What a failure in a nested transaction may have set.
LEMMA CaughtTyped ==
  ASSUME NEW d, DailyTyped(d), NEW b, Commands(d)!Caught(b)
  PROVE  spoiled' \in BOOLEAN
BY DEF DailyTyped, Commands!Caught

\* The universe snapshot keeps the invariant of the command.
LEMMA SnapshotStep ==
  ASSUME NEW d, DailyInv(d), Commands(d)!TakeSnapshot
  PROVE  DailyInv(d)'
<1>1. PICK r \in Stages, current \in BOOLEAN :
        /\ here' = [here EXCEPT !.snapshot = current]
        /\ run' = [run EXCEPT
             !.pc = IF r = "FAILED" \/ run.scope = {} THEN "conclude" ELSE "sync",
             !.problems = Commands(d)!Problems({r}) \cup (IF run.scope = {} THEN {"FAILED"} ELSE {}),
             !.failed = IF r = "FAILED" THEN run.scope ELSE {}]
        /\ Commands(d)!Caught(r = "FAILED")
  BY DEF Commands!TakeSnapshot, Commands!Result, Stages
<1>2. run.pc = "snapshot" /\ UNCHANGED <<saved, reply, runs>> /\ DailyTyped(d)
  BY DEF Commands!TakeSnapshot, Commands!At, Commands!Working, DailyInv
<1>3. PICK pc : pc = IF r = "FAILED" \/ run.scope = {} THEN "conclude" ELSE "sync"
  OBVIOUS
<1>4. PICK ps : ps = Commands(d)!Problems({r}) \cup (IF run.scope = {} THEN {"FAILED"} ELSE {})
  OBVIOUS
<1>5. PICK fs : fs = IF r = "FAILED" THEN run.scope ELSE {}
  OBVIOUS
<1>6. ps \in SUBSET {"PARTIAL", "FAILED"} /\ (pc = "conclude" => ps # {})
  BY <1>2, <1>3, <1>4, ProblemsOf
<1>7. pc \in {"conclude", "sync"} /\ pc \in Places /\ fs \in SUBSET d.symbols /\ fs \subseteq run.scope
  BY <1>2, <1>3, <1>5 DEF DailyTyped, Command, Places, Unscored, Scored
<1>8. run' = [run EXCEPT !.pc = pc, !.problems = ps, !.failed = fs]
  BY <1>1, <1>3, <1>4, <1>5
<1>9. /\ run' \in Command(d) /\ run'.pc = pc /\ run'.problems = ps /\ run'.failed = fs
      /\ run'.scope = run.scope /\ run'.todo = run.todo /\ run'.eligible = run.eligible /\ run'.gaps = run.gaps
  BY <1>2, <1>6, <1>7, <1>8 DEF DailyTyped, Command
<1>10. here' \in Warehouse(d) /\ here'.ledger = here.ledger /\ here'.scored = here.scored
  BY <1>1, <1>2 DEF DailyTyped, Warehouse
<1>11. Recorded(d)'
  BY <1>2, <1>7, <1>9, <1>10, Records DEF Unscored
<1>12. Sound(d)'
  <2>1. Sound(d)
    BY DEF DailyInv
  <2>2. pc = "sync" => run.scope # {}
    BY <1>3
  <2>3. pc \notin {"snapshot", "bench", "mend", "features", "score", "persist", "commit"}
    BY <1>7
  <2>4. run'.failed \cup run'.eligible \cup run'.todo \subseteq run'.scope
    BY <1>2, <1>7, <1>9, <2>1 DEF Sound
  <2> QED BY <1>2, <1>6, <1>7, <1>9, <2>1, <2>2, <2>3, <2>4 DEF Sound, Clean, Scored
<1>13. spoiled' \in BOOLEAN
  BY <1>1, <1>2, CaughtTyped
<1> QED BY <1>2, <1>9, <1>10, <1>11, <1>12, <1>13, Stage

\* The sync of the symbols' bars keeps the invariant of the command.
LEMMA SyncStep ==
  ASSUME NEW d, DailyInv(d), Commands(d)!Sync
  PROVE  DailyInv(d)'
<1> DEFINE stale == {s \in run.scope : here.bars[s] = 0}
<1>1. PICK synced \in SUBSET stale, bars \in [d.symbols -> 0..2] :
        /\ here' = [here EXCEPT !.bars = bars]
        /\ run' = [run EXCEPT
             !.pc = "bench", !.todo = run.scope \ (stale \ synced), !.failed = stale \ synced,
             !.problems = Commands(d)!Problems({IF s \in synced THEN "SUCCESS" ELSE "FAILED" : s \in stale})]
        /\ Commands(d)!Caught((stale \ synced) # {})
  BY DEF Commands!Sync, Commands!Bars, Commands!Behind, Commands!Whole
<1>2. run.pc = "sync" /\ UNCHANGED <<saved, reply, runs>> /\ DailyTyped(d)
  BY DEF Commands!Sync, Commands!At, Commands!Working, DailyInv
<1>3. PICK ps : ps = Commands(d)!Problems({IF s \in synced THEN "SUCCESS" ELSE "FAILED" : s \in stale})
  OBVIOUS
<1>4. PICK fs : fs = stale \ synced
  OBVIOUS
<1>5. PICK ts : ts = run.scope \ fs
  OBVIOUS
<1>6. ps \in SUBSET {"PARTIAL", "FAILED"}
  <2>1. {IF s \in synced THEN "SUCCESS" ELSE "FAILED" : s \in stale} \in SUBSET Stages
    BY DEF Stages
  <2> QED BY <1>2, <1>3, <2>1, ProblemsOf
<1>7. fs \in SUBSET d.symbols /\ fs \subseteq run.scope /\ ts \in SUBSET d.symbols /\ "bench" \in Places
      /\ run.scope = ts \cup fs
  BY <1>2, <1>4, <1>5 DEF DailyTyped, Command, Places, Unscored
<1>8. run' = [run EXCEPT !.pc = "bench", !.todo = ts, !.failed = fs, !.problems = ps]
  BY <1>1, <1>3, <1>4, <1>5
<1>9. /\ run' \in Command(d) /\ run'.pc = "bench" /\ run'.problems = ps /\ run'.failed = fs
      /\ run'.scope = run.scope /\ run'.todo = ts /\ run'.eligible = run.eligible /\ run'.gaps = run.gaps
  BY <1>2, <1>6, <1>7, <1>8 DEF DailyTyped, Command
<1>10. here' \in Warehouse(d) /\ here'.ledger = here.ledger /\ here'.scored = here.scored
  BY <1>1, <1>2 DEF DailyTyped, Warehouse
<1>11. Recorded(d)'
  BY <1>2, <1>9, <1>10, Records DEF Unscored
<1>12. Sound(d)'
  <2>1. Sound(d)
    BY DEF DailyInv
  <2>2. run'.scope # {} /\ run'.eligible = {} /\ run'.gaps = {} /\ run'.scope = run'.todo \cup run'.failed
    BY <1>2, <1>7, <1>9, <2>1 DEF Sound
  <2> QED BY <1>9, <2>2 DEF Sound, Scored
<1>13. spoiled' \in BOOLEAN
  BY <1>1, <1>2, CaughtTyped
<1> QED BY <1>2, <1>9, <1>10, <1>11, <1>12, <1>13, Stage

\* The benchmark's bars keep the invariant of the command.
LEMMA BenchmarkStep ==
  ASSUME NEW d, DailyInv(d), Commands(d)!Benchmark
  PROVE  DailyInv(d)'
<1>1. PICK done \in SUBSET Stages, bench \in BOOLEAN :
        /\ here' = [here EXCEPT !.bench = bench]
        /\ run' = [run EXCEPT !.pc = "mend", !.ready = done \subseteq {"SUCCESS"},
                              !.problems = Commands(d)!Problems(done)]
        /\ Commands(d)!Caught("FAILED" \in done)
  <2>1. PICK download \in Stages, build \in Stages, bench \in BOOLEAN :
          LET done == IF here.bench THEN {}
                      ELSE IF download = "SUCCESS" THEN {download, build} ELSE {download}
          IN  /\ here' = [here EXCEPT !.bench = bench]
              /\ run' = [run EXCEPT !.pc = "mend", !.ready = done \subseteq {"SUCCESS"},
                                    !.problems = Commands(d)!Problems(done)]
              /\ Commands(d)!Caught("FAILED" \in done)
    <3>1. Commands(d)!Result = Stages
      BY DEF Commands!Result, Stages
    <3> QED BY <3>1, Zenon DEF Commands!Benchmark
  <2>2. PICK done : done = IF here.bench THEN {} ELSE IF download = "SUCCESS" THEN {download, build} ELSE {download}
    OBVIOUS
  <2>3. done \in SUBSET Stages
    BY <2>2
  <2> QED BY <2>1, <2>2, <2>3
<1>2. run.pc = "bench" /\ UNCHANGED <<saved, reply, runs>> /\ DailyTyped(d)
  BY DEF Commands!Benchmark, Commands!At, Commands!Working, DailyInv
<1>3. PICK ps : ps = Commands(d)!Problems(done)
  OBVIOUS
<1>4. PICK ready \in BOOLEAN : ready <=> done \subseteq {"SUCCESS"}
  OBVIOUS
<1>5. ps \in SUBSET {"PARTIAL", "FAILED"} /\ (ps = {} => ready) /\ "mend" \in Places
  BY <1>2, <1>3, <1>4, ProblemsOf DEF Places, Unscored
<1>6. run' = [run EXCEPT !.pc = "mend", !.ready = ready, !.problems = ps]
  BY <1>1, <1>3, <1>4
<1>7. /\ run' \in Command(d) /\ run'.pc = "mend" /\ run'.problems = ps /\ run'.failed = run.failed
      /\ run'.scope = run.scope /\ run'.todo = run.todo /\ run'.eligible = run.eligible /\ run'.ready = ready
  BY <1>2, <1>5, <1>6 DEF DailyTyped, Command
<1>8. here' \in Warehouse(d) /\ here'.ledger = here.ledger /\ here'.scored = here.scored
  BY <1>1, <1>2 DEF DailyTyped, Warehouse
<1>9. Recorded(d)'
  BY <1>2, <1>7, <1>8, Records DEF Unscored
<1>10. Sound(d)'
  <2>1. Sound(d)
    BY DEF DailyInv
  <2>2. /\ run.scope # {} /\ run.eligible = {} /\ run.scope = run.todo \cup run.failed
    BY <1>2, <2>1 DEF Sound
  <2> QED BY <1>5, <1>7, <2>2 DEF Sound, Scored
<1>11. spoiled' \in BOOLEAN
  BY <1>1, <1>2, CaughtTyped
<1> QED BY <1>2, <1>7, <1>8, <1>9, <1>10, <1>11, Stage

\* Mending the bars of one symbol keeps the invariant of the command.
LEMMA MendStep ==
  ASSUME NEW d, DailyInv(d), NEW s \in run.todo, Commands(d)!Mend(s)
  PROVE  DailyInv(d)'
<1>1. PICK scan \in Stages, repair \in Stages \cup {"none"}, build \in Stages \cup {"none"}, bars \in 0..2 :
        /\ scan = "SUCCESS" => here.bars[s] # 1
        /\ repair # "none" <=> scan = "PARTIAL"
        /\ Commands(d)!Rebuilt(s, build, scan = "PARTIAL", bars)
        /\ here' = [here EXCEPT !.bars[s] = bars]
        /\ run' = [run EXCEPT
             !.todo = run.todo \ {s},
             !.gaps = run.gaps \cup ({scan, repair} \ {"none"}),
             !.builds = run.builds \cup ({build} \ {"none"}),
             !.eligible = IF build = "SUCCESS" THEN run.eligible \cup {s} ELSE run.eligible,
             !.failed = IF build = "SUCCESS" THEN run.failed ELSE run.failed \cup {s}]
        /\ Commands(d)!Caught(repair \in {"PARTIAL", "FAILED"} \/ build = "FAILED")
  <2>1. Commands(d)!Result = Stages /\ Commands(d)!Bars = 0..2 /\ Commands(d)!Gap = 1
    BY DEF Commands!Result, Stages, Commands!Bars, Commands!Behind, Commands!Whole, Commands!Gap
  <2> QED BY <2>1, ZenonT(60) DEF Commands!Mend
<1>2. run.pc = "mend" /\ UNCHANGED <<saved, reply, runs>> /\ DailyTyped(d) /\ Sound(d)
  BY DEF Commands!Mend, Commands!At, Commands!Working, DailyInv
<1>3. s \in d.symbols /\ run.todo \subseteq run.scope /\ s \in run.scope
  BY <1>2 DEF DailyTyped, Command, Sound
<1>4. PICK gs : gs = run.gaps \cup ({scan, repair} \ {"none"})
  OBVIOUS
<1>5. PICK bs : bs = run.builds \cup ({build} \ {"none"})
  OBVIOUS
<1>6. PICK es : es = IF build = "SUCCESS" THEN run.eligible \cup {s} ELSE run.eligible
  OBVIOUS
<1>7. PICK fs : fs = IF build = "SUCCESS" THEN run.failed ELSE run.failed \cup {s}
  OBVIOUS
<1>8. PICK ts : ts = run.todo \ {s}
  OBVIOUS
<1>9. /\ gs \in SUBSET Stages /\ bs \in SUBSET Stages /\ es \in SUBSET d.symbols /\ fs \in SUBSET d.symbols
      /\ ts \in SUBSET d.symbols
  BY <1>2, <1>3, <1>4, <1>5, <1>6, <1>7, <1>8 DEF DailyTyped, Command, Stages
<1>10. run' = [run EXCEPT !.todo = ts, !.gaps = gs, !.builds = bs, !.eligible = es, !.failed = fs]
  BY <1>1, <1>4, <1>5, <1>6, <1>7, <1>8
<1>11. /\ run' \in Command(d) /\ run'.pc = "mend" /\ run'.problems = run.problems /\ run'.failed = fs
       /\ run'.scope = run.scope /\ run'.todo = ts /\ run'.eligible = es /\ run'.ready = run.ready /\ run'.gaps = gs
  BY <1>2, <1>9, <1>10 DEF DailyTyped, Command
<1>12. /\ here' \in Warehouse(d) /\ here'.ledger = here.ledger /\ here'.scored = here.scored
       /\ here'.bars = [here.bars EXCEPT ![s] = bars]
  BY <1>1, <1>2, <1>3 DEF DailyTyped, Warehouse
<1>13. Recorded(d)'
  BY <1>2, <1>11, <1>12, Records DEF Unscored
<1>14. Sound(d)'
  <2>1. /\ run.scope # {} /\ run.eligible \cap run.todo = {}
        /\ run.scope = run.todo \cup run.failed \cup run.eligible
        /\ run.problems = {} => run.ready
        /\ run.gaps \subseteq {"SUCCESS"} => \A v \in run.eligible : here.bars[v] # 1
        /\ run.failed \cup run.eligible \cup run.todo \subseteq run.scope
    BY <1>2 DEF Sound
  <2>2. es \cap ts = {} /\ run.scope = ts \cup fs \cup es /\ fs \cup es \cup ts \subseteq run.scope
    BY <1>3, <1>6, <1>7, <1>8, <2>1
  <2>3. ASSUME gs \subseteq {"SUCCESS"}, NEW v \in es PROVE here'.bars[v] # 1
    <3>1. run.gaps \subseteq {"SUCCESS"} /\ scan = "SUCCESS"
      BY <1>4, <2>3 DEF Stages
    <3>2. CASE v = s
      <4>1. build = "SUCCESS"
        BY <1>6, <2>1, <2>3, <3>2
      <4>2. bars \in {here.bars[s], 2}
        BY <1>1, <3>1, <4>1 DEF Commands!Rebuilt, Commands!Whole
      <4>3. here'.bars[v] = bars
        BY <1>2, <1>3, <1>12, <3>2 DEF DailyTyped, Warehouse
      <4> QED BY <1>1, <3>1, <4>2, <4>3
    <3>3. CASE v # s
      <4>1. v \in run.eligible /\ v \in d.symbols
        BY <1>6, <1>9, <2>3, <3>3
      <4>2. here'.bars[v] = here.bars[v]
        BY <1>2, <1>12, <3>3, <4>1 DEF DailyTyped, Warehouse
      <4> QED BY <2>1, <3>1, <4>1, <4>2
    <3> QED BY <3>2, <3>3
  <2> QED BY <1>11, <2>1, <2>2, <2>3 DEF Sound, Scored
<1>15. spoiled' \in BOOLEAN
  BY <1>1, <1>2, CaughtTyped
<1> QED BY <1>2, <1>11, <1>12, <1>13, <1>14, <1>15, Stage

\* The end of mending keeps the invariant of the command.
LEMMA EndMendingStep ==
  ASSUME NEW d, DailyInv(d), Commands(d)!EndMending
  PROVE  DailyInv(d)'
<1>1. /\ run.pc = "mend" /\ run.todo = {} /\ UNCHANGED <<saved, reply, runs, here, spoiled>>
      /\ DailyTyped(d) /\ Sound(d)
  BY DEF Commands!EndMending, Commands!At, Commands!Working, DailyInv
<1>2. PICK ps : ps = Commands(d)!Problems(run.gaps) \cup Commands(d)!Problems(run.builds)
  OBVIOUS
<1>3. ps \in SUBSET {"PARTIAL", "FAILED"} /\ (ps = {} => run.problems = {} /\ run.gaps \subseteq {"SUCCESS"})
      /\ "features" \in Places
  <2>1. run.gaps \in SUBSET Stages /\ run.builds \in SUBSET Stages
    BY <1>1 DEF DailyTyped, Command
  <2>2. /\ Commands(d)!Problems(run.gaps) \in SUBSET {"PARTIAL", "FAILED"}
        /\ Commands(d)!Problems(run.gaps) = {} => run.problems = {} /\ run.gaps \subseteq {"SUCCESS"}
    BY <1>1, <2>1, ProblemsOf
  <2>3. Commands(d)!Problems(run.builds) \in SUBSET {"PARTIAL", "FAILED"}
    BY <1>1, <2>1, ProblemsOf
  <2> QED BY <1>2, <2>2, <2>3 DEF Places, Unscored
<1>4. run' = [run EXCEPT !.pc = "features", !.gaps = {}, !.builds = {}, !.problems = ps]
  BY <1>2 DEF Commands!EndMending
<1>5. /\ run' \in Command(d) /\ run'.pc = "features" /\ run'.problems = ps /\ run'.failed = run.failed
      /\ run'.scope = run.scope /\ run'.todo = run.todo /\ run'.eligible = run.eligible /\ run'.ready = run.ready
  BY <1>1, <1>3, <1>4 DEF DailyTyped, Command
<1>6. here' \in Warehouse(d) /\ spoiled' \in BOOLEAN
  BY <1>1 DEF DailyTyped
<1>7. Recorded(d)'
  BY <1>1, <1>5, Records DEF Unscored
<1>8. Sound(d)'
  <2>1. /\ run.scope # {} /\ run.scope = run.todo \cup run.failed \cup run.eligible
        /\ run.problems = {} => run.ready
        /\ run.gaps \subseteq {"SUCCESS"} => \A v \in run.eligible : here.bars[v] # 1
        /\ run.failed \cup run.eligible \cup run.todo \subseteq run.scope
    BY <1>1 DEF Sound
  <2>2. ASSUME ps = {}, run.failed = {} PROVE run.eligible = run.scope /\ run.ready /\ \A v \in run.scope : here.bars[v] # 1
    BY <1>1, <1>3, <2>1, <2>2
  <2> QED BY <1>1, <1>5, <2>1, <2>2 DEF Sound, Scored, Clean
<1> QED BY <1>1, <1>5, <1>6, <1>7, <1>8, Stage

\* Building features keeps the invariant of the command.
LEMMA FeaturesStep ==
  ASSUME NEW d, DailyInv(d), Commands(d)!BuildFeatures
  PROVE  DailyInv(d)'
<1>1. run.pc = "features" /\ UNCHANGED <<saved, reply, runs, here, spoiled>> /\ DailyTyped(d) /\ Sound(d)
  BY DEF Commands!BuildFeatures, Commands!At, Commands!Working, DailyInv
<1>2. ASSUME NEW pc \in {"outcomes", "score"}, NEW ps \in SUBSET {"PARTIAL", "FAILED"},
             run' = [run EXCEPT !.pc = pc, !.problems = ps] \/ (ps = run.problems /\ run' = [run EXCEPT !.pc = pc])
      PROVE  /\ run' \in Command(d) /\ run'.pc = pc /\ run'.problems = ps /\ run'.failed = run.failed
             /\ run'.scope = run.scope /\ run'.todo = run.todo /\ run'.eligible = run.eligible
             /\ run'.ready = run.ready
  <2>1. pc \in Places
    BY DEF Places, Unscored, Scored
  <2>2. CASE run' = [run EXCEPT !.pc = pc, !.problems = ps]
    BY <1>1, <2>1, <2>2 DEF DailyTyped, Command
  <2>3. CASE ps = run.problems /\ run' = [run EXCEPT !.pc = pc]
    BY <1>1, <2>1, <2>3 DEF DailyTyped, Command
  <2> QED BY <1>2, <2>2, <2>3
<1>3. PICK pc \in {"outcomes", "score"}, ps \in SUBSET {"PARTIAL", "FAILED"} :
        /\ run' = [run EXCEPT !.pc = pc, !.problems = ps] \/ (ps = run.problems /\ run' = [run EXCEPT !.pc = pc])
        /\ ps = {} => run.problems = {}
        /\ pc = "outcomes" /\ ps = {} => run.eligible \ run.failed = {} \/ ~ run.ready
  <2>1. CASE run.eligible \ run.failed = {} \/ ~ run.ready
    <3>1. run' = [run EXCEPT !.pc = "outcomes"]
      BY <2>1 DEF Commands!BuildFeatures, Commands!Downstream
    <3>2. PICK ps : ps = run.problems
      OBVIOUS
    <3>3. ps \in SUBSET {"PARTIAL", "FAILED"}
      BY <1>1, <3>2 DEF DailyTyped, Command
    <3> QED BY <2>1, <3>1, <3>2, <3>3
  <2>2. CASE ~ (run.eligible \ run.failed = {} \/ ~ run.ready)
    <3>1. PICK r \in Stages : run' = [run EXCEPT !.pc = IF r = "FAILED" THEN "outcomes" ELSE "score",
                                                 !.problems = Commands(d)!Problems({r})]
      BY <2>2 DEF Commands!BuildFeatures, Commands!Downstream, Commands!Result, Stages
    <3>2. PICK ps : ps = Commands(d)!Problems({r})
      OBVIOUS
    <3>3. PICK pc : pc = IF r = "FAILED" THEN "outcomes" ELSE "score"
      OBVIOUS
    <3>4. ps \in SUBSET {"PARTIAL", "FAILED"} /\ (ps = {} => run.problems = {} /\ r = "SUCCESS")
      BY <1>1, <3>2, ProblemsOf
    <3>5. run' = [run EXCEPT !.pc = pc, !.problems = ps]
      BY <3>1, <3>2, <3>3
    <3> QED BY <3>3, <3>4, <3>5
  <2> QED BY <2>1, <2>2
<1>4. /\ run' \in Command(d) /\ run'.pc = pc /\ run'.problems = ps /\ run'.failed = run.failed
      /\ run'.scope = run.scope /\ run'.todo = run.todo /\ run'.eligible = run.eligible /\ run'.ready = run.ready
  BY <1>2, <1>3
<1>5. here' \in Warehouse(d) /\ spoiled' \in BOOLEAN
  BY <1>1 DEF DailyTyped
<1>6. Recorded(d)'
  BY <1>1, <1>4, Records DEF Unscored
<1>7. Sound(d)'
  <2>1. Clean' => Clean
    BY <1>3, <1>4 DEF Clean
  <2>2. Clean => run.scope # {} /\ run.eligible = run.scope /\ run.ready /\ \A s \in run.scope : here.bars[s] # 1
    BY <1>1 DEF Sound
  <2>3. Clean' => pc # "outcomes"
    BY <1>3, <1>4, <2>1, <2>2 DEF Clean
  <2>4. run.failed \cup run.eligible \cup run.todo \subseteq run.scope
    BY <1>1 DEF Sound
  <2> QED BY <1>1, <1>4, <2>1, <2>2, <2>3, <2>4 DEF Sound, Scored
<1> QED BY <1>1, <1>4, <1>5, <1>6, <1>7, Stage

\* Scoring keeps the invariant of the command.
LEMMA ScoreStep ==
  ASSUME NEW d, DailyInv(d), Commands(d)!Score
  PROVE  DailyInv(d)'
<1> DEFINE down == run.eligible \ run.failed
<1>1. /\ run.pc = "score" /\ UNCHANGED <<saved, reply, runs>> /\ DailyTyped(d) /\ Sound(d)
      /\ spoiled' \in BOOLEAN
  BY CaughtTyped DEF Commands!Score, Commands!At, Commands!Working, DailyInv
<1>2. run.failed \cup run.eligible \cup run.todo \subseteq run.scope /\ "outcomes" \in Places
  BY <1>1 DEF Sound, Places, Scored
<1>3. CASE \E scored \in SUBSET {s \in down : here.bars[s] # 0} :
             /\ here' = [here EXCEPT !.scored = [s \in d.symbols |-> IF s \in scored THEN runs ELSE here.scored[s]]]
             /\ run' = [run EXCEPT !.pc = "outcomes",
                                   !.problems = Commands(d)!Problems({Commands(d)!ScoreResult(scored)})]
  <2>1. PICK scored \in SUBSET {s \in down : here.bars[s] # 0} :
             /\ here' = [here EXCEPT !.scored = [s \in d.symbols |-> IF s \in scored THEN runs ELSE here.scored[s]]]
             /\ run' = [run EXCEPT !.pc = "outcomes",
                                   !.problems = Commands(d)!Problems({Commands(d)!ScoreResult(scored)})]
    BY <1>3
  <2>2. PICK ps : ps = Commands(d)!Problems({Commands(d)!ScoreResult(scored)})
    OBVIOUS
  <2>3. ps \in SUBSET {"PARTIAL", "FAILED"} /\ (ps = {} => run.problems = {} /\ scored = down)
    <3>1. PICK r : r = Commands(d)!ScoreResult(scored)
      OBVIOUS
    <3>2. r \in {"SUCCESS", "PARTIAL"} /\ (r = "SUCCESS" => scored = down)
      BY <3>1 DEF Commands!ScoreResult, Commands!Downstream
    <3>3. {r} \in SUBSET Stages
      BY <3>2 DEF Stages
    <3> QED BY <1>1, <2>2, <3>1, <3>2, <3>3, ProblemsOf
  <2>4. run' = [run EXCEPT !.pc = "outcomes", !.problems = ps]
    BY <2>1, <2>2
  <2>5. /\ run' \in Command(d) /\ run'.pc = "outcomes" /\ run'.problems = ps /\ run'.failed = run.failed
        /\ run'.scope = run.scope /\ run'.todo = run.todo /\ run'.eligible = run.eligible
    BY <1>1, <1>2, <2>3, <2>4 DEF DailyTyped, Command
  <2>6. PICK sc : sc = [s \in d.symbols |-> IF s \in scored THEN runs ELSE here.scored[s]]
    OBVIOUS
  <2>7. sc \in [d.symbols -> 0..d.runs]
    BY <1>1, <2>6 DEF DailyTyped, Warehouse
  <2>8. here' \in Warehouse(d) /\ here'.ledger = here.ledger /\ here'.scored = sc /\ here'.bars = here.bars
    BY <1>1, <2>1, <2>6, <2>7 DEF DailyTyped, Warehouse
  <2>9. Recorded(d)'
    <3>1. Recorded(d) /\ here.scored = saved.scored /\ reply.exit = 255 /\ here.ledger = saved.ledger
      BY <1>1 DEF DailyInv, Recorded, Unscored
    <3>2. \A s \in d.symbols :
            here'.scored[s] = saved.scored[s] \/ (here'.scored[s] = runs /\ s \in down)
      BY <2>1, <2>6, <2>8, <3>1
    <3>3. "outcomes" \notin Unscored
      BY DEF Unscored
    <3> QED BY <1>1, <2>5, <2>8, <3>1, <3>2, <3>3 DEF Recorded
  <2>10. Sound(d)'
    <3>1. ASSUME ps = {}, run.failed = {}, NEW s \in run.scope PROVE here'.bars[s] = 2 /\ here'.scored[s] = runs
      <4>1. Clean
        BY <2>3, <3>1 DEF Clean
      <4>2. run.eligible = run.scope /\ here.bars[s] # 1
        BY <1>1, <4>1 DEF Sound
      <4>3. s \in scored /\ here.bars[s] # 0 /\ s \in d.symbols
        BY <1>1, <2>3, <3>1, <4>2 DEF DailyTyped, Command
      <4>4. here.bars[s] \in 0..2
        BY <1>1, <4>3 DEF DailyTyped, Warehouse
      <4> QED BY <2>6, <2>8, <4>2, <4>3, <4>4
    <3> QED BY <1>1, <1>2, <2>5, <3>1 DEF Sound, Clean
  <2> QED BY <1>1, <2>5, <2>8, <2>9, <2>10, Stage
<1>4. CASE run' = [run EXCEPT !.pc = "outcomes", !.problems = Commands(d)!Problems({"FAILED"})] /\ here' = here
  <2>1. PICK ps : ps = Commands(d)!Problems({"FAILED"})
    OBVIOUS
  <2>2. ps \in SUBSET {"PARTIAL", "FAILED"} /\ ps # {}
    <3>1. {"FAILED"} \in SUBSET Stages
      BY DEF Stages
    <3> QED BY <1>1, <2>1, <3>1, ProblemsOf
  <2>3. run' = [run EXCEPT !.pc = "outcomes", !.problems = ps]
    BY <1>4, <2>1
  <2>4. /\ run' \in Command(d) /\ run'.pc = "outcomes" /\ run'.problems = ps /\ run'.failed = run.failed
        /\ run'.scope = run.scope /\ run'.todo = run.todo /\ run'.eligible = run.eligible
    BY <1>1, <1>2, <2>2, <2>3 DEF DailyTyped, Command
  <2>5. here' \in Warehouse(d) /\ Recorded(d)'
    BY <1>1, <1>4, <2>4, Records DEF DailyTyped, Unscored
  <2>6. Sound(d)'
    BY <1>2, <2>2, <2>4 DEF Sound, Clean, Scored
  <2> QED BY <1>1, <2>4, <2>5, <2>6, Stage
<1>5. \/ \E scored \in SUBSET {s \in down : here.bars[s] # 0} :
             /\ here' = [here EXCEPT !.scored = [s \in d.symbols |-> IF s \in scored THEN runs ELSE here.scored[s]]]
             /\ run' = [run EXCEPT !.pc = "outcomes",
                                   !.problems = Commands(d)!Problems({Commands(d)!ScoreResult(scored)})]
      \/ run' = [run EXCEPT !.pc = "outcomes", !.problems = Commands(d)!Problems({"FAILED"})] /\ here' = here
  <2>1. Commands(d)!Downstream = down /\ Commands(d)!Behind = 0
    BY DEF Commands!Downstream, Commands!Behind
  <2> QED BY <2>1 DEF Commands!Score
<1> QED BY <1>3, <1>4, <1>5

\* Derived results keep the invariant of the command.
LEMMA DeriveStep ==
  ASSUME NEW d, DailyInv(d), Commands(d)!Derive
  PROVE  DailyInv(d)'
<1>1. /\ run.pc \in {"outcomes", "contexts", "group", "memory", "entity"}
      /\ UNCHANGED <<saved, reply, runs, here>> /\ DailyTyped(d) /\ Sound(d) /\ spoiled' \in BOOLEAN
  BY CaughtTyped DEF Commands!Derive, Commands!Following, Commands!Working, DailyInv
<1>2. PICK r \in Stages, second \in Stages :
        run' = [run EXCEPT !.pc = Commands(d)!Following[run.pc],
                           !.problems = Commands(d)!Problems({r}) \cup Commands(d)!Problems({second}),
                           !.grouped = IF run.pc = "group" THEN r # "FAILED" ELSE run.grouped]
  <2>1. Commands(d)!Possible(run.pc) \subseteq Stages /\ Commands(d)!Result = Stages
    BY DEF Commands!Possible, Commands!Result, Stages
  <2> QED BY <2>1 DEF Commands!Derive, Commands!At, Stages
<1>3. PICK pc : pc = Commands(d)!Following[run.pc]
  OBVIOUS
<1>4. PICK ps : ps = Commands(d)!Problems({r}) \cup Commands(d)!Problems({second})
  OBVIOUS
<1>5. PICK g \in BOOLEAN : g <=> IF run.pc = "group" THEN r # "FAILED" ELSE run.grouped
  OBVIOUS
<1>6. pc \in Scored /\ pc \in Places /\ run.pc \in Scored
  <2>1. pc \in {"contexts", "group", "memory", "entity", "conclude"}
    BY <1>1, <1>3 DEF Commands!Following
  <2> QED BY <1>1, <2>1 DEF Scored, Places
<1>7. ps \in SUBSET {"PARTIAL", "FAILED"} /\ (ps = {} => run.problems = {})
  <2>1. {r} \in SUBSET Stages /\ {second} \in SUBSET Stages
    OBVIOUS
  <2>2. /\ Commands(d)!Problems({r}) \in SUBSET {"PARTIAL", "FAILED"}
        /\ Commands(d)!Problems({r}) = {} => run.problems = {}
    BY <1>1, <2>1, ProblemsOf
  <2>3. Commands(d)!Problems({second}) \in SUBSET {"PARTIAL", "FAILED"}
    BY <1>1, <2>1, ProblemsOf
  <2> QED BY <1>4, <2>2, <2>3
<1>8. (IF run.pc = "group" THEN r # "FAILED" ELSE run.grouped) = g
  BY <1>1, <1>5 DEF DailyTyped, Command
<1>9. run' = [run EXCEPT !.pc = pc, !.problems = ps, !.grouped = g]
  BY <1>2, <1>3, <1>4, <1>8
<1>10. /\ run' \in Command(d) /\ run'.pc = pc /\ run'.problems = ps /\ run'.failed = run.failed
       /\ run'.scope = run.scope /\ run'.todo = run.todo /\ run'.eligible = run.eligible
  BY <1>1, <1>6, <1>7, <1>9 DEF DailyTyped, Command
<1>11. pc \notin Unscored \cup {"idle", "commit", "persist"} /\ run.pc \notin {"idle", "commit"}
  BY <1>1, <1>6 DEF Scored, Unscored
<1>12. Recorded(d)'
  BY <1>1, <1>10, <1>11, Records
<1>13. Sound(d)'
  <2>1. Clean' => Clean
    BY <1>7, <1>10 DEF Clean
  <2>2. Clean => \A s \in run.scope : here.bars[s] = 2 /\ here.scored[s] = runs
    BY <1>1, <1>6 DEF Sound
  <2>3. run.failed \cup run.eligible \cup run.todo \subseteq run.scope
    BY <1>1 DEF Sound
  <2> QED BY <1>1, <1>10, <1>11, <2>1, <2>2, <2>3 DEF Sound, Unscored
<1>14. here' \in Warehouse(d)
  BY <1>1 DEF DailyTyped
<1> QED BY <1>1, <1>10, <1>12, <1>13, <1>14, Stage

\* The status that the row will have tells every problem of the run.
LEMMA ConcludeStep ==
  ASSUME NEW d, DailyInv(d), Commands(d)!Conclude
  PROVE  DailyInv(d)'
<1>1. run.pc = "conclude" /\ UNCHANGED <<saved, reply, runs, here, spoiled>> /\ DailyTyped(d) /\ Sound(d)
  BY DEF Commands!Conclude, Commands!At, Commands!Working, DailyInv
<1>2. PICK final : final = Commands(d)!FinalStatus
  OBVIOUS
<1>3. final \in Statuses /\ (final = "SUCCESS" => Clean)
  <2>1. \/ final = "FAILED"
        \/ final = "PARTIAL"
        \/ final = "SUCCESS" /\ Clean
    BY <1>2 DEF Commands!FinalStatus, Clean
  <2> QED BY <2>1 DEF Statuses, Stages
<1>4. run' = [run EXCEPT !.pc = "persist", !.status = final] /\ "persist" \in Places
  BY <1>2 DEF Commands!Conclude, Places
<1>5. /\ run' \in Command(d) /\ run'.pc = "persist" /\ run'.status = final /\ run'.failed = run.failed
      /\ run'.scope = run.scope /\ run'.todo = run.todo /\ run'.eligible = run.eligible
  BY <1>1, <1>3, <1>4 DEF DailyTyped, Command
<1>6. here' \in Warehouse(d) /\ spoiled' \in BOOLEAN
  BY <1>1 DEF DailyTyped
<1>7. Recorded(d)'
  BY <1>1, <1>5, Records DEF Unscored
<1>8. Sound(d)'
  <2>1. Clean => \A s \in run.scope : here.bars[s] = 2 /\ here.scored[s] = runs
    BY <1>1 DEF Sound, Scored
  <2>2. run.failed \cup run.eligible \cup run.todo \subseteq run.scope
    BY <1>1 DEF Sound
  <2> QED BY <1>1, <1>3, <1>5, <2>1, <2>2 DEF Sound, Scored
<1> QED BY <1>1, <1>5, <1>6, <1>7, <1>8, Stage

\* Writing the row keeps the invariant of the command.
LEMMA PersistStep ==
  ASSUME NEW d, DailyInv(d), Commands(d)!Persist
  PROVE  DailyInv(d)'
<1> DEFINE down == run.eligible \ run.failed
           row == [id |-> runs, status |-> run.status, scope |-> run.scope, successful |-> down]
<1>1. /\ run.pc = "persist" /\ UNCHANGED <<saved, runs, spoiled>> /\ DailyTyped(d) /\ Sound(d) /\ Recorded(d)
      /\ here' = [here EXCEPT !.ledger = here.ledger \cup {row}]
      /\ reply' = [reply EXCEPT !.told = run.status] /\ run' = [run EXCEPT !.pc = "commit"]
  BY DEF Commands!Persist, Commands!At, Commands!Downstream, DailyInv
<1>2. /\ run' \in Command(d) /\ run'.pc = "commit" /\ run'.status = run.status /\ run'.failed = run.failed
      /\ run'.scope = run.scope /\ run'.todo = run.todo /\ run'.eligible = run.eligible
  <2>1. "commit" \in Places
    BY DEF Places
  <2> QED BY <1>1, <2>1 DEF DailyTyped, Command
<1>3. row \in Rows(d)
  <2>1. runs \in 0..d.runs /\ run.status \in Statuses /\ run.scope \in SUBSET d.symbols /\ down \in SUBSET d.symbols
    BY <1>1 DEF DailyTyped, Command
  <2> HIDE DEF down
  <2> QED BY <2>1 DEF Rows
<1> HIDE DEF row
<1>4. /\ here' \in Warehouse(d) /\ here'.ledger = here.ledger \cup {row} /\ here'.scored = here.scored
      /\ here'.bars = here.bars
  BY <1>1, <1>3 DEF DailyTyped, Warehouse
<1>5. reply' \in [told : Statuses, exit : {0, 1, 3, 255}] /\ reply'.told = run.status /\ reply'.exit = reply.exit
  BY <1>1 DEF DailyTyped, Command
<1>6. reply.exit = 255 /\ here.ledger = saved.ledger
  BY <1>1 DEF Recorded
<1>7. DailyTyped(d)'
  BY <1>1, <1>2, <1>4, <1>5 DEF DailyTyped
<1>8. Recorded(d)'
  <2>1. /\ \A s \in d.symbols : here'.scored[s] = saved.scored[s] \/ (here'.scored[s] = runs /\ s \in down)
    BY <1>1, <1>4 DEF Recorded
  <2>2. here'.ledger = saved.ledger \cup {row}
    BY <1>4, <1>6
  <2>3. run'.eligible \ run'.failed = down
    BY <1>2
  <2>4. "commit" \notin Unscored
    BY DEF Unscored
  <2> QED BY <1>1, <1>2, <1>5, <1>6, <2>1, <2>2, <2>3, <2>4 DEF Recorded, row
<1>9. Sound(d)'
  <2>1. run.status = "SUCCESS" => \A s \in run.scope : here.bars[s] = 2 /\ here.scored[s] = runs
    BY <1>1 DEF Sound
  <2>2. run.failed \cup run.eligible \cup run.todo \subseteq run.scope
    BY <1>1 DEF Sound
  <2> QED BY <1>1, <1>2, <1>4, <2>1, <2>2 DEF Sound, Scored
<1>10. Commands(d)!WorkIsRecorded' /\ Commands(d)!ExitTellsTheLedger'
  BY <1>1, <1>5, <1>6 DEF DailyInv, Commands!WorkIsRecorded, Commands!ExitTellsTheLedger
<1> QED BY <1>7, <1>8, <1>9, <1>10 DEF DailyInv

\* The idle command and the missing reply are well typed.
LEMMA DailyIdle ==
  ASSUME NEW d
  PROVE  /\ Commands(d)!Idle \in Command(d)
         /\ Commands(d)!Silent \in [told : Statuses, exit : {0, 1, 3, 255}]
<1> DEFINE no == "none"  pc == "idle"  f == FALSE  e == {}
<1>1. pc \in Places /\ no \in Statuses /\ f \in BOOLEAN /\ e \in SUBSET d.symbols /\ e \in SUBSET Stages
      /\ e \in SUBSET {"PARTIAL", "FAILED"}
  BY DEF Places, Unscored, Statuses
<1> HIDE DEF no, pc, f, e
<1>2. [pc |-> pc, scope |-> e, todo |-> e, failed |-> e, eligible |-> e, ready |-> f, grouped |-> f,
       gaps |-> e, builds |-> e, problems |-> e, status |-> no] \in Command(d)
  BY <1>1 DEF Command
<1>3. [told |-> no, exit |-> 255] \in [told : Statuses, exit : {0, 1, 3, 255}]
  BY <1>1
<1> QED BY <1>2, <1>3 DEF Commands!Idle, Commands!Silent, Commands!NoExit, no, pc, f, e

\* Nothing runs.
LEMMA Rests ==
  ASSUME NEW d, DailyTyped(d)', run' = Commands(d)!Idle, here' = saved',
         Commands(d)!WorkIsRecorded', Commands(d)!ExitTellsTheLedger'
  PROVE  DailyInv(d)'
<1>1. /\ run'.pc = "idle" /\ run'.scope = {} /\ run'.todo = {} /\ run'.failed = {} /\ run'.eligible = {}
      /\ run'.gaps = {}
  BY DEF Commands!Idle
<1>2. Recorded(d)'
  BY <1>1 DEF Recorded
<1>3. Sound(d)'
  BY <1>1 DEF Sound, Scored
<1> QED BY <1>2, <1>3 DEF DailyInv

\* A run that ends with what it said in the ledger keeps the invariant.
LEMMA RunEnds ==
  ASSUME NEW d, DailyInv(d), saved' \in Warehouse(d), NEW exit \in {0, 1, 3, 255}, Commands(d)!Ends(exit),
         Commands(d)!WorkIsRecorded',
         exit \in {0, 3} => \E row \in saved'.ledger :
           row.id = runs /\ row.status = reply.told /\ Commands(d)!ExitCode(row.status) = exit
  PROVE  DailyInv(d)'
<1>1. /\ run' = Commands(d)!Idle /\ here' = saved' /\ spoiled' = FALSE /\ runs' = runs
      /\ reply' = [reply EXCEPT !.exit = exit] /\ DailyTyped(d)
  BY DEF Commands!Ends, DailyInv
<1>2. reply' \in [told : Statuses, exit : {0, 1, 3, 255}] /\ reply'.exit = exit /\ reply'.told = reply.told
  BY <1>1 DEF DailyTyped
<1>3. DailyTyped(d)'
  BY <1>1, <1>2, DailyIdle DEF DailyTyped
<1>4. Commands(d)!ExitTellsTheLedger'
  BY <1>1, <1>2 DEF Commands!ExitTellsTheLedger, Commands!ExitCode
<1> QED BY <1>1, <1>3, <1>4, Rests

\* The transaction is rolled back.
LEMMA RollsBack ==
  ASSUME NEW d, DailyInv(d), saved' = saved, NEW exit \in {1, 255}, Commands(d)!Ends(exit)
  PROVE  DailyInv(d)' /\ Commands(d)!SuccessIsCurrent
<1>1. saved' \in Warehouse(d) /\ Commands(d)!WorkIsRecorded'
  BY DEF DailyInv, DailyTyped, Commands!WorkIsRecorded
<1>2. DailyInv(d)'
  BY <1>1, RunEnds
<1>3. Commands(d)!SuccessIsCurrent
  BY DEF Commands!SuccessIsCurrent
<1> QED BY <1>2, <1>3

\* The commit publishes scores and row together, and a success is current.
LEMMA CommitStep ==
  ASSUME NEW d, DailyInv(d), Commands(d)!Commit
  PROVE  DailyInv(d)' /\ Commands(d)!SuccessIsCurrent
<1>1. CASE spoiled
  BY <1>1, RollsBack DEF Commands!Commit
<1>2. CASE ~ spoiled
  <2> DEFINE down == run.eligible \ run.failed
             row == [id |-> runs, status |-> run.status, scope |-> run.scope, successful |-> down]
  <2>1. run.pc = "commit" /\ saved' = here /\ Commands(d)!Ends(Commands(d)!ExitCode(run.status))
    BY <1>2 DEF Commands!Commit, Commands!At
  <2>2. /\ DailyTyped(d) /\ Sound(d) /\ here.ledger = saved.ledger \cup {row} /\ reply.told = run.status
        /\ \A s \in d.symbols : here.scored[s] = saved.scored[s] \/ (here.scored[s] = runs /\ s \in down)
    BY <2>1 DEF DailyInv, Recorded
  <2>3. PICK e : e = Commands(d)!ExitCode(run.status)
    OBVIOUS
  <2>4. e \in {0, 1, 3, 255}
    BY <2>3 DEF Commands!ExitCode
  <2>5. row.id = runs /\ row.status = run.status /\ row.scope = run.scope /\ row.successful = down
    OBVIOUS
  <2> HIDE DEF row
  <2>6. Commands(d)!WorkIsRecorded'
    <3>1. ASSUME NEW s \in d.symbols, here.scored[s] # 0
          PROVE  \E w \in here.ledger : w.id = here.scored[s] /\ s \in w.successful
      <4>1. CASE here.scored[s] = saved.scored[s]
        <5>1. \E w \in saved.ledger : w.id = saved.scored[s] /\ s \in w.successful
          BY <3>1, <4>1 DEF DailyInv, Commands!WorkIsRecorded
        <5> QED BY <2>2, <4>1, <5>1
      <4>2. CASE here.scored[s] = runs /\ s \in down
        BY <2>2, <2>5, <4>2
      <4> QED BY <2>2, <4>1, <4>2
    <3> QED BY <2>1, <3>1 DEF Commands!WorkIsRecorded
  <2>7. \E w \in saved'.ledger : w.id = runs /\ w.status = reply.told /\ Commands(d)!ExitCode(w.status) = e
    BY <2>1, <2>2, <2>3, <2>5
  <2>8. DailyInv(d)'
    <3>1. saved' \in Warehouse(d)
      BY <2>1, <2>2 DEF DailyTyped
    <3> QED BY <2>1, <2>3, <2>4, <2>6, <2>7, <3>1, RunEnds
  <2>9. Commands(d)!SuccessIsCurrent
    <3>1. run.status = "SUCCESS" => \A s \in run.scope : here.bars[s] = 2 /\ here.scored[s] = runs
      BY <2>1, <2>2 DEF Sound
    <3>2. \A w \in saved'.ledger \ saved.ledger : w = row
      BY <2>1, <2>2
    <3> QED BY <2>1, <2>5, <3>1, <3>2 DEF Commands!SuccessIsCurrent, Commands!Whole
  <2> QED BY <2>8, <2>9
<1> QED BY <1>1, <1>2

\* A command begins.
LEMMA Begins ==
  ASSUME NEW d, d.runs \in Nat, DailyInv(d), NEW r \in Command(d), Commands(d)!Begins(r),
         r.failed = {} /\ r.eligible = {} /\ r.todo = {} /\ r.gaps = {},
         r.pc = "snapshot" \/ (r.pc = "persist" /\ r.status # "SUCCESS")
  PROVE  DailyInv(d)'
<1>1. /\ run.pc = "idle" /\ runs < d.runs /\ run' = r /\ here' = saved /\ spoiled' = FALSE
      /\ reply' = Commands(d)!Silent /\ runs' = runs + 1 /\ saved' = saved /\ DailyTyped(d)
  BY DEF Commands!Begins, Commands!At, DailyInv
<1>2. runs' \in 0..d.runs
  BY <1>1 DEF DailyTyped
<1>3. reply'.exit = 255
  BY <1>1 DEF Commands!Silent, Commands!NoExit
<1>4. DailyTyped(d)'
  BY <1>1, <1>2, DailyIdle DEF DailyTyped
<1>5. Recorded(d)'
  BY <1>1, <1>3 DEF Recorded
<1>6. Sound(d)'
  BY <1>1 DEF Sound, Scored
<1>7. Commands(d)!WorkIsRecorded' /\ Commands(d)!ExitTellsTheLedger'
  BY <1>1, <1>3 DEF DailyInv, Commands!WorkIsRecorded, Commands!ExitTellsTheLedger
<1> QED BY <1>4, <1>5, <1>6, <1>7 DEF DailyInv

\* A run begins with nothing of its own.
LEMMA BeginStep ==
  ASSUME NEW d, d.runs \in Nat, DailyInv(d), Commands(d)!Begin \/ Commands(d)!BeginNoop
  PROVE  DailyInv(d)'
<1>1. Commands(d)!Idle \in Command(d) /\ Commands(d)!Idle.status = "none"
      /\ Commands(d)!Idle.failed = {} /\ Commands(d)!Idle.eligible = {} /\ Commands(d)!Idle.todo = {}
      /\ Commands(d)!Idle.gaps = {}
  BY DailyIdle DEF Commands!Idle
<1>2. "snapshot" \in Places /\ "persist" \in Places /\ "NOOP" \in Statuses
  BY DEF Places, Unscored, Statuses
<1>3. CASE Commands(d)!Begin
  <2>1. PICK scope \in SUBSET d.symbols : Commands(d)!Begins([Commands(d)!Idle EXCEPT !.pc = "snapshot", !.scope = scope])
    BY <1>3 DEF Commands!Begin
  <2>2. PICK r : r = [Commands(d)!Idle EXCEPT !.pc = "snapshot", !.scope = scope]
    OBVIOUS
  <2>3. r \in Command(d) /\ r.pc = "snapshot" /\ r.failed = {} /\ r.eligible = {} /\ r.todo = {} /\ r.gaps = {}
    BY <1>1, <1>2, <2>2 DEF Command
  <2> QED BY <2>1, <2>2, <2>3, Begins
<1>4. CASE Commands(d)!BeginNoop
  <2>1. PICK r : r = [Commands(d)!Idle EXCEPT !.pc = "persist", !.status = "NOOP"]
    OBVIOUS
  <2>2. /\ r \in Command(d) /\ r.pc = "persist" /\ r.failed = {} /\ r.eligible = {} /\ r.todo = {} /\ r.gaps = {}
        /\ r.status = "NOOP"
    BY <1>1, <1>2, <2>1 DEF Command
  <2>3. Commands(d)!Begins(r)
    BY <1>4, <2>1 DEF Commands!BeginNoop
  <2> QED BY <2>2, <2>3, Begins
<1> QED BY <1>3, <1>4

\* Another command, between two of these.
LEMMA ElsewhereStep ==
  ASSUME NEW d, d.runs \in Nat, DailyInv(d), Commands(d)!Elsewhere
  PROVE  DailyInv(d)' /\ saved'.ledger = saved.ledger
<1>1. run.pc = "idle" /\ here' = saved' /\ UNCHANGED <<spoiled, run, reply, runs>> /\ DailyTyped(d)
  BY DEF Commands!Elsewhere, Commands!At, DailyInv
<1>2. /\ saved' \in Warehouse(d) /\ saved'.ledger = saved.ledger
      /\ \A s \in d.symbols : saved'.scored[s] = saved.scored[s] \/ saved'.scored[s] = 0
  <2>1. CASE \E s \in d.symbols, b \in 0..2 : saved' = [saved EXCEPT !.bars[s] = b]
    BY <1>1, <2>1 DEF DailyTyped, Warehouse
  <2>2. CASE \E s \in d.symbols : saved' = [saved EXCEPT !.scored[s] = 0]
    BY <1>1, <2>2 DEF DailyTyped, Warehouse
  <2>3. CASE \E b \in BOOLEAN : saved' = [saved EXCEPT !.snapshot = TRUE, !.bench = b]
    <3>1. PICK b \in BOOLEAN : saved' = [saved EXCEPT !.snapshot = TRUE, !.bench = b]
      BY <2>3
    <3>2. PICK t \in BOOLEAN : t = TRUE
      OBVIOUS
    <3>3. saved' = [saved EXCEPT !.snapshot = t, !.bench = b]
      BY <3>1, <3>2
    <3> QED BY <1>1, <3>3 DEF DailyTyped, Warehouse
  <2>4. Commands(d)!Bars = 0..2
    BY DEF Commands!Bars, Commands!Behind, Commands!Whole
  <2> QED BY <2>1, <2>2, <2>3, <2>4 DEF Commands!Elsewhere
<1>3. DailyTyped(d)'
  BY <1>1, <1>2 DEF DailyTyped
<1>4. Commands(d)!WorkIsRecorded'
  BY <1>2 DEF DailyInv, Commands!WorkIsRecorded
<1>5. Commands(d)!ExitTellsTheLedger'
  BY <1>1, <1>2 DEF DailyInv, Commands!ExitTellsTheLedger, Commands!ExitCode
<1>6. Recorded(d)'
  BY <1>1 DEF Recorded
<1>7. Sound(d)'
  BY <1>1 DEF DailyInv, Sound, Scored
<1> QED BY <1>2, <1>3, <1>4, <1>5, <1>6, <1>7 DEF DailyInv

\* The invariant of the command holds at first.
LEMMA DailyInit ==
  ASSUME NEW d, d.runs \in Nat, Commands(d)!Init
  PROVE  DailyInv(d)
<1>1. /\ saved = Commands(d)!Bare /\ here = Commands(d)!Bare /\ spoiled = FALSE /\ run = Commands(d)!Idle
      /\ reply = Commands(d)!Silent /\ runs = 0
  BY DEF Commands!Init
<1>2. Commands(d)!Bare \in Warehouse(d)
  <2> DEFINE bars == [s \in d.symbols |-> 0]  scored == [s \in d.symbols |-> 0]  f == FALSE  e == {}
  <2>1. bars \in [d.symbols -> 0..2] /\ scored \in [d.symbols -> 0..d.runs] /\ f \in BOOLEAN /\ e \in SUBSET Rows(d)
    OBVIOUS
  <2> HIDE DEF bars, scored, f, e
  <2>2. [snapshot |-> f, bench |-> f, bars |-> bars, scored |-> scored, ledger |-> e] \in Warehouse(d)
    BY <2>1 DEF Warehouse
  <2>3. Commands(d)!Bare = [snapshot |-> f, bench |-> f, bars |-> bars, scored |-> scored, ledger |-> e]
    BY Zenon DEF Commands!Bare, Commands!Behind, bars, scored, f, e
  <2> QED BY <2>2, <2>3
<1>3. DailyTyped(d)
  <2>1. run \in Command(d) /\ reply \in [told : Statuses, exit : {0, 1, 3, 255}]
    BY <1>1, DailyIdle
  <2>2. saved \in Warehouse(d) /\ here \in Warehouse(d)
    BY <1>1, <1>2
  <2>3. runs \in 0..d.runs
    <3>1. runs = 0
      BY <1>1
    <3> QED BY <3>1
  <2>4. spoiled \in BOOLEAN
    <3>1. spoiled = FALSE
      BY <1>1
    <3> QED BY <3>1
  <2> QED BY <2>1, <2>2, <2>3, <2>4 DEF DailyTyped
<1>4. \A s \in d.symbols : saved.scored[s] = 0
  BY <1>1 DEF Commands!Bare
<1>5. reply.exit = 255
  BY <1>1 DEF Commands!Silent, Commands!NoExit
<1>6. /\ run.pc = "idle" /\ run.scope = {} /\ run.todo = {} /\ run.failed = {} /\ run.eligible = {}
  BY <1>1 DEF Commands!Idle
<1>7. Recorded(d)
  BY <1>1, <1>6 DEF Recorded
<1>8. Sound(d)
  BY <1>6 DEF Sound, Scored
<1>9. Commands(d)!WorkIsRecorded /\ Commands(d)!ExitTellsTheLedger
  BY <1>4, <1>5 DEF Commands!WorkIsRecorded, Commands!ExitTellsTheLedger
<1> QED BY <1>3, <1>7, <1>8, <1>9 DEF DailyInv

\* It is inductive, and a commit of a success is of current work.
LEMMA DailyStep ==
  ASSUME NEW d, d.runs \in Nat, DailyInv(d), [Commands(d)!Next]_(Commands(d)!vars)
  PROVE  DailyInv(d)' /\ Commands(d)!SuccessIsCurrent
<1>1. ASSUME \/ Commands(d)!TakeSnapshot \/ Commands(d)!Sync \/ Commands(d)!Benchmark
             \/ \E s \in run.todo : Commands(d)!Mend(s)
             \/ Commands(d)!EndMending \/ Commands(d)!BuildFeatures \/ Commands(d)!Score \/ Commands(d)!Derive
             \/ Commands(d)!Conclude
      PROVE  DailyInv(d)' /\ saved' = saved
  <2>1. DailyInv(d)'
    BY <1>1, SnapshotStep, SyncStep, BenchmarkStep, MendStep, EndMendingStep, FeaturesStep, ScoreStep, DeriveStep,
       ConcludeStep
  <2>2. saved' = saved
    BY <1>1 DEF Commands!TakeSnapshot, Commands!Sync, Commands!Benchmark, Commands!Mend, Commands!EndMending,
       Commands!BuildFeatures, Commands!Score, Commands!Derive, Commands!Conclude, Commands!Working
  <2> QED BY <2>1, <2>2
<1>2. ASSUME Commands(d)!Begin \/ Commands(d)!BeginNoop \/ Commands(d)!Persist
      PROVE  DailyInv(d)' /\ saved' = saved
  <2>1. DailyInv(d)'
    BY <1>2, BeginStep, PersistStep
  <2>2. saved' = saved
    BY <1>2 DEF Commands!Begin, Commands!BeginNoop, Commands!Begins, Commands!Persist
  <2> QED BY <2>1, <2>2
<1>3. ASSUME saved'.ledger = saved.ledger PROVE Commands(d)!SuccessIsCurrent
  BY <1>3 DEF Commands!SuccessIsCurrent
<1>4. ASSUME Commands(d)!Fail \/ Commands(d)!Crash PROVE DailyInv(d)' /\ Commands(d)!SuccessIsCurrent
  BY <1>4, RollsBack DEF Commands!Fail, Commands!Crash, Commands!NoExit
<1>5. ASSUME UNCHANGED Commands(d)!vars PROVE DailyInv(d)' /\ saved' = saved
  BY <1>5 DEF Commands!vars, DailyInv, DailyTyped, Recorded, Sound, Clean, Commands!WorkIsRecorded,
     Commands!ExitTellsTheLedger, Commands!ExitCode
<1> QED BY <1>1, <1>2, <1>3, <1>4, <1>5, CommitStep, ElsewhereStep DEF Commands!Next

\* It types the state as the specification does.
LEMMA CommandsTyped ==
  ASSUME NEW d, DailyInv(d)
  PROVE  Commands(d)!TypeOK
<1>1. DailyTyped(d) /\ Sound(d)
  BY DEF DailyInv
<1>2. Commands(d)!Bars = 0..2 /\ Commands(d)!NoExit = 255
  BY DEF Commands!Bars, Commands!Behind, Commands!Whole, Commands!NoExit
<1>3. \A w \in {saved, here} :
        /\ w.snapshot \in BOOLEAN /\ w.bench \in BOOLEAN
        /\ w.bars \in [d.symbols -> 0..2] /\ w.scored \in [d.symbols -> 0..d.runs]
  BY <1>1 DEF DailyTyped, Warehouse
<1>4. /\ run.failed \cup run.eligible \cup run.todo \subseteq run.scope
      /\ run.problems \subseteq {"PARTIAL", "FAILED"} /\ reply.exit \in {0, 1, 3, 255}
      /\ spoiled \in BOOLEAN /\ runs \in 0..d.runs
  BY <1>1 DEF DailyTyped, Sound, Command
<1> QED BY <1>2, <1>3, <1>4 DEF Commands!TypeOK

-----------------------------------------------------------------------------
(* Each component, for any processes, operations, symbols and bounds.       *)

\* The directories that exist at first are workspaces of the model.
LEMMA FirstWorkspace ==
  ASSUME NEW m, Files(m)!Init, 1 \in 1..m.workspaces
  PROVE  dirs \subseteq 1..m.workspaces
BY DEF Files!Init

\* The files of a root and the locks of its workspaces are what the operations take
\* them for, in every state.
THEOREM WorkspacesAreSound ==
  ASSUME NEW m, Fit(m), 1 \in 1..m.workspaces
  PROVE  Files(m)!Spec => []Files(m)!TypeOK
<1> DEFINE Inv == FilesInv(m) /\ broken \subseteq Shared
<1>1. Files(m)!Init => Inv
  BY FirstWorkspace, FilesInit DEF Files!Init
<1>2. Inv /\ [Files(m)!Next]_(Files(m)!vars) => Inv'
  BY FilesStep, StateWriters
<1>3. Inv => Files(m)!TypeOK
  BY FilesTyped
<1> HIDE DEF Inv
<1> QED BY <1>1, <1>2, <1>3, PTL DEF Files!Spec

\* An archived workspace stays archived until reactivate_workspace saves it, whatever
\* processes and operations run (archive_workspace, reactivate_workspace).
THEOREM ArchivesAreKept ==
  ASSUME NEW m, Fit(m), 1 \in 1..m.workspaces
  PROVE  Files(m)!Spec => [][\A w \in 1..m.workspaces : Files(m)!ArchiveKept(w)]_(Files(m)!vars)
<1>1. Files(m)!Init => FilesInv(m)
  BY FirstWorkspace, FilesInit
<1>2. FilesInv(m) /\ [Files(m)!Next]_(Files(m)!vars) => FilesInv(m)'
  BY FilesStep
<1>3. FilesInv(m) /\ [Files(m)!Next]_(Files(m)!vars) =>
        [\A w \in 1..m.workspaces : Files(m)!ArchiveKept(w)]_(Files(m)!vars)
  BY ArchiveStep
<1> QED BY <1>1, <1>2, <1>3, PTL DEF Files!Spec

\* An input whose recording was reported is in the workspace or in its archive, and
\* latest.json names a saved workspace, while inputs are recorded, compacted and
\* resumed and workspaces created by any processes, any of which may die.
THEOREM InputsAreKept ==
  ASSUME NEW m, Fit(m), 1 \in 1..m.workspaces, m.operations \subseteq Mild
  PROVE  Files(m)!Spec => [](Files(m)!AcknowledgedInputsAreKept /\ Files(m)!LatestWasSaved)
<1>1. Files(m)!Init => KeptInv(m)
  BY FirstWorkspace, KeptInit
<1>2. KeptInv(m) /\ [Files(m)!Next]_(Files(m)!vars) => KeptInv(m)'
  BY KeptStep
<1>3. KeptInv(m) => Files(m)!AcknowledgedInputsAreKept /\ Files(m)!LatestWasSaved
  BY DEF KeptInv
<1> QED BY <1>1, <1>2, <1>3, PTL DEF Files!Spec

\* With one process after another index.json lists every workspace that was saved, and
\* recover_workspace ends with an active workspace that latest.json names, whatever
\* deaths and damage left of workspace.json and latest.json; an index.json that does not
\* parse makes it give up, but leaves an active workspace for the next start.
THEOREM StartsRecover ==
  ASSUME NEW m, Fit(m), 1 \in 1..m.workspaces, NEW c, m.procs = {c}
  PROVE  Files(m)!Spec => []Files(m)!IndexIsComplete /\ [][Files(m)!EndsActive(c)]_(Files(m)!vars)
<1>1. Files(m)!Init => StartInv(m, c)
  BY FirstWorkspace, StartInit
<1>2. StartInv(m, c) /\ [Files(m)!Next]_(Files(m)!vars) => StartInv(m, c)'
  BY StartStep
<1>3. StartInv(m, c) /\ [Files(m)!Next]_(Files(m)!vars) => [Files(m)!EndsActive(c)]_(Files(m)!vars)
  BY StartStep
<1>4. StartInv(m, c) => Files(m)!IndexIsComplete
  BY StartIndexed
<1> QED BY <1>1, <1>2, <1>3, <1>4, PTL DEF Files!Spec

\* What daily commands have scored is committed with their ledger row, and the exit
\* codes 0 and 3 tell of a row that is there (DailyMaintenanceService, maintain daily).
THEOREM CommandsAreRecorded ==
  ASSUME NEW d, d.runs \in Nat
  PROVE  Commands(d)!Spec =>
           [](Commands(d)!TypeOK /\ Commands(d)!WorkIsRecorded /\ Commands(d)!ExitTellsTheLedger)
<1>1. Commands(d)!Init => DailyInv(d)
  BY DailyInit
<1>2. DailyInv(d) /\ [Commands(d)!Next]_(Commands(d)!vars) => DailyInv(d)'
  BY DailyStep
<1>3. DailyInv(d) => Commands(d)!TypeOK /\ Commands(d)!WorkIsRecorded /\ Commands(d)!ExitTellsTheLedger
  BY CommandsTyped DEF DailyInv
<1> QED BY <1>1, <1>2, <1>3, PTL DEF Commands!Spec

\* A run recorded as a success has, for every symbol of its scope, all bars up to the
\* session and a score of its own (_final_result).
THEOREM SuccessesAreCurrent ==
  ASSUME NEW d, d.runs \in Nat
  PROVE  Commands(d)!Spec => [][Commands(d)!SuccessIsCurrent]_(Commands(d)!vars)
<1>1. Commands(d)!Init => DailyInv(d)
  BY DailyInit
<1>2. DailyInv(d) /\ [Commands(d)!Next]_(Commands(d)!vars) => DailyInv(d)'
  BY DailyStep
<1>3. DailyInv(d) /\ [Commands(d)!Next]_(Commands(d)!vars) => [Commands(d)!SuccessIsCurrent]_(Commands(d)!vars)
  BY DailyStep
<1> QED BY <1>1, <1>2, <1>3, PTL DEF Commands!Spec

-----------------------------------------------------------------------------
(* The parts that MCMaintenanceRun checks.                                  *)

PartsInv ==
  /\ part = "states" => FilesInv(StatesModel)
  /\ part = "inputs" => KeptInv(InputsModel)
  /\ part = "startup" => StartInv(StartupModel, c1)
  /\ part = "daily" => DailyInv(DailyModel)
  /\ part = "again" => DailyInv(AgainModel)
  /\ broken \subseteq Shared

\* The models of the run fit, and are of the kinds that the theorems need.
LEMMA ModelsFit ==
  /\ Fit(StatesModel) /\ Fit(InputsModel) /\ Fit(StartupModel)
  /\ InputsModel.operations \subseteq Mild /\ StartupModel.procs = {c1}
  /\ 1 \in 1..StatesModel.workspaces /\ 1 \in 1..InputsModel.workspaces /\ 1 \in 1..StartupModel.workspaces
  /\ DailyModel.runs \in Nat /\ AgainModel.runs \in Nat
<1>1. Fit(StatesModel) /\ 1 \in 1..StatesModel.workspaces
  BY RecordsAssumption DEF Fit, StatesModel, Calls
<1>2. Fit(InputsModel) /\ 1 \in 1..InputsModel.workspaces /\ InputsModel.operations \subseteq Mild
  BY RecordsAssumption DEF Fit, InputsModel, Calls, Mild
<1>3. Fit(StartupModel) /\ 1 \in 1..StartupModel.workspaces /\ StartupModel.procs = {c1}
  BY RecordsAssumption DEF Fit, StartupModel, Calls
<1>4. DailyModel.runs \in Nat /\ AgainModel.runs \in Nat
  BY DEF DailyModel, AgainModel
<1> QED BY <1>1, <1>2, <1>3, <1>4

\* The invariant of the part at hand holds at first.
LEMMA PartsBegin == PartsInit => PartsInv
<1> SUFFICES ASSUME PartsInit PROVE PartsInv
  OBVIOUS
<1> USE ModelsFit
<1>1. ASSUME part = "states" PROVE FilesInv(StatesModel)
  <2>1. Files(StatesModel)!Init
    BY <1>1 DEF PartsInit
  <2> QED BY <2>1, FirstWorkspace, FilesInit
<1>2. ASSUME part = "inputs" PROVE KeptInv(InputsModel)
  <2>1. Files(InputsModel)!Init
    BY <1>2 DEF PartsInit
  <2> QED BY <2>1, FirstWorkspace, KeptInit
<1>3. ASSUME part = "startup" PROVE StartInv(StartupModel, c1)
  <2>1. Files(StartupModel)!Init
    BY <1>3 DEF PartsInit
  <2> QED BY <2>1, FirstWorkspace, StartInit
<1>4. ASSUME part = "daily" PROVE DailyInv(DailyModel)
  <2>1. Commands(DailyModel)!Init
    BY <1>4 DEF PartsInit
  <2> QED BY <2>1, DailyInit
<1>5. ASSUME part = "again" PROVE DailyInv(AgainModel)
  <2>1. Commands(AgainModel)!Init
    BY <1>5 DEF PartsInit
  <2> QED BY <2>1, DailyInit
<1>6. broken \subseteq Shared
  BY DEF PartsInit, Files!Init
<1> QED BY <1>1, <1>2, <1>3, <1>4, <1>5, <1>6 DEF PartsInv

\* A step of a part, or of none of those with records.
LEMMA PartsMoves ==
  ASSUME [PartsNext]_<<part, vars, workspaceVars, dailyVars>>
  PROVE  /\ part' = part
         /\ part = "states" => [Files(StatesModel)!Next]_(Files(StatesModel)!vars)
         /\ part = "inputs" => [Files(InputsModel)!Next]_(Files(InputsModel)!vars)
         /\ part = "startup" => [Files(StartupModel)!Next]_(Files(StartupModel)!vars)
         /\ part = "daily" => [Commands(DailyModel)!Next]_(Commands(DailyModel)!vars)
         /\ part = "again" => [Commands(AgainModel)!Next]_(Commands(AgainModel)!vars)
         /\ part \in {"states", "inputs", "startup"} \/ broken' = broken
<1>1. ASSUME UNCHANGED <<part, vars, workspaceVars, dailyVars>>
      PROVE  /\ part' = part
             /\ \A m : UNCHANGED Files(m)!vars
             /\ \A d : UNCHANGED Commands(d)!vars
             /\ broken' = broken
  BY <1>1 DEF workspaceVars, dailyVars, Files!vars, Files!files, Commands!vars
<1>2. ASSUME PartsNext
      PROVE  /\ part' = part
             /\ part = "states" => Files(StatesModel)!Next
             /\ part = "inputs" => Files(InputsModel)!Next
             /\ part = "startup" => Files(StartupModel)!Next
             /\ part = "daily" => Commands(DailyModel)!Next
             /\ part = "again" => Commands(AgainModel)!Next
             /\ part \in {"states", "inputs", "startup"} \/ broken' = broken
  BY <1>2 DEF PartsNext, MaintenanceMoves, StatesMove, InputsMove, StartupMoves, DailyMoves, AgainMoves,
     workspaceVars
<1> QED BY <1>1, <1>2

\* It is inductive, with the action properties of each part.
LEMMA PartsStep ==
  ASSUME PartsInv, [PartsNext]_<<part, vars, workspaceVars, dailyVars>>
  PROVE  /\ PartsInv'
         /\ part = "states" => \A w \in Files(StatesModel)!Workspaces : Files(StatesModel)!ArchiveKept(w)
         /\ part = "startup" => Files(StartupModel)!EndsActive(c1)
         /\ part = "daily" => Commands(DailyModel)!SuccessIsCurrent
         /\ part = "again" => Commands(AgainModel)!SuccessIsCurrent
<1> USE ModelsFit
<1>1. part' = part
  BY PartsMoves
<1>2. ASSUME part = "states"
      PROVE  /\ FilesInv(StatesModel)'
             /\ \A w \in Files(StatesModel)!Workspaces : Files(StatesModel)!ArchiveKept(w)
  <2>1. FilesInv(StatesModel) /\ [Files(StatesModel)!Next]_(Files(StatesModel)!vars)
    BY <1>2, PartsMoves DEF PartsInv
  <2>2. Files(StatesModel)!Workspaces = 1..StatesModel.workspaces
    BY DEF Files!Workspaces
  <2>3. FilesInv(StatesModel)'
    BY <2>1, FilesStep
  <2>4. \A w \in 1..StatesModel.workspaces : Files(StatesModel)!ArchiveKept(w)
    BY <2>1, ArchiveStep
  <2> QED BY <2>2, <2>3, <2>4
<1>3. ASSUME part = "inputs" PROVE KeptInv(InputsModel)'
  <2>1. KeptInv(InputsModel) /\ [Files(InputsModel)!Next]_(Files(InputsModel)!vars)
    BY <1>3, PartsMoves DEF PartsInv
  <2> QED BY <2>1, KeptStep
<1>4. ASSUME part = "startup" PROVE StartInv(StartupModel, c1)' /\ Files(StartupModel)!EndsActive(c1)
  <2>1. StartInv(StartupModel, c1) /\ [Files(StartupModel)!Next]_(Files(StartupModel)!vars)
    BY <1>4, PartsMoves DEF PartsInv
  <2> QED BY <2>1, StartStep
<1>5. ASSUME part = "daily" PROVE DailyInv(DailyModel)' /\ Commands(DailyModel)!SuccessIsCurrent
  <2>1. DailyInv(DailyModel) /\ [Commands(DailyModel)!Next]_(Commands(DailyModel)!vars)
    BY <1>5, PartsMoves DEF PartsInv
  <2> QED BY <2>1, DailyStep
<1>6. ASSUME part = "again" PROVE DailyInv(AgainModel)' /\ Commands(AgainModel)!SuccessIsCurrent
  <2>1. DailyInv(AgainModel) /\ [Commands(AgainModel)!Next]_(Commands(AgainModel)!vars)
    BY <1>6, PartsMoves DEF PartsInv
  <2> QED BY <2>1, DailyStep
<1>7. broken' \subseteq Shared
  <2>1. broken \subseteq Shared
    BY DEF PartsInv
  <2>2. ASSUME NEW n, Fit(n), FilesInv(n), [Files(n)!Next]_(Files(n)!vars) PROVE broken' \subseteq Shared
    BY <2>1, <2>2, StateWriters
  <2>3. CASE part = "states"
    BY <2>2, <2>3, PartsMoves DEF PartsInv
  <2>4. CASE part = "inputs"
    BY <2>2, <2>4, PartsMoves DEF PartsInv, KeptInv
  <2>5. CASE part = "startup"
    BY <2>2, <2>5, PartsMoves DEF PartsInv, StartInv
  <2> QED BY <2>1, <2>3, <2>4, <2>5, PartsMoves
<1> QED BY <1>1, <1>2, <1>3, <1>4, <1>5, <1>6, <1>7 DEF PartsInv

\* It implies what the run checks.
LEMMA PartsRecords == PartsInv => RecordsInvariant
<1> SUFFICES ASSUME PartsInv PROVE RecordsInvariant
  OBVIOUS
<1> USE ModelsFit
<1>0. broken \subseteq Shared
  BY DEF PartsInv
<1>1. ASSUME part = "states" PROVE Files(StatesModel)!TypeOK
  BY <1>1, FilesTyped DEF PartsInv
<1>2. ASSUME part = "inputs"
      PROVE  /\ Files(InputsModel)!TypeOK /\ Files(InputsModel)!AcknowledgedInputsAreKept
             /\ Files(InputsModel)!LatestWasSaved
  BY <1>2, FilesTyped DEF PartsInv, KeptInv
<1>3. ASSUME part = "startup" PROVE Files(StartupModel)!TypeOK /\ Files(StartupModel)!IndexIsComplete
  <2>1. StartInv(StartupModel, c1)
    BY <1>3 DEF PartsInv
  <2> QED BY <1>0, <2>1, FilesTyped, StartIndexed DEF StartInv
<1>4. ASSUME part = "daily"
      PROVE  /\ Commands(DailyModel)!TypeOK /\ Commands(DailyModel)!WorkIsRecorded
             /\ Commands(DailyModel)!ExitTellsTheLedger
  BY <1>4, CommandsTyped DEF PartsInv, DailyInv
<1>5. ASSUME part = "again"
      PROVE  /\ Commands(AgainModel)!TypeOK /\ Commands(AgainModel)!WorkIsRecorded
             /\ Commands(AgainModel)!ExitTellsTheLedger
  BY <1>5, CommandsTyped DEF PartsInv, DailyInv
<1> QED BY <1>1, <1>2, <1>3, <1>4, <1>5 DEF RecordsInvariant

\* Inputs that were acknowledged are kept, pointers name what was saved, the index
\* is complete, scores have their ledger row and exit codes tell of it.
THEOREM RecordsAreKept == PartsSpec => []RecordsInvariant
<1>1. PartsInv /\ [PartsNext]_<<part, vars, workspaceVars, dailyVars>> => PartsInv'
  BY PartsStep
<1> QED BY <1>1, PartsBegin, PartsRecords, PTL DEF PartsSpec

\* An archived workspace stays so until it is reactivated, recovery ends with an
\* active one, which the pointer names unless the index does not parse, and a run
\* recorded as a success left every symbol current.
THEOREM RecordsMove == PartsSpec => RecordsStep
<1>1. PartsInv /\ [PartsNext]_<<part, vars, workspaceVars, dailyVars>> => PartsInv'
  BY PartsStep
<1>2. PartsInv /\ [PartsNext]_<<part, vars, workspaceVars, dailyVars>> =>
        [/\ part = "states" => \A w \in Files(StatesModel)!Workspaces : Files(StatesModel)!ArchiveKept(w)
         /\ part = "startup" => Files(StartupModel)!EndsActive(c1)
         /\ part = "daily" => Commands(DailyModel)!SuccessIsCurrent
         /\ part = "again" => Commands(AgainModel)!SuccessIsCurrent]_<<part, workspaceVars, dailyVars>>
  BY PartsStep
<1> QED BY <1>1, <1>2, PartsBegin, PTL DEF PartsSpec, RecordsStep

=============================================================================
