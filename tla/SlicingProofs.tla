--------------------------- MODULE SlicingProofs ---------------------------
(***************************************************************************)
(* Proofs about Slicing for every set of requests that the validation of   *)
(* models lets through: the closure that a slice is built from is closed,  *)
(* so the slice has what its transitions read; the groups and names the    *)
(* verdicts go through bring every property its own; and a slice simulates *)
(* the model: a state of the slice is a state of the model seen through    *)
(* the variables of the slice, a step of the slice is a step of the model, *)
(* and a step of the model is one of the slice or changes nothing in it.   *)
(***************************************************************************)
EXTENDS Slicing, FiniteSetTheorems, WellFoundedInduction, TLAPS

-----------------------------------------------------------------------------
(* Numbers.                                                                *)

\* A set of numbers has a least element.
LEMMA LeastOf ==
  ASSUME NEW n \in Nat, NEW I, I \subseteq 0..n, I # {}
  PROVE  \E i \in I : \A j \in I : i <= j
<1>. DEFINE V == 0..n
            T == {0..i : i \in I}
<1>1. IsFiniteSet(V)
  BY FS_Interval
<1>2. \A i \in I : 0..i \in FiniteSubsetsOf(V)
  <2>. SUFFICES ASSUME NEW i \in I PROVE 0..i \in FiniteSubsetsOf(V)
    OBVIOUS
  <2>1. 0..i \subseteq V
    OBVIOUS
  <2>. QED  BY <1>1, <2>1, FS_Subset DEF FiniteSubsetsOf
<1>3. T # {} /\ T \subseteq FiniteSubsetsOf(V)
  BY <1>2
<1>4. PICK D \in T : \A F \in T : <<F, D>> \notin StrictSubsetOrdering(V)
  <2>. HIDE DEF T
  <2>. QED  BY <1>1, <1>3, FS_StrictSubsetOrderingWellFounded, WFMin
<1>5. PICK i \in I : D = 0..i
  BY <1>4
<1>6. ASSUME NEW j \in I, j < i PROVE FALSE
  <2>1. i \in 0..n /\ j \in 0..n
    OBVIOUS
  <2>2. 0..j \subseteq 0..i /\ i \in 0..i /\ i \notin 0..j
    BY <1>6, <2>1
  <2>3. <<0..j, 0..i>> \in StrictSubsetOrdering(V)
    BY <1>2, <2>2 DEF StrictSubsetOrdering, FiniteSubsetsOf
  <2>. QED  BY <1>4, <1>5, <2>3
<1>7. \A j \in I : i \in Int /\ j \in Int
  OBVIOUS
<1>. QED  BY <1>6, <1>7

\* A set that contains 0 and, with a number below n, the next one contains all up to n.
LEMMA UpTo ==
  ASSUME NEW n \in Nat, NEW J, 0 \in J, \A j \in 1..n : j - 1 \in J => j \in J
  PROVE  0..n \subseteq J
<1>. DEFINE I == (0..n) \ J
<1>. SUFFICES ASSUME I # {} PROVE FALSE
  OBVIOUS
<1>1. PICK i \in I : \A j \in I : i <= j
  <2>. HIDE DEF I
  <2>1. I \subseteq 0..n
    BY DEF I
  <2>. QED  BY <2>1, LeastOf
<1>2. i \in 1..n /\ i - 1 \in 0..n /\ ~(i <= i - 1)
  OBVIOUS
<1>3. i - 1 \in J
  BY <1>1, <1>2
<1>. QED  BY <1>2, <1>3

-----------------------------------------------------------------------------
(* What is left of a sequence.                                             *)

Chosen(seq, good, g, n) ==
  IF n = 0 THEN <<>> ELSE IF seq[n] \in good THEN Append(g[n - 1], seq[n]) ELSE g[n - 1]

IsChosen(seq, good, n, g) == g = [k \in 0..n |-> Chosen(seq, good, g, k)]

Choice(seq, good) == CHOOSE g : IsChosen(seq, good, Len(seq), g)

LEMMA ChoiceExists ==
  ASSUME NEW seq, NEW good, NEW n \in Nat
  PROVE  \E g : IsChosen(seq, good, n, g)
<1>. DEFINE J == {j \in 0..n : \E g : IsChosen(seq, good, j, g)}
<1>1. 0 \in J
  <2>. DEFINE g == [k \in 0..0 |-> <<>>]
  <2>1. \A k \in 0..0 : Chosen(seq, good, g, k) = <<>>
    BY DEF Chosen
  <2>2. IsChosen(seq, good, 0, g)
    BY <2>1 DEF IsChosen
  <2>. QED  BY <2>2
<1>2. ASSUME NEW j \in 1..n, j - 1 \in J
      PROVE  j \in J
  <2>1. PICK g : IsChosen(seq, good, j - 1, g)
    BY <1>2
  <2>. DEFINE h == [k \in 0..j |-> IF k = j THEN Chosen(seq, good, g, j) ELSE g[k]]
  <2>2. ASSUME NEW k \in 0..j
        PROVE  h[k] = Chosen(seq, good, h, k)
    <3>1. k # 0 => k - 1 \in 0..j /\ k - 1 # j
      OBVIOUS
    <3>2. k # 0 => h[k - 1] = g[k - 1]
      BY <3>1
    <3>3. Chosen(seq, good, h, k) = Chosen(seq, good, g, k)
      BY <3>2 DEF Chosen
    <3>4. CASE k = j
      BY <3>3, <3>4
    <3>5. CASE k # j
      <4>1. k \in 0..(j - 1)
        BY <3>5
      <4>. QED  BY <2>1, <3>3, <3>5, <4>1 DEF IsChosen
    <3>. QED  BY <3>4, <3>5
  <2>3. h = [k \in 0..j |-> h[k]]
    OBVIOUS
  <2>. HIDE DEF h
  <2>4. IsChosen(seq, good, j, h)
    BY <2>2, <2>3 DEF IsChosen
  <2>. QED  BY <2>4
<1>3. 0..n \subseteq J
  <2>. HIDE DEF J
  <2>. QED  BY <1>1, <1>2, UpTo
<1>. QED  BY <1>3

\* What Only computes, element by element.
LEMMA OnlySteps ==
  ASSUME NEW seq, NEW good, Len(seq) \in Nat
  PROVE  /\ Choice(seq, good)[0] = <<>> /\ Only(seq, good) = Choice(seq, good)[Len(seq)]
         /\ \A k \in 1..Len(seq) :
              Choice(seq, good)[k] = IF seq[k] \in good THEN Append(Choice(seq, good)[k - 1], seq[k])
                                     ELSE Choice(seq, good)[k - 1]
<1>. DEFINE n == Len(seq)
            G == CHOOSE g : IsChosen(seq, good, n, g)
<1>1. Only(seq, good) = G[n]
  BY DEF Only, IsChosen, Chosen
<1>2. IsChosen(seq, good, n, G)
  BY ChoiceExists
<1>3. Choice(seq, good) = G
  BY DEF Choice
<1>. HIDE DEF G
<1>4. \A k \in 0..n : G[k] = Chosen(seq, good, G, k)
  BY <1>2 DEF IsChosen
<1>5. 0 \in 0..n /\ \A k \in 1..n : k \in 0..n /\ k # 0
  OBVIOUS
<1>. QED  BY <1>1, <1>3, <1>4, <1>5 DEF Chosen

LEMMA AppendRange ==
  ASSUME NEW X, NEW s \in Seq(X), NEW x \in X
  PROVE  Append(s, x) \in Seq(X) /\ Range(Append(s, x)) = Range(s) \union {x}
<1>1. /\ Append(s, x) \in Seq(X) /\ DOMAIN Append(s, x) = 1..(Len(s) + 1)
      /\ \A i \in 1..Len(s) : Append(s, x)[i] = s[i]
      /\ Append(s, x)[Len(s) + 1] = x /\ DOMAIN s = 1..Len(s) /\ Len(s) \in Nat
  OBVIOUS
<1>2. \A i \in 1..(Len(s) + 1) : i = Len(s) + 1 \/ i \in 1..Len(s)
  BY <1>1
<1>3. \A i \in 1..Len(s) : i \in 1..(Len(s) + 1)
  BY <1>1
<1>4. Len(s) + 1 \in 1..(Len(s) + 1)
  BY <1>1
<1>. QED  BY <1>1, <1>2, <1>3, <1>4 DEF Range

LEMMA SeqElements ==
  ASSUME NEW X, NEW s \in Seq(X)
  PROVE  /\ Len(s) \in Nat /\ DOMAIN s = 1..Len(s) /\ \A i \in DOMAIN s : s[i] \in X
         /\ Range(s) \subseteq X
BY DEF Range

LEMMA OnlyRange ==
  ASSUME NEW X, NEW seq \in Seq(X), NEW good
  PROVE  Only(seq, good) \in Seq(X) /\ Range(Only(seq, good)) = Range(seq) \intersect good
<1>. DEFINE n == Len(seq)
            G == Choice(seq, good)
            Upto(k) == {seq[i] : i \in 1..k}
            J == {k \in 0..n : G[k] \in Seq(X) /\ Range(G[k]) = Upto(k) \intersect good}
<1>1. /\ n \in Nat /\ DOMAIN seq = 1..n /\ G[0] = <<>> /\ Only(seq, good) = G[n]
      /\ \A k \in 1..n : G[k] = IF seq[k] \in good THEN Append(G[k - 1], seq[k]) ELSE G[k - 1]
  BY OnlySteps
<1>2. \A k \in 1..n : Upto(k) = Upto(k - 1) \union {seq[k]} /\ seq[k] \in X
  <2>. SUFFICES ASSUME NEW k \in 1..n PROVE Upto(k) = Upto(k - 1) \union {seq[k]} /\ seq[k] \in X
    OBVIOUS
  <2>1. \A i \in 1..k : i = k \/ i \in 1..(k - 1)
    BY <1>1
  <2>2. \A i \in 1..(k - 1) : i \in 1..k
    BY <1>1
  <2>. QED  BY <1>1, <2>1, <2>2
<1>3. Upto(0) = {} /\ Upto(n) = Range(seq)
  BY <1>1 DEF Range
<1>. HIDE DEF n, G, Upto
<1>4. 0 \in J
  <2>1. <<>> \in Seq(X) /\ Range(<<>>) = {}
    BY DEF Range
  <2>2. G[0] \in Seq(X) /\ Range(G[0]) = Upto(0) \intersect good
    BY <1>1, <1>3, <2>1
  <2>3. 0 \in 0..n
    BY <1>1
  <2>. QED  BY <2>2, <2>3
<1>5. ASSUME NEW k \in 1..n, k - 1 \in J PROVE k \in J
  <2>1. G[k - 1] \in Seq(X) /\ Range(G[k - 1]) = Upto(k - 1) \intersect good
    BY <1>5
  <2>2. CASE seq[k] \in good
    <3>1. G[k] = Append(G[k - 1], seq[k])
      BY <1>1, <2>2
    <3>2. G[k] \in Seq(X) /\ Range(G[k]) = Range(G[k - 1]) \union {seq[k]}
      BY <1>2, <2>1, <3>1, AppendRange
    <3>. QED  BY <1>2, <2>1, <2>2, <3>2
  <2>3. CASE seq[k] \notin good
    BY <1>1, <1>2, <2>1, <2>3
  <2>. QED  BY <2>2, <2>3
<1>6. 0..n \subseteq J
  <2>. HIDE DEF J
  <2>. QED  BY <1>1, <1>4, <1>5, UpTo
<1>. QED  BY <1>1, <1>3, <1>6

-----------------------------------------------------------------------------
(* Types. A property is sliced while there is one, and the transition a    *)
(* pass looks at is one of the model.                                      *)

Typed ==
  /\ \E r \in Requests : model = r[1] /\ props = r[2]
  /\ TypeOK
  /\ pc \in {"closure", "finish"} => at <= Len(props)
  /\ pc = "check" => at = Len(props) + 1 \/ props = <<>>
  /\ DOMAIN slices = DOMAIN props
  /\ groups \in Seq(Range(groups))

LEMMA RequestTyped ==
  ASSUME Typed
  PROVE  /\ Len(model) \in Nat /\ DOMAIN model = 1..Len(model)
         /\ \A t \in Range(model) : IsTransition(t) /\ t.id \in Ids
         /\ \A t, u \in Range(model) : t.id = u.id => t = u
         /\ Len(props) \in Nat /\ DOMAIN props = 1..Len(props)
         /\ \A k \in DOMAIN props : IsProperty(props[k])
<1>1. PICK r \in Requests : model = r[1] /\ props = r[2]
  BY DEF Typed
<1>2. /\ model \in Seq(Range(model)) /\ \A i \in DOMAIN model : IsTransition(model[i])
      /\ \A i, j \in DOMAIN model : model[i].id = model[j].id => i = j
      /\ props \in Seq(Range(props)) /\ \A k \in DOMAIN props : IsProperty(props[k])
  BY <1>1, RequestsAssumption
<1>3. /\ Len(model) \in Nat /\ DOMAIN model = 1..Len(model)
      /\ Len(props) \in Nat /\ DOMAIN props = 1..Len(props)
  BY <1>2
<1>. QED  BY <1>2, <1>3 DEF Range, Ids

LEMMA ByIdIs ==
  ASSUME Typed
  PROVE  /\ \A id \in Ids : ById(id) \in Range(model) /\ ById(id).id = id
         /\ \A t \in Range(model) : ById(t.id) = t
<1>1. Range(model) = {model[i] : i \in DOMAIN model}
  BY DEF Range
<1>2. \A id \in Ids : \E t \in Range(model) : t.id = id
  BY DEF Ids, Range
<1>3. \A id \in Ids : ById(id) \in Range(model) /\ ById(id).id = id
  BY <1>1, <1>2 DEF ById
<1>. QED  BY <1>3, RequestTyped

LEMMA MountTyped ==
  ASSUME NEW vs
  PROVE  MountReads(vs) \subseteq Vars
BY SlicingAssumption DEF MountReads

LEMMA TransitionTyped ==
  ASSUME NEW t, IsTransition(t)
  PROVE  /\ AtomVars(t.guard) \subseteq Vars /\ Reads(t) \subseteq Vars /\ Writes(t) \subseteq Vars
         /\ t.effect \in Seq(Range(t.effect))
         /\ \A i \in DOMAIN t.effect : IsStatement(t.effect[i])
<1>1. \A i \in DOMAIN t.effect : t.effect[i] \in Range(t.effect) /\ IsStatement(t.effect[i])
  BY DEF IsTransition, Range
<1>2. AtomVars(t.guard) \subseteq Vars
  BY DEF IsTransition, IsAtom, AtomVars
<1>3. \A st : IsStatement(st) => StatementReads(st) \subseteq Vars
  BY DEF IsStatement, StatementReads, AtomVars, IsAtom
<1>4. EffectReads(t.effect) \subseteq Vars
  BY <1>1, <1>3 DEF EffectReads
<1>5. PreReads(t.effect) \subseteq Vars
  BY <1>1 DEF PreReads, IsStatement
<1>6. Writes(t) \subseteq Vars
  BY <1>1 DEF Writes, EffectWrites, IsStatement
<1>. QED  BY <1>1, <1>2, <1>4, <1>5, <1>6 DEF Reads, IsTransition

LEMMA ObservedTyped ==
  ASSUME Typed, NEW ids
  PROVE  ObservedVars(ids) \subseteq Vars
<1>1. \A id \in ids \intersect Ids : AtomVars(ById(id).guard) \subseteq Vars
  BY ByIdIs, RequestTyped, TransitionTyped
<1>2. UNION {AtomVars(ById(id).guard) : id \in ids \intersect Ids} \subseteq Vars
  BY <1>1
<1>. QED  BY <1>2, MountTyped DEF ObservedVars

LEMMA SeedTyped ==
  ASSUME Typed, NEW k \in DOMAIN props
  PROVE  Seed(props[k]) \subseteq Vars /\ StateReads(props[k]) \subseteq Vars
<1>. DEFINE p == props[k]
<1>1. IsProperty(p)
  BY RequestTyped
<1>. HIDE DEF p
<1>2. StateReads(p) \subseteq Vars
  BY <1>1 DEF StateReads, IsProperty, AtomVars, IsAtom
<1>3. HasTarget(p) => TargetSeed(Target(p)) \subseteq Vars
  BY ByIdIs, RequestTyped, TransitionTyped, SlicingAssumption DEF HasTarget, Target, TargetSeed
<1>4. ObservedVars(ObservedBy(p)) \subseteq Vars
  BY ObservedTyped
<1>5. Seed(p) \subseteq Vars
  BY <1>2, <1>3, <1>4 DEF Seed
<1>. QED  BY <1>2, <1>5 DEF p

\* The projection of an effect is part of it.
LEMMA Projected ==
  ASSUME NEW effect, effect \in Seq(Range(effect)), NEW vs
  PROVE  /\ ProjectToVars(effect, vs) \in Seq(Range(effect))
         /\ Range(ProjectToVars(effect, vs))
              = {st \in Range(effect) : st.op \in Ops \/ st.var \in vs}
BY OnlyRange DEF ProjectToVars

LEMMA InputsTyped ==
  ASSUME NEW t, IsTransition(t)
  PROVE  Inputs(t) \subseteq Vars
<1>. DEFINE e == ProjectToVars(t.effect, needed)
<1>1. Range(e) \subseteq Range(t.effect)
  BY Projected DEF IsTransition
<1>. HIDE DEF e
<1>2. \A i \in DOMAIN e : IsStatement(e[i])
  BY <1>1 DEF Range, IsTransition
<1>3. \A st : IsStatement(st) => StatementReads(st) \subseteq Vars
  BY DEF IsStatement, StatementReads, AtomVars, IsAtom
<1>4. EffectReads(e) \subseteq Vars /\ EffectWrites(e) \subseteq Vars
  BY <1>2, <1>3 DEF EffectReads, EffectWrites, IsStatement
<1>. QED  BY <1>4, TransitionTyped DEF Inputs, e

LEMMA SliceTyped ==
  ASSUME Typed, at \in DOMAIN props
  PROVE  SliceOf(P).vars \subseteq Vars
<1>1. Mode(P) = "full" => SliceOf(P).vars = Vars
  BY DEF SliceOf, FullModel
<1>2. Mode(P) # "full" => SliceOf(P).vars = needed \union ObservedVars(ObservationOnly(P))
  BY DEF SliceOf
<1>. QED  BY <1>1, <1>2, ObservedTyped DEF Typed, TypeOK

LEMMA FunctionIsSeq ==
  ASSUME NEW n \in Nat, NEW f, f = [i \in 1..n |-> f[i]]
  PROVE  f \in Seq(Range(f)) /\ Len(f) = n
<1>. DEFINE R == Range(f)
<1>1. DOMAIN f = 1..n /\ \A i \in 1..n : f[i] \in R
  BY DEF Range
<1>. HIDE DEF R
<1>2. f \in [1..n -> R]
  BY <1>1
<1>3. f \in Seq(R) /\ Len(f) = n
  BY <1>2
<1>. QED  BY <1>3 DEF R

\* The groups are a sequence, and so are the members of each.
LEMMA FinishTyped ==
  ASSUME Typed, Finish
  PROVE  /\ groups' \in Seq(Range(groups'))
         /\ Len(groups') \in {Len(groups), Len(groups) + 1}
<1>. DEFINE s == SliceOf(P)
            same == {g \in DOMAIN groups : Key(groups[g].slice) = Key(s)}
            new == [slice |-> s, members |-> <<at>>]
<1>1. groups \in Seq(Range(groups)) /\ Len(groups) \in Nat /\ DOMAIN groups = 1..Len(groups)
  BY DEF Typed
<1>2. CASE same = {}
  <2>1. groups' = Append(groups, new)
    BY <1>2 DEF Finish
  <2>. HIDE DEF new
  <2>2. groups' \in Seq(Range(groups) \union {new}) /\ Len(groups') = Len(groups) + 1
    BY <1>1, <2>1
  <2>3. Range(groups') = Range(groups) \union {new}
    <3>1. groups \in Seq(Range(groups) \union {new})
      BY <1>1
    <3>. QED  BY <2>1, <3>1, AppendRange
  <2>. QED  BY <2>2, <2>3
<1>3. CASE same # {}
  <2>1. DOMAIN groups' = 1..Len(groups) /\ groups' = [g \in 1..Len(groups) |-> groups'[g]]
    BY <1>1, <1>3 DEF Finish
  <2>. QED  BY <1>1, <2>1, FunctionIsSeq
<1>. QED  BY <1>2, <1>3

LEMMA InitTyped == Init => Typed
<1>. SUFFICES ASSUME Init PROVE Typed
  OBVIOUS
<1>1. PICK r \in Requests : model = r[1] /\ props = r[2]
  BY DEF Init
<1>2. Len(model) \in Nat /\ Len(props) \in Nat
  BY <1>1, RequestsAssumption
<1>3. /\ at = 1 /\ needed = {} /\ kept = {} /\ next = 0 /\ changed = FALSE
      /\ slices = [k \in DOMAIN props |-> NoSlice] /\ groups = <<>> /\ checked = 0 /\ pc = "request"
  BY DEF Init
<1>4. /\ 1 \in 1..Len(props) + 1 /\ 0 \in 0..Len(model) /\ 0 \in 0..Len(groups)
      /\ groups \in Seq(Range(groups))
  <2>1. Len(groups) = 0 /\ groups \in Seq(Range(groups))
    BY <1>3
  <2>. QED  BY <1>2, <2>1
<1>5. DOMAIN slices = DOMAIN props /\ \A k \in DOMAIN slices : slices[k].vars = {}
  BY <1>3 DEF NoSlice
<1>6. TypeOK
  BY <1>3, <1>4, <1>5 DEF TypeOK
<1>. QED  BY <1>1, <1>3, <1>4, <1>5, <1>6 DEF Typed

LEMMA NextTyped == Typed /\ [Next]_vars => Typed'
<1>. SUFFICES ASSUME Typed, [Next]_vars PROVE Typed'
  OBVIOUS
<1>1. /\ Len(model) \in Nat /\ DOMAIN model = 1..Len(model)
      /\ \A t \in Range(model) : IsTransition(t) /\ t.id \in Ids
      /\ Len(props) \in Nat /\ DOMAIN props = 1..Len(props)
  BY RequestTyped
<1>2. TypeOK /\ model' = model /\ props' = props
  BY DEF Typed, Next, Request, ExpandMounts, Visit, Finish, CheckGroup, Merge, vars
<1>3. Ids' = Ids
  BY <1>2 DEF Ids
<1>4. CASE Request
  <2>1. at \in DOMAIN props /\ Seed(P) \subseteq Vars
    BY <1>1, <1>2, <1>4, SeedTyped DEF Request, TypeOK, P
  <2>2. kept' \subseteq {props[i].target : i \in DOMAIN props}
    BY <1>4, <2>1 DEF Request, P
  <2>3. /\ needed' = Seed(P) /\ next' = 0 /\ changed' = FALSE /\ at' = at
        /\ pc' = (IF Mode(P) = "full" THEN "finish" ELSE "closure")
        /\ slices' = slices /\ groups' = groups /\ checked' = checked /\ 0 \in 0..Len(model)
    BY <1>1, <1>4 DEF Request
  <2>4. TypeOK'
    BY <1>2, <1>3, <2>1, <2>2, <2>3 DEF TypeOK
  <2>. QED  BY <1>1, <1>2, <2>1, <2>3, <2>4 DEF Typed
<1>5. CASE ExpandMounts
  <2>1. needed' \subseteq Vars
    BY <1>2, <1>5, MountTyped DEF ExpandMounts, TypeOK
  <2>2. next' \in 0..Len(model) /\ pc' \in {"closure", "finish"} /\ changed' \in BOOLEAN
    <3>1. PICK r \in Requests : model = r[1]
      BY DEF Typed
    <3>2. model \in Seq(Range(model))
      BY <3>1, RequestsAssumption
    <3>3. 0 \in 0..Len(model) /\ (model # <<>> => 1 \in 0..Len(model))
      BY <3>2
    <3>4. pc = "closure"
      BY <1>5 DEF ExpandMounts
    <3>5. changed' = (needed' # needed)
      BY <1>5 DEF ExpandMounts
    <3>6. CASE LooksForWriters(P) /\ model # <<>>
      BY <1>5, <3>3, <3>4, <3>5, <3>6 DEF ExpandMounts
    <3>7. CASE ~(LooksForWriters(P) /\ model # <<>>)
      <4>1. next' = 0 /\ pc' = (IF changed' THEN pc ELSE "finish")
        BY <1>5, <3>7 DEF ExpandMounts
      <4>. QED  BY <3>3, <3>4, <3>5, <4>1
    <3>. QED  BY <3>6, <3>7
  <2>. QED  BY <1>1, <1>2, <1>3, <1>5, <2>1, <2>2 DEF ExpandMounts, Typed, TypeOK
<1>6. CASE Visit
  <2>. DEFINE t == model[next]
  <2>1. next \in 1..Len(model) /\ t \in Range(model) /\ IsTransition(t) /\ t.id \in Ids
    BY <1>1, <1>2, <1>6 DEF Visit, TypeOK, Range
  <2>2. Inputs(t) \subseteq Vars
    BY <2>1, InputsTyped
  <2>3. kept' \subseteq kept \union {t.id} /\ needed' \subseteq needed \union Inputs(t)
    BY <1>6 DEF Visit
  <2>4. next' \in 0..Len(model) /\ pc' \in {"closure", "finish"}
    <3>1. /\ next' = Follow(next) /\ pc = "closure" /\ (pc' = pc \/ pc' = "finish")
      BY <1>6 DEF Visit
    <3>2. Follow(next) \in 0..Len(model)
      <4>. DEFINE n == Len(model)
      <4>1. n \in Nat /\ next \in 1..n
        BY <1>1, <2>1
      <4>. HIDE DEF n
      <4>2. (IF next = n THEN 0 ELSE next + 1) \in 0..n
        BY <4>1
      <4>. QED  BY <4>2 DEF Follow, n
    <3>. QED  BY <3>1, <3>2
  <2>5. changed' \in BOOLEAN
    BY <1>6 DEF Visit
  <2>. HIDE DEF t
  <2>. QED  BY <1>1, <1>2, <1>3, <1>6, <2>1, <2>2, <2>3, <2>4, <2>5 DEF Visit, Typed, TypeOK
<1>7. CASE Finish
  <2>1. at \in DOMAIN props /\ at + 1 \in 1..Len(props) + 1 /\ DOMAIN slices = DOMAIN props
    BY <1>1, <1>2, <1>7 DEF Finish, Typed, TypeOK
  <2>2. SliceOf(P).vars \subseteq Vars
    BY <2>1, SliceTyped
  <2>3. DOMAIN slices' = DOMAIN slices /\ \A k \in DOMAIN slices' : slices'[k].vars \subseteq Vars
    BY <1>2, <1>7, <2>1, <2>2 DEF Finish, TypeOK
  <2>4. checked \in 0..Len(groups')
    BY <1>2, <1>7, FinishTyped DEF TypeOK, Typed
  <2>5. at' = at + 1 /\ pc' = (IF at = Len(props) THEN "check" ELSE "request")
    BY <1>7 DEF Finish
  <2>6. groups' \in Seq(Range(groups'))
    BY <1>7, FinishTyped
  <2>7. /\ needed' = needed /\ kept' = kept /\ next' = next /\ changed' = changed
        /\ checked' = checked
    BY <1>7 DEF Finish
  <2>8. TypeOK'
    BY <1>2, <1>3, <2>1, <2>3, <2>4, <2>5, <2>7 DEF TypeOK
  <2>. QED  BY <1>1, <1>2, <2>1, <2>3, <2>5, <2>6, <2>8 DEF Typed
<1>8. CASE CheckGroup
  <2>1. checked + 1 \in 0..Len(groups)
    <3>1. Len(groups) \in Nat
      BY DEF Typed
    <3>. DEFINE n == Len(groups)
    <3>2. n \in Nat /\ checked \in 0..n /\ checked < n
      BY <1>2, <1>8, <3>1 DEF CheckGroup, TypeOK
    <3>. HIDE DEF n
    <3>3. checked + 1 \in 0..n
      BY <3>2
    <3>. QED  BY <3>3 DEF n
  <2>. QED  BY <1>1, <1>2, <1>3, <1>8, <2>1 DEF CheckGroup, Typed, TypeOK
<1>9. CASE Merge
  BY <1>1, <1>2, <1>3, <1>9 DEF Merge, Typed, TypeOK
<1>10. CASE UNCHANGED vars
  BY <1>3, <1>10 DEF vars, Typed, TypeOK
<1>. QED  BY <1>4, <1>5, <1>6, <1>7, <1>8, <1>9, <1>10 DEF Next

\* The closure stays within the variables and the transitions of the model.
THEOREM TypeCorrect == Spec => []TypeOK
<1>1. Typed => TypeOK
  BY DEF Typed
<1>. QED  BY <1>1, InitTyped, NextTyped, PTL DEF Spec

-----------------------------------------------------------------------------
(* The model does not change, and so neither does what a property depends  *)
(* on.                                                                     *)

FindsById ==
  /\ \A id \in Ids : ById(id) \in Range(model) /\ ById(id).id = id
  /\ \A t \in Range(model) : ById(t.id) = t

LEMMA FindsByIdNext == Typed' => FindsById'
<1>1. Typed => FindsById
  BY ByIdIs DEF FindsById
<1>. QED  BY <1>1, PTL

LEMMA SameModel ==
  ASSUME Typed, Typed', model' = model
  PROVE  Ids' = Ids /\ Range(model)' = Range(model) /\ \A id \in Ids : ById(id)' = ById(id)
<1>1. Ids' = Ids /\ Range(model)' = Range(model)
  BY DEF Ids, Range
<1>2. FindsById /\ FindsById'
  BY FindsByIdNext, ByIdIs DEF FindsById
<1>3. ASSUME NEW id \in Ids
      PROVE  ById(id)' = ById(id)
  <2>. DEFINE t == ById(id)
  <2>1. t \in Range(model) /\ t.id = id
    BY <1>2 DEF FindsById
  <2>2. \A u \in Range(model)' : ById(u.id)' = u
    BY <1>2 DEF FindsById
  <2>3. PICK u \in Range(model) : u = t
    BY <2>1
  <2>4. ById(u.id)' = u
    BY <1>1, <2>2
  <2>. QED  BY <2>1, <2>3, <2>4
<1>. QED  BY <1>1, <1>3

SameReads(p) ==
  /\ Seed(p)' = Seed(p) /\ GoalVars(p)' = GoalVars(p) /\ Clauses(p)' = Clauses(p)
  /\ LooksForWriters(p)' = LooksForWriters(p)

LEMMA SameProperty ==
  ASSUME Typed, Typed', model' = model, NEW CONSTANT p
  PROVE  /\ \A ids : ObservedVars(ids)' = ObservedVars(ids)
         /\ SameReads(p)
<1>1. Ids' = Ids /\ \A id \in Ids : ById(id)' = ById(id)
  BY SameModel
<1>2. ASSUME NEW CONSTANT ids
      PROVE  ObservedVars(ids)' = ObservedVars(ids)
  <2>1. UNION {AtomVars(ById(id).guard) : id \in ids \intersect Ids}'
          = UNION {AtomVars(ById(id).guard) : id \in ids \intersect Ids}
    BY <1>1
  <2>. QED  BY <2>1 DEF ObservedVars
<1>3. HasTarget(p)' = HasTarget(p) /\ (HasTarget(p) => Target(p)' = Target(p))
  BY <1>1 DEF HasTarget, Target
<1>4. Clauses(p)' = Clauses(p)
  BY <1>3 DEF Clauses
<1>5. Seed(p)' = Seed(p)
  BY <1>2, <1>3 DEF Seed
<1>6. GoalVars(p)' = GoalVars(p)
  BY <1>5 DEF GoalVars
<1>7. LooksForWriters(p)' = LooksForWriters(p)
  BY <1>3 DEF LooksForWriters
<1>. QED  BY <1>2, <1>4, <1>5, <1>6, <1>7 DEF SameReads

-----------------------------------------------------------------------------
(* The closure. What is kept stays kept when more variables are needed, and *)
(* a pass that adds nothing has found everything read by what is kept.      *)

Keeps(t, p) ==
  LET writes == NeededWrites(t, p)
  IN  writes # {} /\ ~SkipsHavoc(t, writes, p) /\ Relevant(t, writes, p)

LEMMA KeepsOn ==
  ASSUME Typed, Typed', model' = model, needed \subseteq needed', NEW CONSTANT p, NEW CONSTANT t
  PROVE  Keeps(t, p) => Keeps(t, p)'
<1>1. SameReads(p)
  BY SameProperty
<1>. DEFINE W == NeededWrites(t, p)
            W2 == NeededWrites(t, p)'
<1>2. W \subseteq W2
  BY <1>1 DEF NeededWrites, SameReads
<1>3. SUFFICES ASSUME Keeps(t, p) PROVE Keeps(t, p)'
  OBVIOUS
<1>4. W # {} /\ ~SkipsHavoc(t, W, p) /\ Relevant(t, W, p)
  BY <1>3 DEF Keeps
<1>. HIDE DEF W, W2
<1>5. W2 # {}
  BY <1>2, <1>4
<1>6. ~(/\ Mode(p) = "targetedStep" \/ t.id \notin ObservedBy(p)
        /\ W2 \intersect GoalVars(p)' = {}
        /\ \A v \in W2 : OnlyHavocs(t.effect, v)
        /\ Reads(t) \intersect GoalVars(p)' = {})
  BY <1>1, <1>2, <1>4 DEF SkipsHavoc, SameReads
<1>7. Clauses(p)' = {} \/ \E v \in W2 : WritesToward(t, v, Clauses(p)')
  BY <1>1, <1>2, <1>4 DEF Relevant, SameReads
<1>. QED  BY <1>5, <1>6, <1>7 DEF Keeps, SkipsHavoc, Relevant, W2

LEMMA KeepsSame ==
  ASSUME Typed, Typed', model' = model, needed = needed', NEW CONSTANT p, NEW CONSTANT t
  PROVE  Keeps(t, p)' = Keeps(t, p) /\ Inputs(t)' = Inputs(t)
<1>1. SameReads(p)
  BY SameProperty
<1>. DEFINE W == NeededWrites(t, p)
<1>2. NeededWrites(t, p)' = W
  BY <1>1 DEF NeededWrites, SameReads
<1>3. Keeps(t, p) = (W # {} /\ ~SkipsHavoc(t, W, p) /\ Relevant(t, W, p))
  BY DEF Keeps
<1>. DEFINE W2 == NeededWrites(t, p)'
<1>4. Keeps(t, p)' = (W2 # {} /\ ~(/\ Mode(p) = "targetedStep" \/ t.id \notin ObservedBy(p)
        /\ W2 \intersect GoalVars(p)' = {}
        /\ \A v \in W2 : OnlyHavocs(t.effect, v)
        /\ Reads(t) \intersect GoalVars(p)' = {})
        /\ (Clauses(p)' = {} \/ \E v \in W2 : WritesToward(t, v, Clauses(p)')))
  BY DEF Keeps, SkipsHavoc, Relevant
<1>5. W2 = W
  BY <1>2
<1>. HIDE DEF W, W2
<1>6. Keeps(t, p)' = Keeps(t, p)
  BY <1>1, <1>3, <1>4, <1>5 DEF SkipsHavoc, Relevant, SameReads
<1>7. Inputs(t)' = Inputs(t)
  BY DEF Inputs
<1>. QED  BY <1>6, <1>7

\* What the closure has while it is under way for a property, and when it ends.
UnderWay(p) ==
  /\ Mode(p) # "full" => Seed(p) \subseteq needed
  /\ \A t \in Range(model) : t.id \in kept =>
       Keeps(t, p) \/ (Mode(p) = "targetedStep" /\ t.id = p.target)
  /\ ~LooksForWriters(p) => next = 0 /\ (Mode(p) # "full" => kept = {p.target})
  /\ pc = "closure" => Mode(p) # "full"
  /\ pc = "closure" /\ next > 0 /\ ~changed =>
       /\ MountReads(needed) \subseteq needed
       /\ \A i \in 1..(next - 1) : Keeps(model[i], p) => Inputs(model[i]) \subseteq needed
  /\ pc = "finish" /\ Mode(p) # "full" =>
       /\ MountReads(needed) \subseteq needed
       /\ \A t \in Range(model) :
            t.id \in kept /\ ~(Mode(p) = "targetedStep" /\ t.id = p.target)
              => Inputs(t) \subseteq needed

Closing == pc \in {"closure", "finish"} => \A p : p = P => UnderWay(p)

LEMMA RequestCloses ==
  ASSUME Typed, Typed', Request
  PROVE  Closing'
<1>. SUFFICES ASSUME NEW CONSTANT p, p = P' PROVE UnderWay(p)'
  BY DEF Closing
<1>1. /\ model' = model /\ P' = P /\ needed' = Seed(P)
      /\ kept' = (IF Mode(P) = "targetedStep" THEN {P.target} ELSE {})
      /\ next' = 0 /\ pc' = (IF Mode(P) = "full" THEN "finish" ELSE "closure")
  BY DEF Request, P
<1>2. SameReads(p)
  BY <1>1, SameProperty
<1>3. needed' = Seed(p) /\ kept' = (IF Mode(p) = "targetedStep" THEN {p.target} ELSE {})
      /\ pc' = (IF Mode(p) = "full" THEN "finish" ELSE "closure")
  BY <1>1
<1>4. ~LooksForWriters(p) => Mode(p) = "targetedStep" \/ Mode(p) = "full"
  BY DEF LooksForWriters, Mode
<1>5. LooksForWriters(p)' = LooksForWriters(p) /\ Seed(p)' = Seed(p)
  BY <1>2 DEF SameReads
<1>6. ~(0 > 0)
  OBVIOUS
<1>. QED  BY <1>1, <1>3, <1>4, <1>5, <1>6 DEF UnderWay

LEMMA ExpandMountsCloses ==
  ASSUME Typed, Typed', Closing, ExpandMounts
  PROVE  Closing'
<1>. SUFFICES ASSUME NEW CONSTANT p, p = P' PROVE UnderWay(p)'
  BY DEF Closing
<1>1. /\ model' = model /\ P' = P /\ needed' = needed \union MountReads(needed) /\ kept' = kept
      /\ changed' = (needed' # needed) /\ pc = "closure" /\ next = 0
      /\ IF LooksForWriters(P) /\ model # <<>> THEN next' = 1 /\ pc' = pc
         ELSE next' = 0 /\ pc' = IF changed' THEN pc ELSE "finish"
  BY DEF ExpandMounts, P
<1>2. SameReads(p) /\ UnderWay(p)
  BY <1>1, SameProperty DEF Closing
<1>3. Mode(p) # "full" /\ Seed(p)' \subseteq needed'
  BY <1>1, <1>2 DEF UnderWay, SameReads
<1>4. \A t \in Range(model)' : t.id \in kept' =>
        Keeps(t, p)' \/ (Mode(p) = "targetedStep" /\ t.id = p.target)
  <2>1. \A t \in Range(model) : Keeps(t, p) => Keeps(t, p)'
    BY <1>1, KeepsOn
  <2>. QED  BY <1>1, <1>2, <2>1, SameModel DEF UnderWay
<1>5. LooksForWriters(p)' = LooksForWriters(p) /\ P = p
  BY <1>1, <1>2 DEF SameReads
<1>6. ~LooksForWriters(p) => next' = 0 /\ kept' = {p.target}
  BY <1>1, <1>2, <1>3, <1>5 DEF UnderWay
<1>7. ~changed' => MountReads(needed') \subseteq needed'
  BY <1>1
<1>8. next' > 0 => next' = 1 /\ 1..(next' - 1) = {}
  BY <1>1
<1>9. pc' = "finish" => model = <<>> \/ ~LooksForWriters(p)
  BY <1>1, <1>5
<1>10. model = <<>> => Range(model)' = {}
  <2>1. model = <<>> => Range(model) = {}
    BY DEF Range
  <2>. QED  BY <1>1, <2>1, SameModel
<1>11. ~LooksForWriters(p) => Mode(p) = "targetedStep"
  BY <1>3 DEF LooksForWriters, Mode
<1>12. pc' = "finish" => /\ MountReads(needed)' \subseteq needed'
         /\ \A t \in Range(model)' :
            t.id \in kept' /\ ~(Mode(p) = "targetedStep" /\ t.id = p.target)
              => Inputs(t)' \subseteq needed'
  <2>1. pc' = "finish" => ~changed'
    BY <1>1
  <2>. QED  BY <1>6, <1>7, <1>9, <1>10, <1>11, <2>1
<1>13. pc' = "closure" /\ next' > 0 /\ ~changed' => /\ MountReads(needed)' \subseteq needed'
       /\ \A i \in 1..(next' - 1) : Keeps(model[i], p)' => Inputs(model[i])' \subseteq needed'
  BY <1>7, <1>8
<1>. QED  BY <1>3, <1>4, <1>5, <1>6, <1>12, <1>13 DEF UnderWay

LEMMA VisitCloses ==
  ASSUME Typed, Typed', Closing, Visit
  PROVE  Closing'
<1>. SUFFICES ASSUME NEW CONSTANT p, p = P' PROVE UnderWay(p)'
  BY DEF Closing
<1>1. model' = model /\ P' = P /\ pc = "closure" /\ next > 0
  BY DEF Visit, P
<1>2. SameReads(p) /\ UnderWay(p) /\ P = p
  BY <1>1, SameProperty DEF Closing
<1>3. LooksForWriters(p) /\ LooksForWriters(p)' /\ Mode(p) # "full"
  BY <1>1, <1>2 DEF UnderWay, SameReads
<1>4. /\ Len(model) \in Nat /\ next \in 1..Len(model) /\ DOMAIN model = 1..Len(model)
      /\ \A u, v \in Range(model) : u.id = v.id => u = v
  BY <1>1, RequestTyped DEF Typed, TypeOK
<1>5. PICK t \in Range(model) : t = model[next]
  BY <1>4 DEF Range
<1>6. /\ kept' = (IF Keeps(t, p) THEN kept \union {t.id} ELSE kept)
      /\ needed' = (IF Keeps(t, p) THEN needed \union Inputs(t) ELSE needed)
      /\ changed' = (changed \/ (Keeps(t, p) /\ Adds(t)))
      /\ next' = Follow(next)
      /\ pc' = (IF next = Len(model) /\ ~changed' THEN "finish" ELSE pc)
  BY <1>2, <1>5 DEF Visit, Keeps
<1>7. needed \subseteq needed'
  BY <1>6
<1>8. \A u \in Range(model) : u.id \in kept' =>
        Keeps(u, p)' \/ (Mode(p) = "targetedStep" /\ u.id = p.target)
  <2>1. \A u \in Range(model) : Keeps(u, p) => Keeps(u, p)'
    BY <1>1, <1>7, KeepsOn
  <2>2. \A u \in Range(model) : u.id \in kept => Keeps(u, p) \/ (Mode(p) = "targetedStep" /\ u.id = p.target)
    BY <1>2 DEF UnderWay
  <2>3. \A u \in Range(model) : u.id \in kept' => u.id \in kept \/ (u = t /\ Keeps(t, p))
    BY <1>4, <1>6
  <2>. QED  BY <2>1, <2>2, <2>3
<1>9. Seed(p)' \subseteq needed'
  BY <1>2, <1>3, <1>7 DEF UnderWay, SameReads
<1>10. ~changed' => /\ MountReads(needed)' \subseteq needed'
         /\ \A u \in Range(model) : Keeps(u, p)' = Keeps(u, p) /\ Inputs(u)' = Inputs(u)
         /\ \A i \in 1..next : Keeps(model[i], p) => Inputs(model[i]) \subseteq needed
         /\ needed' = needed
  <2>. SUFFICES ASSUME ~changed' PROVE /\ MountReads(needed)' \subseteq needed'
         /\ \A u \in Range(model) : Keeps(u, p)' = Keeps(u, p) /\ Inputs(u)' = Inputs(u)
         /\ \A i \in 1..next : Keeps(model[i], p) => Inputs(model[i]) \subseteq needed
         /\ needed' = needed
    OBVIOUS
  <2>1. ~changed /\ (Keeps(t, p) => Inputs(t) \subseteq needed)
    BY <1>6 DEF Adds
  <2>2. needed' = needed
    BY <1>6, <2>1
  <2>3. MountReads(needed) \subseteq needed
      /\ \A i \in 1..(next - 1) : Keeps(model[i], p) => Inputs(model[i]) \subseteq needed
    BY <1>1, <1>2, <2>1 DEF UnderWay
  <2>4. \A i \in 1..next : i = next \/ i \in 1..(next - 1)
    BY <1>4
  <2>5. \A u \in Range(model) : Keeps(u, p)' = Keeps(u, p) /\ Inputs(u)' = Inputs(u)
    BY <1>1, <2>2, KeepsSame
  <2>6. ASSUME NEW i \in 1..next, Keeps(model[i], p)
        PROVE  Inputs(model[i]) \subseteq needed
    <3>1. CASE i = next
      BY <1>5, <2>1, <2>6, <3>1
    <3>2. CASE i \in 1..(next - 1)
      BY <2>3, <2>6, <3>2
    <3>. QED  BY <2>4, <3>1, <3>2
  <2>7. MountReads(needed)' = MountReads(needed)
    BY <2>2
  <2>. QED  BY <2>2, <2>3, <2>5, <2>6, <2>7
<1>11. ASSUME pc' = "closure", next' > 0, ~changed'
       PROVE  \A i \in 1..(next' - 1) : Keeps(model[i], p)' => Inputs(model[i])' \subseteq needed'
  <2>1. next' - 1 = next
    <3>1. next' = next + 1
      BY <1>6, <1>11 DEF Follow
    <3>2. next \in Nat
      BY <1>4
    <3>. QED  BY <3>1, <3>2
  <2>. SUFFICES ASSUME NEW i \in 1..next, Keeps(model[i], p)'
                PROVE  Inputs(model[i])' \subseteq needed'
    BY <2>1
  <2>2. PICK u \in Range(model) : u = model[i]
    BY <1>4 DEF Range
  <2>3. model[i]' = u
    BY <1>1, <2>2
  <2>4. Keeps(u, p)' /\ Inputs(model[i])' = Inputs(u)'
    BY <2>3
  <2>. QED  BY <1>10, <1>11, <2>2, <2>4
<1>12. ASSUME pc' = "finish"
       PROVE  \A u \in Range(model) :
                u.id \in kept' /\ ~(Mode(p) = "targetedStep" /\ u.id = p.target)
                  => Inputs(u)' \subseteq needed'
  <2>1. next = Len(model) /\ ~changed'
    BY <1>1, <1>6, <1>12
  <2>2. \A u \in Range(model) : \E i \in 1..next : u = model[i]
    BY <1>4, <2>1 DEF Range
  <2>3. \A u \in Range(model) : Keeps(u, p) => Inputs(u) \subseteq needed
    BY <1>10, <2>1, <2>2
  <2>. SUFFICES ASSUME NEW CONSTANT u \in Range(model), u.id \in kept',
                       ~(Mode(p) = "targetedStep" /\ u.id = p.target)
                PROVE  Inputs(u)' \subseteq needed'
    OBVIOUS
  <2>4. Keeps(u, p)'
    BY <1>8
  <2>5. Keeps(u, p)' = Keeps(u, p) /\ Inputs(u)' = Inputs(u) /\ needed' = needed
    <3>1. needed' = needed
      <4>1. Keeps(t, p) => Inputs(t) \subseteq needed
        BY <1>6, <2>1 DEF Adds
      <4>. QED  BY <1>6, <4>1
    <3>. QED  BY <1>1, <3>1, KeepsSame
  <2>. QED  BY <2>3, <2>4, <2>5
<1>13. pc' = "finish" => ~changed'
  BY <1>1, <1>6
<1>14. Range(model)' = Range(model)
  BY SameModel, <1>1
<1>15. ASSUME pc' = "closure", next' > 0, ~changed'
       PROVE  /\ MountReads(needed)' \subseteq needed'
              /\ \A i \in 1..(next' - 1) : Keeps(model[i], p)' => Inputs(model[i])' \subseteq needed'
  BY <1>10, <1>11, <1>15
<1>. QED  BY <1>3, <1>8, <1>9, <1>10, <1>12, <1>13, <1>14, <1>15 DEF UnderWay

-----------------------------------------------------------------------------
(* The slice has what its transitions read.                                *)

LEMMA ReadsOfRange ==
  ASSUME NEW e
  PROVE  EffectReads(e) = UNION {StatementReads(st) : st \in Range(e)}
BY DEF EffectReads, Range

\* What a slice keeps of an effect is kept of it in the closure as well.
LEMMA FinalEffect ==
  ASSUME NEW u, IsTransition(u), NEW vs
  PROVE  LET stripped == IF Queue \in vs THEN u.effect ELSE StripOps(u.effect)
             e == ProjectToVars(stripped, vs)
         IN  /\ e \in Seq(Range(u.effect))
             /\ Range(e) = {st \in Range(u.effect) :
                              IF st.op \in Ops THEN Queue \in vs ELSE st.var \in vs}
<1>. DEFINE stripped == IF Queue \in vs THEN u.effect ELSE StripOps(u.effect)
            e == ProjectToVars(stripped, vs)
<1>1. u.effect \in Seq(Range(u.effect)) /\ \A st \in Range(u.effect) : IsStatement(st)
  BY DEF IsTransition
<1>2. /\ stripped \in Seq(Range(u.effect))
      /\ Range(stripped) = {st \in Range(u.effect) : st.op \in Ops => Queue \in vs}
  <2>1. CASE Queue \in vs
    BY <1>1, <2>1
  <2>2. CASE Queue \notin vs
    BY <1>1, <2>2, OnlyRange DEF StripOps
  <2>. QED  BY <2>1, <2>2
<1>. HIDE DEF stripped
<1>3. e \in Seq(Range(u.effect)) /\ Range(e) = {st \in Range(stripped) : st.op \in Ops \/ st.var \in vs}
  BY <1>2, OnlyRange DEF ProjectToVars
<1>4. \A st \in Range(u.effect) : st.op \in Ops => st.var = Queue
  BY <1>1 DEF IsStatement
<1>5. Range(e) = {st \in Range(u.effect) : IF st.op \in Ops THEN Queue \in vs ELSE st.var \in vs}
  BY <1>2, <1>3, <1>4
<1>. QED  BY <1>3, <1>5 DEF stripped

CompilesWithReads(p, m) ==
  Compiles(p, m) /\ \A t \in m.trans : EffectReads(t.effect) \subseteq m.vars

\* A targeted step that asks for other transitions to be enabled adds variables of their
\* guards when the closure is over.
ObservesItself(p) == Mode(p) = "targetedStep" => ObservationOnly(p) \intersect Ids = {}
StepsObserveThemselves == \A k \in DOMAIN props : ObservesItself(props[k])

LEMMA SliceCompiles ==
  ASSUME Typed, Closing, ObservesItself(P), pc = "finish"
  PROVE  CompilesWithReads(P, SliceOf(P))
<1>. DEFINE p == P
            s == SliceOf(p)
            vs == needed \union ObservedVars(ObservationOnly(p))
<1>1. at \in DOMAIN props /\ UnderWay(p) /\ StateReads(p) \subseteq Vars
  <2>1. at \in DOMAIN props
    BY RequestTyped DEF Typed, TypeOK
  <2>2. StateReads(p) \subseteq Vars
    BY <2>1, SeedTyped DEF P
  <2>. QED  BY <2>1, <2>2 DEF Closing
<1>2. \A t \in Range(model) : IsTransition(t) /\ t.id \in Ids /\ ById(t.id) = t
  BY RequestTyped, ByIdIs
<1>3. CASE Mode(p) = "full"
  <2>1. s.vars = Vars /\ s.trans = {Whole(t) : t \in Range(model)}
    BY <1>3 DEF SliceOf, FullModel
  <2>2. \A t \in Range(model) : /\ AtomVars(Whole(t).guard) \subseteq Vars
                                /\ EffectReads(Whole(t).effect) \subseteq Vars
    BY <1>2, TransitionTyped DEF Whole, Reads
  <2>. QED  BY <1>1, <2>1, <2>2, MountTyped DEF CompilesWithReads, Compiles
<1>4. CASE Mode(p) # "full"
  <2>. DEFINE ids == kept \union ObservationOnly(p)
              all == {Finalized(t, vs, p) : t \in {u \in Range(model) : u.id \in ids}}
  <2>1. s.vars = vs /\ s.trans \subseteq all
    BY <1>4 DEF SliceOf
  <2>2. Seed(p) \subseteq needed /\ MountReads(needed) \subseteq needed
    BY <1>1, <1>4 DEF UnderWay
  <2>3. StateReads(p) \subseteq needed
    BY <2>2 DEF Seed
  <2>4. ObservedVars(ObservationOnly(p)) \subseteq needed
    <3>1. CASE Mode(p) = "targetedStep"
      <4>1. ObservationOnly(p) \intersect Ids = {}
        BY <3>1 DEF ObservesItself
      <4>. QED  BY <4>1 DEF ObservedVars, MountReads
    <3>2. CASE Mode(p) # "targetedStep"
      BY <2>2, <3>2 DEF Seed, ObservationOnly
    <3>. QED  BY <3>1, <3>2
  <2>5. vs = needed
    BY <2>4
  <2>6. ASSUME NEW u \in Range(model), u.id \in ids
        PROVE  LET t == Finalized(u, vs, p)
               IN  AtomVars(t.guard) \subseteq needed /\ EffectReads(t.effect) \subseteq needed
    <3>1. CASE u.id \in ObservationOnly(p)
      <4>1. AtomVars(u.guard) \subseteq ObservedVars(ObservationOnly(p))
        BY <1>2, <3>1 DEF ObservedVars
      <4>2. EffectReads(<<>>) = {}
        BY DEF EffectReads
      <4>3. Finalized(u, vs, p).guard = u.guard /\ Finalized(u, vs, p).effect = <<>>
        BY <3>1 DEF Finalized
      <4>. QED  BY <2>4, <4>1, <4>2, <4>3
    <3>2. CASE u.id \notin ObservationOnly(p)
      <4>. DEFINE e == Finalized(u, vs, p).effect
                  inputs == ProjectToVars(u.effect, needed)
      <4>1. /\ Finalized(u, vs, p).guard = u.guard
            /\ e = ProjectToVars(IF Queue \in vs THEN u.effect ELSE StripOps(u.effect), vs)
        BY <3>2 DEF Finalized
      <4>2. Range(e) = {st \in Range(u.effect) :
                              IF st.op \in Ops THEN Queue \in vs ELSE st.var \in vs}
        <5>. HIDE DEF vs, e
        <5>1. IsTransition(u)
          BY <1>2
        <5>. QED  BY <4>1, <5>1, FinalEffect
      <4>3. Range(inputs) = {st \in Range(u.effect) : st.op \in Ops \/ st.var \in needed}
        BY <1>2, Projected DEF IsTransition
      <4>4. Range(e) \subseteq Range(inputs) /\ Range(e) \subseteq Range(u.effect)
        BY <2>5, <4>2, <4>3
      <4>5. EffectReads(e) \subseteq EffectReads(inputs) /\ EffectReads(e) \subseteq EffectReads(u.effect)
        BY <4>4, ReadsOfRange
      <4>6. CASE Mode(p) = "targetedStep" /\ u.id = p.target
        <5>1. HasTarget(p) /\ Target(p) = u
          BY <1>2, <4>6 DEF HasTarget, Target
        <5>2. Reads(u) \subseteq needed
          BY <2>2, <4>6, <5>1 DEF Seed, TargetSeed
        <5>. QED  BY <4>1, <4>5, <5>2 DEF Reads
      <4>7. CASE ~(Mode(p) = "targetedStep" /\ u.id = p.target)
        <5>1. Inputs(u) \subseteq needed
          BY <1>1, <1>4, <2>6, <3>2, <4>7 DEF UnderWay
        <5>. QED  BY <4>1, <4>5, <5>1 DEF Inputs
      <4>. QED  BY <4>6, <4>7
    <3>. QED  BY <3>1, <3>2
  <2>7. \A t \in s.trans : AtomVars(t.guard) \subseteq needed /\ EffectReads(t.effect) \subseteq needed
    BY <2>1, <2>6
  <2>. QED  BY <2>1, <2>2, <2>3, <2>5, <2>7 DEF CompilesWithReads, Compiles
<1>. QED  BY <1>3, <1>4

Compiled ==
  \A k \in DOMAIN slices :
     slices[k] # NoSlice /\ ObservesItself(props[k]) => CompilesWithReads(props[k], slices[k])

LEMMA NextCompiled == Typed /\ Typed' /\ Closing /\ Compiled /\ [Next]_vars => Closing' /\ Compiled'
<1>. SUFFICES ASSUME Typed, Typed', Closing, Compiled, [Next]_vars
              PROVE  Closing' /\ Compiled'
  OBVIOUS
<1>1. model' = model /\ props' = props
  BY DEF Next, Request, ExpandMounts, Visit, Finish, CheckGroup, Merge, vars
<1>2. Closing'
  <2>1. CASE Request
    BY <2>1, RequestCloses
  <2>2. CASE ExpandMounts
    BY <2>2, ExpandMountsCloses
  <2>3. CASE Visit
    BY <2>3, VisitCloses
  <2>4. CASE Finish
    BY <2>4 DEF Finish, Closing
  <2>5. CASE CheckGroup \/ Merge
    BY <2>5 DEF CheckGroup, Merge, Closing
  <2>6. CASE UNCHANGED vars
    <3>1. model' = model /\ needed' = needed /\ kept' = kept /\ next' = next /\ changed' = changed
          /\ pc' = pc /\ P' = P
      BY <2>6 DEF vars, P
    <3>. SUFFICES ASSUME NEW CONSTANT p, p = P', pc \in {"closure", "finish"} PROVE UnderWay(p)'
      BY <3>1 DEF Closing
    <3>2. SameReads(p) /\ UnderWay(p) /\ Range(model)' = Range(model)
      BY <3>1, SameProperty, SameModel DEF Closing
    <3>3. \A t \in Range(model) : Keeps(t, p) => Keeps(t, p)'
      BY <3>1, KeepsOn
    <3>4. \A t \in Range(model) : Keeps(t, p)' => Keeps(t, p)
      BY <3>1, KeepsSame
    <3>5. \A t \in Range(model) : Inputs(t)' = Inputs(t)
      BY <3>1, KeepsSame
    <3>6. ASSUME NEW i \in 1..(next - 1)
          PROVE  (Keeps(model[i], p)' => Keeps(model[i], p)) /\ Inputs(model[i])' = Inputs(model[i])
      <4>1. i \in DOMAIN model
        BY RequestTyped DEF Typed, TypeOK
      <4>2. PICK t \in Range(model) : t = model[i]
        BY <4>1 DEF Range
      <4>3. model[i]' = t
        BY <3>1, <4>2
      <4>4. Keeps(t, p)' => Keeps(t, p)
        BY <3>4
      <4>5. Keeps(model[i], p)' = Keeps(t, p)' /\ Inputs(model[i])' = Inputs(t)'
        BY <4>3
      <4>. QED  BY <3>5, <4>2, <4>4, <4>5
    <3>7. MountReads(needed)' = MountReads(needed)
      BY <3>1
    <3>. QED  BY <3>1, <3>2, <3>3, <3>4, <3>5, <3>6, <3>7 DEF UnderWay, SameReads
  <2>. QED  BY <2>1, <2>2, <2>3, <2>4, <2>5, <2>6 DEF Next
<1>3. Compiled'
  <2>1. \A p : ObservesItself(p)' = ObservesItself(p)
    <3>1. Ids' = Ids
      BY <1>1 DEF Ids
    <3>. QED  BY <3>1 DEF ObservesItself
  <2>. SUFFICES ASSUME NEW k \in DOMAIN slices', slices'[k] # NoSlice, ObservesItself(props[k])
                PROVE  CompilesWithReads(props[k], slices'[k])
    BY <1>1, <2>1 DEF Compiled, CompilesWithReads, Compiles
  <2>2. \A j \in DOMAIN slices :
          slices[j] # NoSlice /\ ObservesItself(props[j]) => CompilesWithReads(props[j], slices[j])
    BY DEF Compiled
  <2>3. CASE slices' = slices
    BY <2>2, <2>3
  <2>4. CASE Finish
    <3>1. slices' = [slices EXCEPT ![at] = SliceOf(P)] /\ pc = "finish" /\ DOMAIN slices' = DOMAIN slices
      BY <2>4 DEF Finish
    <3>2. ObservesItself(P) => CompilesWithReads(P, SliceOf(P))
      BY <3>1, SliceCompiles
    <3>3. CASE k = at
      BY <3>1, <3>2, <3>3 DEF P
    <3>4. CASE k # at
      BY <2>2, <3>1, <3>4
    <3>. QED  BY <3>3, <3>4
  <2>. QED  BY <2>3, <2>4 DEF Next, Request, ExpandMounts, Visit, CheckGroup, Merge, vars
<1>. QED  BY <1>2, <1>3

LEMMA InitCompiled == Init => Closing /\ Compiled
BY DEF Init, Closing, Compiled

\* The engine can compile every slice, and no statement a slice keeps reads a variable it has
\* not, unless a targeted step property observes other transitions.
THEOREM EverySliceCompiles == Spec => [](StepsObserveThemselves => SlicesCompile)
<1>1. Typed /\ [Next]_vars => Typed'
  BY NextTyped
<1>2. Typed /\ Compiled => (StepsObserveThemselves => SlicesCompile)
  <2>1. Typed => DOMAIN slices = DOMAIN props
    BY RequestTyped DEF Typed
  <2>. QED  BY <2>1 DEF Compiled, StepsObserveThemselves, SlicesCompile, CompilesWithReads
<1>. QED  BY <1>1, <1>2, InitTyped, InitCompiled, NextCompiled, PTL DEF Spec

-----------------------------------------------------------------------------
(* The groups. Slices with the same key are the same when nothing observed *)
(* is among their transitions.                                             *)

Shape(p, s) ==
  /\ s = [vars |-> s.vars, mode |-> s.mode, trans |-> s.trans]
  /\ s.mode = Mode(p)
  /\ IF Mode(p) = "full" THEN s = FullModel
     ELSE \A t \in s.trans : \E u \in Range(model) : t = Finalized(u, s.vars, p)

LEMMA SliceShape ==
  ASSUME NEW p
  PROVE  Shape(p, SliceOf(p))
BY DEF Shape, SliceOf, FullModel

LEMMA SameKeySameSlice ==
  ASSUME Typed, NEW p, NEW q, NEW s, NEW r, Shape(p, s), Shape(q, r), Key(s) = Key(r),
         ObservedBy(p) \intersect Ids = {}, ObservedBy(q) \intersect Ids = {}
  PROVE  s = r
<1>1. s.vars = r.vars /\ s.mode = r.mode /\ {t.id : t \in s.trans} = {t.id : t \in r.trans}
  BY DEF Key
<1>2. Mode(p) = Mode(q)
  BY <1>1 DEF Shape
<1>3. CASE Mode(p) = "full"
  BY <1>2, <1>3 DEF Shape
<1>4. CASE Mode(p) # "full"
  <2>. DEFINE vs == s.vars
  <2>1. /\ \A t \in s.trans : \E u \in Range(model) : t = Finalized(u, vs, p)
        /\ \A t \in r.trans : \E u \in Range(model) : t = Finalized(u, vs, q)
    BY <1>1, <1>2, <1>4 DEF Shape
  <2>2. \A u \in Range(model) : u.id \notin ObservationOnly(p) /\ u.id \notin ObservationOnly(q)
    BY RequestTyped DEF ObservationOnly, ObservedBy
  <2>. HIDE DEF vs
  <2>3. \A u \in Range(model) : Finalized(u, vs, p) = Finalized(u, vs, q) /\ Finalized(u, vs, p).id = u.id
    BY <2>2 DEF Finalized
  <2>4. \A t, u \in Range(model) : t.id = u.id => t = u
    BY RequestTyped
  <2>5. \A t \in s.trans, u \in r.trans : t.id = u.id => t = u
    BY <2>1, <2>3, <2>4
  <2>6. s.trans = r.trans
    <3>1. \A t \in s.trans : \E u \in r.trans : t.id = u.id
      BY <1>1
    <3>2. \A u \in r.trans : \E t \in s.trans : t.id = u.id
      BY <1>1
    <3>3. s.trans \subseteq r.trans
      BY <2>5, <3>1
    <3>4. r.trans \subseteq s.trans
      BY <2>5, <3>2
    <3>. QED  BY <3>3, <3>4
  <2>. QED  BY <1>1, <2>6 DEF Shape
<1>. QED  BY <1>3, <1>4

\* A group holds properties that were sliced, with the key of its slice, which is that of one
\* of them; and no property that was sliced is left out.
IsGroup(g, n, of) ==
  /\ g = [slice |-> g.slice, members |-> g.members]
  /\ g.members \in Seq(1..n)
  /\ \A i \in Range(g.members) : Key(of[i]) = Key(g.slice)
  /\ \E j \in 1..n : g.slice = of[j]

Grouped ==
  /\ \A g \in DOMAIN groups : IsGroup(groups[g], at - 1, slices)
  /\ \A k \in 1..(at - 1) :
       Shape(props[k], slices[k]) /\ \E g \in DOMAIN groups : k \in Range(groups[g].members)

Joined(g, i) == [g EXCEPT !.members = Append(@, i)]

\* A group remains one when another property is sliced, and may take it in.
LEMMA GroupGrows ==
  ASSUME NEW g, NEW n \in Nat, NEW of, NEW of2, IsGroup(g, n, of), \A j \in 1..n : of2[j] = of[j]
  PROVE  /\ IsGroup(g, n + 1, of2)
         /\ Key(of2[n + 1]) = Key(g.slice) =>
              /\ IsGroup(Joined(g, n + 1), n + 1, of2)
              /\ n + 1 \in Range(Joined(g, n + 1).members)
              /\ Range(g.members) \subseteq Range(Joined(g, n + 1).members)
<1>. DEFINE m == n + 1
            h == [slice |-> g.slice, members |-> Append(g.members, m)]
<1>1. /\ g = [slice |-> g.slice, members |-> g.members] /\ g.members \in Seq(1..n)
      /\ \A i \in Range(g.members) : Key(of[i]) = Key(g.slice)
      /\ \E j \in 1..n : g.slice = of[j]
  BY DEF IsGroup
<1>2. \A j \in 1..n : j \in 1..m
  OBVIOUS
<1>3. m \in 1..m
  OBVIOUS
<1>. HIDE DEF m
<1>4. Range(g.members) \subseteq 1..n
  BY <1>1 DEF Range
<1>5. g.members \in Seq(1..m)
  <2>. DEFINE S == 1..n
              T == 1..m
              q == g.members
  <2>1. S \subseteq T /\ q \in Seq(S)
    BY <1>1, <1>2
  <2>. HIDE DEF S, T, q
  <2>2. q \in Seq(T)
    BY <2>1
  <2>. QED  BY <2>2 DEF T, q
<1>6. \A i \in Range(g.members) : Key(of2[i]) = Key(g.slice)
  BY <1>1, <1>4
<1>7. \E j \in 1..m : g.slice = of2[j]
  BY <1>1, <1>2
<1>8. IsGroup(g, m, of2)
  BY <1>1, <1>5, <1>6, <1>7 DEF IsGroup
<1>9. ASSUME Key(of2[m]) = Key(g.slice)
      PROVE  IsGroup(h, m, of2) /\ m \in Range(h.members) /\ Range(g.members) \subseteq Range(h.members)
  <2>1. Append(g.members, m) \in Seq(1..m) /\ Range(Append(g.members, m)) = Range(g.members) \union {m}
    BY <1>3, <1>5, AppendRange
  <2>2. h.slice = g.slice /\ h.members = Append(g.members, m)
    OBVIOUS
  <2>3. h = [slice |-> h.slice, members |-> h.members]
    OBVIOUS
  <2>. HIDE DEF h
  <2>. QED  BY <1>6, <1>7, <1>9, <2>1, <2>2, <2>3 DEF IsGroup
<1>10. Joined(g, m) = h
  <2>1. PICK a, b : g = [slice |-> a, members |-> b]
    BY <1>1
  <2>2. g.slice = a /\ g.members = b
    BY <2>1
  <2>3. [g EXCEPT !.members = Append(@, m)] = [slice |-> a, members |-> Append(b, m)]
    BY <2>1
  <2>. QED  BY <2>2, <2>3 DEF Joined
<1>. HIDE DEF h
<1>. QED  BY <1>8, <1>9, <1>10 DEF m

LEMMA FinishGroups ==
  ASSUME Typed, Grouped, Finish
  PROVE  Grouped'
<1>. DEFINE s == SliceOf(P)
            same == {g \in DOMAIN groups : Key(groups[g].slice) = Key(s)}
            new == [slice |-> s, members |-> <<at>>]
            n == at - 1
<1>1. /\ model' = model /\ props' = props /\ at' = at + 1 /\ at \in 1..Len(props)
      /\ slices' = [slices EXCEPT ![at] = s] /\ DOMAIN slices = 1..Len(props)
      /\ Len(props) \in Nat
  BY RequestTyped DEF Finish, Typed, TypeOK
<1>2. /\ groups \in Seq(Range(groups)) /\ Len(groups) \in Nat /\ DOMAIN groups = 1..Len(groups)
  BY DEF Typed
<1>3. n \in Nat /\ at = n + 1 /\ at' - 1 = n + 1
  BY <1>1
<1>4. /\ \A k \in 1..(n + 1) : k = at \/ (k \in 1..n /\ k # at)
      /\ at \in 1..(n + 1) /\ \A k \in 1..n : k \in 1..(n + 1) /\ k # at /\ k \in DOMAIN slices
  BY <1>1
<1>5. slices'[at] = s /\ \A k \in 1..n : slices'[k] = slices[k]
  BY <1>1, <1>4
<1>6. Shape(P, s)
  BY SliceShape
<1>7. groups' = (IF same = {} THEN Append(groups, new)
                 ELSE [g \in DOMAIN groups |->
                        IF g \in same THEN Joined(groups[g], at) ELSE groups[g]])
  BY DEF Finish, Joined
<1>8. /\ \A g \in DOMAIN groups : IsGroup(groups[g], n, slices)
      /\ \A k \in 1..n :
           Shape(props[k], slices[k]) /\ \E g \in DOMAIN groups : k \in Range(groups[g].members)
  BY DEF Grouped
<1>. HIDE DEF s, n
<1>9. \A k \in 1..(n + 1) : Shape(props[k], slices[k])'
  <2>1. \A k \in 1..(n + 1) : Shape(props[k], slices'[k])
    BY <1>4, <1>5, <1>6, <1>8 DEF P
  <2>2. Range(model)' = Range(model) /\ FullModel' = FullModel
    BY <1>1 DEF Range, FullModel
  <2>3. \A p, r : Shape(p, r)' = Shape(p, r)
    BY <2>2 DEF Shape
  <2>. QED  BY <1>1, <2>1, <2>3
<1>10. \A g \in DOMAIN groups : IsGroup(groups[g], n + 1, slices')
  BY <1>3, <1>5, <1>8, GroupGrows
<1>11. CASE same = {}
  <2>1. groups' = Append(groups, new)
    BY <1>7, <1>11
  <2>2. IsGroup(new, n + 1, slices')
    <3>1. <<at>> \in Seq(1..(n + 1)) /\ Range(<<at>>) = {at}
      BY <1>4 DEF Range
    <3>2. new.slice = s /\ new.members = <<at>> /\ new = [slice |-> new.slice, members |-> new.members]
      OBVIOUS
    <3>. HIDE DEF new
    <3>. QED  BY <1>4, <1>5, <3>1, <3>2 DEF IsGroup
  <2>3. at \in Range(new.members)
    BY DEF Range
  <2>. HIDE DEF new
  <2>4. /\ DOMAIN groups' = 1..(Len(groups) + 1) /\ groups'[Len(groups) + 1] = new
        /\ \A g \in DOMAIN groups : groups'[g] = groups[g]
    BY <1>2, <2>1
  <2>5. /\ \A g \in DOMAIN groups' : g = Len(groups) + 1 \/ g \in DOMAIN groups
        /\ Len(groups) + 1 \in DOMAIN groups' /\ \A g \in DOMAIN groups : g \in DOMAIN groups'
    BY <1>2, <2>4
  <2>6. \A g \in DOMAIN groups' : IsGroup(groups'[g], n + 1, slices')
    BY <1>10, <2>2, <2>4, <2>5
  <2>7. \A k \in 1..(n + 1) : \E g \in DOMAIN groups' : k \in Range(groups'[g].members)
    BY <1>4, <1>8, <2>3, <2>4, <2>5
  <2>. QED  BY <1>3, <1>9, <2>6, <2>7 DEF Grouped
<1>12. CASE same # {}
  <2>1. /\ DOMAIN groups' = DOMAIN groups
        /\ \A g \in DOMAIN groups :
             groups'[g] = IF g \in same THEN Joined(groups[g], n + 1) ELSE groups[g]
    BY <1>3, <1>7, <1>12
  <2>2. \A g \in same : /\ IsGroup(groups'[g], n + 1, slices') /\ n + 1 \in Range(groups'[g].members)
                        /\ Range(groups[g].members) \subseteq Range(groups'[g].members)
    <3>. SUFFICES ASSUME NEW g \in same
                  PROVE  /\ IsGroup(groups'[g], n + 1, slices') /\ n + 1 \in Range(groups'[g].members)
                         /\ Range(groups[g].members) \subseteq Range(groups'[g].members)
      OBVIOUS
    <3>1. IsGroup(groups[g], n, slices) /\ Key(slices'[n + 1]) = Key(groups[g].slice)
      BY <1>3, <1>5, <1>8
    <3>2. groups'[g] = Joined(groups[g], n + 1)
      BY <2>1
    <3>. QED  BY <1>3, <1>5, <3>1, <3>2, GroupGrows
  <2>3. \A g \in DOMAIN groups' : IsGroup(groups'[g], n + 1, slices')
    BY <1>10, <2>1, <2>2
  <2>4. \A g \in DOMAIN groups : Range(groups[g].members) \subseteq Range(groups'[g].members)
    BY <2>1, <2>2
  <2>5. \A k \in 1..(n + 1) : \E g \in DOMAIN groups' : k \in Range(groups'[g].members)
    BY <1>3, <1>4, <1>8, <1>12, <2>1, <2>2, <2>4
  <2>. QED  BY <1>3, <1>9, <2>3, <2>5 DEF Grouped
<1>. QED  BY <1>11, <1>12

-----------------------------------------------------------------------------
(* The verdicts. What a group found under a name is the verdict of the one *)
(* property of that name, on the slice of the group.                       *)

DistinctNames == \A j, k \in DOMAIN props : props[j].name = props[k].name => j = k

VerdictOf(k, g) ==
  k \in Range(groups[g].members) /\ merged[props[k].name] = Verdict(props[k], groups[g].slice)

Told ==
  /\ DOMAIN merged = {p.name : p \in {props[i] : i \in DOMAIN props}}
  /\ pc \notin {"check", "done"} =>
       checked = 0 /\ \A k \in DOMAIN props : merged[props[k].name] = "none"
  /\ pc \in {"check", "done"} /\ DistinctNames =>
       \A k \in DOMAIN props :
          IF merged[props[k].name] = "none"
          THEN \A g \in 1..checked : k \notin Range(groups[g].members)
          ELSE \E g \in 1..checked : VerdictOf(k, g)
  /\ pc = "done" /\ DistinctNames =>
       \A k \in DOMAIN props : \E g \in DOMAIN groups :
          k \in Range(groups[g].members) /\ verdicts[k] = Verdict(props[k], groups[g].slice)

LEMMA VerdictIsOne ==
  ASSUME NEW p, NEW m
  PROVE  Verdict(p, m) # "none"
BY DEF Verdict

Named(g, n) == {i \in DOMAIN g.members : props[g.members[i]].name = n}
FirstOf(S) == CHOOSE i \in S : \A j \in S : i <= j

LEMMA FirstIsIn ==
  ASSUME NEW n \in Nat, NEW S, S \subseteq 1..n, S # {}
  PROVE  FirstOf(S) \in S
<1>1. S \subseteq 0..n
  OBVIOUS
<1>2. \E i \in S : \A j \in S : i <= j
  BY <1>1, LeastOf
<1>. QED  BY <1>2 DEF FirstOf

LEMMA CheckGroupTells ==
  ASSUME Typed, Grouped, Told, CheckGroup
  PROVE  Told'
<1>. DEFINE c == checked + 1
            g == groups[c]
<1>1. /\ props' = props /\ groups' = groups /\ pc = "check" /\ pc' = "check" /\ checked' = c
      /\ checked < Len(groups)
  BY DEF CheckGroup
<1>2. merged' = [n \in DOMAIN merged |->
                   IF merged[n] # "none" \/ Named(g, n) = {} THEN merged[n]
                   ELSE Verdict(props[g.members[FirstOf(Named(g, n))]], g.slice)]
  BY DEF CheckGroup, Named, FirstOf
<1>3. /\ checked \in Nat /\ c \in 1..c /\ c \in DOMAIN groups
      /\ \A i \in 1..c : i = c \/ i \in 1..checked
      /\ \A i \in 1..checked : i \in 1..c
  <2>1. Len(groups) \in Nat /\ DOMAIN groups = 1..Len(groups) /\ checked \in 0..Len(groups)
    BY DEF Typed, TypeOK
  <2>. QED  BY <1>1, <2>1
<1>4. IsGroup(g, at - 1, slices) /\ at - 1 \in Nat /\ 1..(at - 1) \subseteq DOMAIN props
  BY <1>3, RequestTyped DEF Grouped, Typed, TypeOK
<1>. DEFINE q == g.members
<1>5. q \in Seq(1..(at - 1)) /\ Len(q) \in Nat /\ DOMAIN q = 1..Len(q)
      /\ \A i \in DOMAIN q : q[i] \in DOMAIN props
  <2>. DEFINE n == at - 1
  <2>1. q \in Seq(1..n)
    BY <1>4 DEF IsGroup
  <2>2. Len(q) \in Nat /\ DOMAIN q = 1..Len(q) /\ \A i \in DOMAIN q : q[i] \in 1..n
    <3>. DEFINE X == 1..n
    <3>1. q \in Seq(X)
      BY <2>1
    <3>. HIDE DEF q, n, X
    <3>2. Len(q) \in Nat /\ DOMAIN q = 1..Len(q) /\ \A i \in DOMAIN q : q[i] \in X
      BY <3>1, SeqElements
    <3>. QED  BY <3>2 DEF X
  <2>. QED  BY <1>4, <2>1, <2>2
<1>6. DOMAIN merged' = DOMAIN merged
  BY <1>2
<1>. HIDE DEF g, c, q
<1>7. ASSUME DistinctNames, NEW k \in DOMAIN props
      PROVE  IF merged'[props[k].name] = "none"
             THEN \A i \in 1..c : k \notin Range(groups[i].members)
             ELSE \E i \in 1..c : /\ k \in Range(groups[i].members)
                                  /\ merged'[props[k].name] = Verdict(props[k], groups[i].slice)
  <2>. DEFINE n == props[k].name
              S == Named(g, n)
  <2>1. n \in DOMAIN merged
    BY DEF Told
  <2>2. IF merged[n] = "none" THEN \A i \in 1..checked : k \notin Range(groups[i].members)
        ELSE \E i \in 1..checked : VerdictOf(k, i)
    BY <1>1, <1>7 DEF Told
  <2>3. S = {i \in DOMAIN q : q[i] = k}
    BY <1>5, <1>7 DEF Named, DistinctNames, q
  <2>4. merged'[n] = IF merged[n] # "none" \/ S = {} THEN merged[n]
                     ELSE Verdict(props[q[FirstOf(S)]], g.slice)
    BY <1>2, <2>1 DEF q
  <2>5. S = {} <=> k \notin Range(q)
    BY <2>3 DEF Range
  <2>6. q = groups[c].members /\ g = groups[c]
    BY DEF q, g
  <2>. HIDE DEF n, S
  <2>7. CASE merged[n] # "none"
    <3>1. PICK i \in 1..checked : VerdictOf(k, i)
      BY <2>2, <2>7
    <3>2. k \in Range(groups[i].members) /\ merged[n] = Verdict(props[k], groups[i].slice)
      BY <3>1 DEF VerdictOf, n
    <3>. QED  BY <1>3, <2>4, <2>7, <3>2 DEF n
  <2>8. CASE merged[n] = "none" /\ S = {}
    <3>1. merged'[n] = "none"
      BY <2>4, <2>8
    <3>2. \A i \in 1..c : k \notin Range(groups[i].members)
      BY <1>3, <2>2, <2>5, <2>6, <2>8
    <3>. QED  BY <3>1, <3>2 DEF n
  <2>9. CASE merged[n] = "none" /\ S # {}
    <3>1. FirstOf(S) \in S
      <4>1. S \subseteq 1..Len(q)
        BY <1>5, <2>3
      <4>. QED  BY <1>5, <2>9, <4>1, FirstIsIn
    <3>2. q[FirstOf(S)] = k
      BY <2>3, <3>1
    <3>3. merged'[n] = Verdict(props[k], groups[c].slice)
      BY <2>4, <2>6, <2>9, <3>2
    <3>4. k \in Range(groups[c].members)
      BY <2>5, <2>6, <2>9
    <3>. QED  BY <1>3, <3>3, <3>4, VerdictIsOne DEF n
  <2>. QED  BY <2>7, <2>8, <2>9
<1>8. DistinctNames' = DistinctNames
  BY <1>1 DEF DistinctNames
<1>9. \A k, i : VerdictOf(k, i)' <=> /\ k \in Range(groups[i].members)
                                    /\ merged'[props[k].name] = Verdict(props[k], groups[i].slice)
  BY <1>1 DEF VerdictOf
<1>10. DistinctNames => \A k \in DOMAIN props :
          IF merged'[props[k].name] = "none"
          THEN \A i \in 1..c : k \notin Range(groups[i].members)
          ELSE \E i \in 1..c : VerdictOf(k, i)'
  BY <1>7, <1>9
<1>. QED  BY <1>1, <1>6, <1>8, <1>10 DEF Told

LEMMA MergeTells ==
  ASSUME Typed, Grouped, Told, Merge
  PROVE  Told'
<1>1. /\ props' = props /\ groups' = groups /\ merged' = merged /\ checked' = checked
      /\ pc = "check" /\ pc' = "done" /\ checked = Len(groups)
      /\ verdicts' = [k \in DOMAIN props |->
                      IF merged[props[k].name] = "none" THEN "verified" ELSE merged[props[k].name]]
  BY DEF Merge
<1>2. DOMAIN groups = 1..checked
  BY <1>1 DEF Typed
<1>3. DistinctNames' = DistinctNames
  BY <1>1 DEF DistinctNames
<1>4. \A k, g : VerdictOf(k, g)' = VerdictOf(k, g)
  BY <1>1 DEF VerdictOf
<1>5. ASSUME DistinctNames, NEW k \in DOMAIN props
      PROVE  \E g \in DOMAIN groups :
               k \in Range(groups[g].members) /\ verdicts'[k] = Verdict(props[k], groups[g].slice)
  <2>1. k \in 1..(at - 1)
    <3>1. DOMAIN props = 1..Len(props) /\ Len(props) \in Nat
      BY RequestTyped
    <3>2. props # <<>>
      BY <3>1
    <3>. QED  BY <1>1, <3>1, <3>2 DEF Typed
  <2>2. \E g \in DOMAIN groups : k \in Range(groups[g].members)
    BY <2>1 DEF Grouped
  <2>3. IF merged[props[k].name] = "none" THEN \A g \in 1..checked : k \notin Range(groups[g].members)
        ELSE \E g \in 1..checked : VerdictOf(k, g)
    BY <1>1, <1>5 DEF Told
  <2>4. merged[props[k].name] # "none"
    BY <1>2, <2>2, <2>3
  <2>5. PICK g \in DOMAIN groups : VerdictOf(k, g)
    BY <1>2, <2>3, <2>4
  <2>6. verdicts'[k] = merged[props[k].name]
    BY <1>1, <2>4
  <2>. QED  BY <2>5, <2>6 DEF VerdictOf
<1>. QED  BY <1>1, <1>3, <1>4, <1>5 DEF Told

LEMMA NextTells == Typed /\ Typed' /\ Grouped /\ Told /\ [Next]_vars => Grouped' /\ Told'
<1>. SUFFICES ASSUME Typed, Typed', Grouped, Told, [Next]_vars
              PROVE  Grouped' /\ Told'
  OBVIOUS
<1>1. ASSUME UNCHANGED <<model, props, at, slices, groups>>
      PROVE  Grouped'
  <2>1. Range(model)' = Range(model) /\ FullModel' = FullModel
    BY <1>1 DEF Range, FullModel
  <2>2. \A p, r : Shape(p, r)' = Shape(p, r)
    BY <2>1 DEF Shape
  <2>. QED  BY <1>1, <2>2 DEF Grouped
<1>2. ASSUME UNCHANGED <<props, merged, checked>>, pc' \notin {"check", "done"},
             pc \notin {"check", "done"}
      PROVE  Told'
  BY <1>2 DEF Told
<1>3. CASE Request
  BY <1>1, <1>2, <1>3 DEF Request
<1>4. CASE ExpandMounts
  <2>1. pc = "closure" /\ pc' \in {"closure", "finish"}
    BY <1>4 DEF ExpandMounts
  <2>. QED  BY <1>1, <1>2, <1>4, <2>1 DEF ExpandMounts
<1>5. CASE Visit
  <2>1. pc = "closure" /\ pc' \in {"closure", "finish"}
    BY <1>5 DEF Visit
  <2>. QED  BY <1>1, <1>2, <1>5, <2>1 DEF Visit
<1>6. CASE Finish
  <2>1. Grouped'
    BY <1>6, FinishGroups
  <2>2. /\ UNCHANGED <<props, merged, checked>> /\ pc = "finish" /\ pc' \in {"check", "request"}
        /\ checked = 0 /\ \A k \in DOMAIN props : merged[props[k].name] = "none"
    BY <1>6 DEF Finish, Told
  <2>3. Told'
    BY <2>2 DEF Told
  <2>. QED  BY <2>1, <2>3
<1>7. CASE CheckGroup
  <2>1. Grouped'
    BY <1>1, <1>7 DEF CheckGroup
  <2>. QED  BY <1>7, <2>1, CheckGroupTells
<1>8. CASE Merge
  <2>1. Grouped'
    BY <1>1, <1>8 DEF Merge
  <2>. QED  BY <1>8, <2>1, MergeTells
<1>9. CASE UNCHANGED vars
  <2>1. Grouped'
    BY <1>1, <1>9 DEF vars
  <2>2. DistinctNames' = DistinctNames /\ \A k, g : VerdictOf(k, g)' = VerdictOf(k, g)
    BY <1>9 DEF vars, DistinctNames, VerdictOf
  <2>3. Told'
    BY <1>9, <2>2 DEF vars, Told
  <2>. QED  BY <2>1, <2>3
<1>. QED  BY <1>3, <1>4, <1>5, <1>6, <1>7, <1>8, <1>9 DEF Next

LEMMA InitTells == Init => Grouped /\ Told
<1>. SUFFICES ASSUME Init PROVE Grouped /\ Told
  OBVIOUS
<1>1. /\ at = 1 /\ groups = <<>> /\ checked = 0 /\ pc = "request"
      /\ merged = [n \in {p.name : p \in {props[i] : i \in DOMAIN props}} |-> "none"]
  BY DEF Init
<1>2. DOMAIN groups = {} /\ 1..(at - 1) = {}
  BY <1>1
<1>3. \A k \in DOMAIN props : props[k].name \in {p.name : p \in {props[i] : i \in DOMAIN props}}
  OBVIOUS
<1>. QED  BY <1>1, <1>2, <1>3 DEF Grouped, Told

LEMMA Owned == Typed /\ Grouped /\ Told => (DistinctNames => OwnVerdicts)
<1>. SUFFICES ASSUME Typed, Grouped, Told, DistinctNames, pc = "done",
                     NEW k \in DOMAIN props, ~Observing(k)
              PROVE  verdicts[k] = Verdict(props[k], slices[k])
  BY DEF OwnVerdicts
<1>1. PICK g \in DOMAIN groups :
        k \in Range(groups[g].members) /\ verdicts[k] = Verdict(props[k], groups[g].slice)
  BY DEF Told
<1>2. IsGroup(groups[g], at - 1, slices) /\ 1..(at - 1) \subseteq DOMAIN props
  BY RequestTyped DEF Grouped, Typed, TypeOK
<1>3. PICK j \in 1..(at - 1) : groups[g].slice = slices[j]
  BY <1>2 DEF IsGroup
<1>4. Key(slices[k]) = Key(slices[j])
  BY <1>1, <1>2, <1>3 DEF IsGroup
<1>5. k \in 1..(at - 1)
  <2>. DEFINE n == at - 1
              q == groups[g].members
  <2>1. q \in Seq(1..n) /\ k \in Range(q)
    BY <1>1, <1>2 DEF IsGroup
  <2>. QED  BY <2>1, SeqElements
<1>6. Shape(props[k], slices[k]) /\ Shape(props[j], slices[j])
  BY <1>5 DEF Grouped
<1>7. ObservedBy(props[k]) \intersect Ids = {} /\ ObservedBy(props[j]) \intersect Ids = {}
  BY <1>2, <1>4 DEF Observing
<1>8. slices[k] = slices[j]
  BY <1>4, <1>6, <1>7, SameKeySameSlice
<1>. QED  BY <1>1, <1>3, <1>8

\* The verdict of a property is that of its own slice, whatever else is in its group and in
\* whatever order the groups are checked, where no two properties have the same name.
THEOREM VerdictsAreOwn == Spec => [](DistinctNames => OwnVerdicts)
<1>. QED  BY InitTyped, NextTyped, InitTells, NextTells, Owned, PTL DEF Spec

-----------------------------------------------------------------------------
(* What the recursive functions of the reference compute, step by step.    *)

RunStep(e, s, g, n) ==
  IF n = 0 THEN {s} ELSE UNION {After(e[n], u, s) : u \in g[n - 1]}
IsRun(e, s, n, g) == g = [k \in 0..n |-> RunStep(e, s, g, k)]
Run(e, s) == CHOOSE g : IsRun(e, s, Len(e), g)

LEMMA RunExists ==
  ASSUME NEW e, NEW s, NEW n \in Nat
  PROVE  \E g : IsRun(e, s, n, g)
<1>. DEFINE J == {j \in 0..n : \E g : IsRun(e, s, j, g)}
<1>1. 0 \in J
  <2>. DEFINE g == [k \in 0..0 |-> {s}]
  <2>1. \A k \in 0..0 : RunStep(e, s, g, k) = {s}
    BY DEF RunStep
  <2>2. IsRun(e, s, 0, g)
    BY <2>1 DEF IsRun
  <2>. QED  BY <2>2
<1>2. ASSUME NEW j \in 1..n, j - 1 \in J
      PROVE  j \in J
  <2>1. PICK g : IsRun(e, s, j - 1, g)
    BY <1>2
  <2>. DEFINE h == [k \in 0..j |-> IF k = j THEN RunStep(e, s, g, j) ELSE g[k]]
  <2>2. ASSUME NEW k \in 0..j
        PROVE  h[k] = RunStep(e, s, h, k)
    <3>1. k # 0 => k - 1 \in 0..j /\ k - 1 # j
      OBVIOUS
    <3>2. k # 0 => h[k - 1] = g[k - 1]
      BY <3>1
    <3>3. RunStep(e, s, h, k) = RunStep(e, s, g, k)
      BY <3>2 DEF RunStep
    <3>4. CASE k = j
      BY <3>3, <3>4
    <3>5. CASE k # j
      <4>1. k \in 0..(j - 1)
        BY <3>5
      <4>. QED  BY <2>1, <3>3, <3>5, <4>1 DEF IsRun
    <3>. QED  BY <3>4, <3>5
  <2>3. h = [k \in 0..j |-> h[k]]
    OBVIOUS
  <2>. HIDE DEF h
  <2>4. IsRun(e, s, j, h)
    BY <2>2, <2>3 DEF IsRun
  <2>. QED  BY <2>4
<1>3. 0..n \subseteq J
  <2>. HIDE DEF J
  <2>. QED  BY <1>1, <1>2, UpTo
<1>. QED  BY <1>3

LEMMA RunSteps ==
  ASSUME NEW e, NEW s, Len(e) \in Nat
  PROVE  /\ Run(e, s)[0] = {s} /\ RunEffect(e, s) = Run(e, s)[Len(e)]
         /\ \A k \in 1..Len(e) :
              Run(e, s)[k] = UNION {After(e[k], u, s) : u \in Run(e, s)[k - 1]}
<1>. DEFINE n == Len(e)
            G == CHOOSE g : IsRun(e, s, n, g)
<1>1. RunEffect(e, s) = G[n]
  BY DEF RunEffect, IsRun, RunStep
<1>2. IsRun(e, s, n, G)
  BY RunExists
<1>3. Run(e, s) = G
  BY DEF Run
<1>. HIDE DEF G
<1>4. \A k \in 0..n : G[k] = RunStep(e, s, G, k)
  BY <1>2 DEF IsRun
<1>5. 0 \in 0..n /\ \A k \in 1..n : k \in 0..n /\ k # 0
  OBVIOUS
<1>. QED  BY <1>1, <1>3, <1>4, <1>5 DEF RunStep

\* A run of an effect begins with a run of any beginning of it.
LEMMA RunBegins ==
  ASSUME NEW e, NEW f, NEW s, Len(e) \in Nat, Len(f) \in Nat, NEW n \in 0..Len(e),
         n <= Len(f), \A i \in 1..n : e[i] = f[i]
  PROVE  Run(e, s)[n] = Run(f, s)[n]
<1>. DEFINE J == {k \in 0..n : Run(e, s)[k] = Run(f, s)[k]}
<1>1. /\ Run(e, s)[0] = {s} /\ Run(f, s)[0] = {s}
      /\ \A k \in 1..n : /\ Run(e, s)[k] = UNION {After(e[k], u, s) : u \in Run(e, s)[k - 1]}
                         /\ Run(f, s)[k] = UNION {After(f[k], u, s) : u \in Run(f, s)[k - 1]}
  <2>1. \A k \in 1..n : k \in 1..Len(e) /\ k \in 1..Len(f)
    OBVIOUS
  <2>. QED  BY <2>1, RunSteps
<1>2. n \in Nat /\ 0 \in 0..n
  OBVIOUS
<1>3. 0 \in J
  BY <1>1, <1>2
<1>4. ASSUME NEW k \in 1..n, k - 1 \in J
      PROVE  k \in J
  <2>1. k \in 0..n /\ Run(e, s)[k - 1] = Run(f, s)[k - 1]
    BY <1>4
  <2>2. e[k] = f[k]
    OBVIOUS
  <2>3. Run(e, s)[k] = UNION {After(e[k], u, s) : u \in Run(e, s)[k - 1]}
    BY <1>1
  <2>4. Run(f, s)[k] = UNION {After(f[k], u, s) : u \in Run(f, s)[k - 1]}
    BY <1>1
  <2>5. Run(e, s)[k] = Run(f, s)[k]
    BY <2>1, <2>2, <2>3, <2>4
  <2>. QED  BY <2>1, <2>5
<1>5. 0..n \subseteq J
  <2>. HIDE DEF J
  <2>. QED  BY <1>2, <1>3, <1>4, UpTo
<1>. QED  BY <1>2, <1>5

\* The first n elements.
First(e, n) == [i \in 1..n |-> e[i]]

LEMMA FirstRuns ==
  ASSUME NEW e, NEW s, Len(e) \in Nat, NEW n \in 0..Len(e)
  PROVE  RunEffect(First(e, n), s) = Run(e, s)[n]
<1>. DEFINE f == First(e, n)
<1>1. n \in Nat
  OBVIOUS
<1>2. f = [i \in 1..n |-> f[i]] /\ \A i \in 1..n : f[i] = e[i]
  BY DEF First
<1>. HIDE DEF f
<1>3. Len(f) = n
  BY <1>1, <1>2, FunctionIsSeq
<1>4. RunEffect(f, s) = Run(f, s)[n]
  BY <1>1, <1>3, RunSteps
<1>5. Run(e, s)[n] = Run(f, s)[n]
  BY <1>1, <1>2, <1>3, RunBegins
<1>. QED  BY <1>4, <1>5 DEF f

LEMMA AppendElements ==
  ASSUME NEW X, NEW q \in Seq(X), NEW x \in X
  PROVE  /\ Len(Append(q, x)) = Len(q) + 1 /\ Len(q) \in Nat
         /\ \A i \in 1..Len(q) : Append(q, x)[i] = q[i]
         /\ Append(q, x)[Len(q) + 1] = x
OBVIOUS

LEMMA RunAppend ==
  ASSUME NEW X, NEW q \in Seq(X), NEW x \in X, NEW s
  PROVE  RunEffect(Append(q, x), s) = UNION {After(x, u, s) : u \in RunEffect(q, s)}
<1>. DEFINE r == Append(q, x)
            n == Len(q)
<1>1. Len(r) = n + 1 /\ n \in Nat /\ (\A i \in 1..n : r[i] = q[i]) /\ r[n + 1] = x
  BY AppendElements
<1>. HIDE DEF r, n
<1>2. RunEffect(r, s) = Run(r, s)[n + 1]
      /\ Run(r, s)[n + 1] = UNION {After(r[n + 1], u, s) : u \in Run(r, s)[(n + 1) - 1]}
  <2>1. Len(r) \in Nat /\ n + 1 \in 1..Len(r)
    BY <1>1
  <2>. QED  BY <1>1, <2>1, RunSteps
<1>3. (n + 1) - 1 = n /\ n \in 0..Len(r) /\ n <= Len(q) /\ Len(r) \in Nat /\ Len(q) \in Nat
  BY <1>1 DEF n
<1>4. Run(r, s)[n] = Run(q, s)[n]
  BY <1>1, <1>3, RunBegins
<1>5. RunEffect(q, s) = Run(q, s)[n]
  BY <1>3, RunSteps DEF n
<1>. QED  BY <1>1, <1>2, <1>3, <1>4, <1>5 DEF r

LEMMA RunNothing ==
  ASSUME NEW s
  PROVE  RunEffect(<<>>, s) = {s}
<1>1. Len(<<>>) = 0 /\ Len(<<>>) \in Nat
  OBVIOUS
<1>. QED  BY <1>1, RunSteps

-----------------------------------------------------------------------------
(* Choosing from a sequence twice.                                         *)

LEMMA ChoiceBegins ==
  ASSUME NEW q, NEW r, NEW good, Len(q) \in Nat, Len(r) \in Nat, NEW n \in 0..Len(q),
         n <= Len(r), \A i \in 1..n : q[i] = r[i]
  PROVE  Choice(q, good)[n] = Choice(r, good)[n]
<1>. DEFINE G == Choice(q, good)
            H == Choice(r, good)
            J == {k \in 0..n : G[k] = H[k]}
<1>1. /\ G[0] = <<>> /\ H[0] = <<>>
      /\ \A k \in 1..n : /\ G[k] = IF q[k] \in good THEN Append(G[k - 1], q[k]) ELSE G[k - 1]
                         /\ H[k] = IF r[k] \in good THEN Append(H[k - 1], r[k]) ELSE H[k - 1]
  <2>1. \A k \in 1..n : k \in 1..Len(q) /\ k \in 1..Len(r)
    OBVIOUS
  <2>. QED  BY <2>1, OnlySteps
<1>. HIDE DEF G, H
<1>2. n \in Nat /\ 0 \in 0..n
  OBVIOUS
<1>3. 0 \in J
  BY <1>1, <1>2
<1>4. ASSUME NEW k \in 1..n, k - 1 \in J
      PROVE  k \in J
  <2>1. k \in 0..n /\ G[k - 1] = H[k - 1]
    BY <1>4
  <2>2. G[k] = H[k]
    BY <1>1, <2>1
  <2>. QED  BY <2>1, <2>2
<1>5. 0..n \subseteq J
  <2>. HIDE DEF J
  <2>. QED  BY <1>2, <1>3, <1>4, UpTo
<1>. QED  BY <1>2, <1>5 DEF G, H

LEMMA OnlyAppend ==
  ASSUME NEW X, NEW q \in Seq(X), NEW x \in X, NEW good
  PROVE  Only(Append(q, x), good) = IF x \in good THEN Append(Only(q, good), x) ELSE Only(q, good)
<1>. DEFINE r == Append(q, x)
            n == Len(q)
<1>1. Len(r) = n + 1 /\ n \in Nat /\ (\A i \in 1..n : r[i] = q[i]) /\ r[n + 1] = x
  BY AppendElements
<1>. HIDE DEF r, n
<1>2. /\ Only(r, good) = Choice(r, good)[n + 1]
      /\ Choice(r, good)[n + 1] = IF r[n + 1] \in good THEN Append(Choice(r, good)[(n + 1) - 1], r[n + 1])
                                  ELSE Choice(r, good)[(n + 1) - 1]
  <2>1. Len(r) \in Nat /\ n + 1 \in 1..Len(r)
    BY <1>1
  <2>. QED  BY <1>1, <2>1, OnlySteps
<1>3. (n + 1) - 1 = n /\ n \in 0..Len(r) /\ n <= Len(q) /\ Len(r) \in Nat /\ Len(q) \in Nat
  BY <1>1 DEF n
<1>4. Choice(r, good)[n] = Choice(q, good)[n]
  BY <1>1, <1>3, ChoiceBegins
<1>5. Only(q, good) = Choice(q, good)[n]
  BY <1>3, OnlySteps DEF n
<1>. QED  BY <1>1, <1>2, <1>3, <1>4, <1>5 DEF r

LEMMA OnlyNone ==
  ASSUME NEW good
  PROVE  Only(<<>>, good) = <<>>
<1>1. Len(<<>>) = 0 /\ Len(<<>>) \in Nat
  OBVIOUS
<1>. QED  BY <1>1, OnlySteps

\* Every beginning of what is chosen is a sequence.
LEMMA ChoiceTyped ==
  ASSUME NEW X, NEW seq \in Seq(X), NEW good, NEW n \in 0..Len(seq)
  PROVE  Choice(seq, good)[n] \in Seq(X)
<1>. DEFINE G == Choice(seq, good)
            J == {k \in 0..n : G[k] \in Seq(X)}
<1>1. /\ n \in Nat /\ 0 \in 0..n /\ G[0] = <<>>
      /\ \A k \in 1..n : G[k] = IF seq[k] \in good THEN Append(G[k - 1], seq[k]) ELSE G[k - 1]
      /\ \A k \in 1..n : seq[k] \in X
  <2>1. Len(seq) \in Nat /\ DOMAIN seq = 1..Len(seq) /\ \A i \in DOMAIN seq : seq[i] \in X
    BY SeqElements
  <2>2. \A k \in 1..n : k \in 1..Len(seq)
    BY <2>1
  <2>. QED  BY <2>1, <2>2, OnlySteps
<1>. HIDE DEF G
<1>2. 0 \in J
  <2>1. <<>> \in Seq(X)
    OBVIOUS
  <2>. QED  BY <1>1, <2>1
<1>3. ASSUME NEW k \in 1..n, k - 1 \in J
      PROVE  k \in J
  <2>1. G[k - 1] \in Seq(X) /\ seq[k] \in X /\ k \in 0..n
    BY <1>1, <1>3
  <2>2. Append(G[k - 1], seq[k]) \in Seq(X)
    BY <2>1
  <2>. QED  BY <1>1, <2>1, <2>2
<1>4. 0..n \subseteq J
  <2>. HIDE DEF J
  <2>. QED  BY <1>1, <1>2, <1>3, UpTo
<1>. QED  BY <1>1, <1>4 DEF G

\* What is chosen of what is chosen is chosen in one go.
LEMMA OnlyTwice ==
  ASSUME NEW X, NEW seq \in Seq(X), NEW A, NEW B, NEW C,
         \A x \in Range(seq) : x \in C <=> x \in A /\ x \in B
  PROVE  Only(Only(seq, A), B) = Only(seq, C)
<1>. DEFINE n == Len(seq)
            G == Choice(seq, A)
            H == Choice(seq, C)
            J == {k \in 0..n : Only(G[k], B) = H[k]}
<1>1. /\ n \in Nat /\ 0 \in 0..n /\ G[0] = <<>> /\ H[0] = <<>>
      /\ Only(seq, A) = G[n] /\ Only(seq, C) = H[n]
      /\ \A k \in 1..n : /\ G[k] = IF seq[k] \in A THEN Append(G[k - 1], seq[k]) ELSE G[k - 1]
                         /\ H[k] = IF seq[k] \in C THEN Append(H[k - 1], seq[k]) ELSE H[k - 1]
      /\ \A k \in 1..n : seq[k] \in X /\ (seq[k] \in C <=> seq[k] \in A /\ seq[k] \in B)
  <2>1. Len(seq) \in Nat /\ DOMAIN seq = 1..Len(seq) /\ \A i \in DOMAIN seq : seq[i] \in X
    BY SeqElements
  <2>2. \A i \in DOMAIN seq : seq[i] \in Range(seq)
    BY DEF Range
  <2>. QED  BY <2>1, <2>2, OnlySteps
<1>2. \A k \in 0..n : G[k] \in Seq(X)
  BY ChoiceTyped
<1>. HIDE DEF n, G, H
<1>3. 0 \in J
  BY <1>1, OnlyNone
<1>4. ASSUME NEW k \in 1..n, k - 1 \in J
      PROVE  k \in J
  <2>1. Only(G[k - 1], B) = H[k - 1] /\ k \in 0..n /\ k - 1 \in 0..n
    BY <1>1, <1>4
  <2>2. G[k - 1] \in Seq(X) /\ seq[k] \in X
    BY <1>1, <1>2, <2>1
  <2>3. Only(Append(G[k - 1], seq[k]), B)
          = IF seq[k] \in B THEN Append(Only(G[k - 1], B), seq[k]) ELSE Only(G[k - 1], B)
    <3>. DEFINE q == G[k - 1]
                x == seq[k]
    <3>1. q \in Seq(X) /\ x \in X
      BY <2>2
    <3>. HIDE DEF q, x, J
    <3>2. Only(Append(q, x), B) = IF x \in B THEN Append(Only(q, B), x) ELSE Only(q, B)
      BY <3>1, OnlyAppend
    <3>. QED  BY <3>2 DEF q, x
  <2>4. Only(G[k], B) = H[k]
    BY <1>1, <2>1, <2>3
  <2>. QED  BY <2>1, <2>4
<1>5. 0..n \subseteq J
  <2>. HIDE DEF J
  <2>. QED  BY <1>1, <1>3, <1>4, UpTo
<1>. QED  BY <1>1, <1>5

-----------------------------------------------------------------------------
(* A transition of a slice: one cut down to variables, or stripped to its   *)
(* guard.                                                                  *)

About(e, vs) == Only(e, {st \in Range(e) : st.var \in vs})

Cut(u, vs) == [id |-> u.id, guard |-> u.guard, effect |-> About(u.effect, vs),
               reads |-> Reads(u) \intersect vs, writes |-> Writes(u) \intersect vs]
Stripped(u) == [id |-> u.id, guard |-> u.guard, effect |-> <<>>,
                reads |-> AtomVars(u.guard), writes |-> {}]

LEMMA FinalizedIs ==
  ASSUME NEW u, IsTransition(u), NEW vs, NEW p
  PROVE  Finalized(u, vs, p) = IF u.id \in ObservationOnly(p) THEN Stripped(u) ELSE Cut(u, vs)
<1>. DEFINE stripped == IF Queue \in vs THEN u.effect ELSE StripOps(u.effect)
            e == ProjectToVars(stripped, vs)
            R == Range(u.effect)
            A == {st \in R : st.op \notin Ops}
            C == {st \in R : st.var \in vs}
<1>1. u.effect \in Seq(R) /\ \A st \in R : st.op \in Ops => st.var = Queue
  BY DEF IsTransition, IsStatement
<1>2. e = About(u.effect, vs)
  <2>1. CASE Queue \in vs
    <3>1. {st \in R : st.op \in Ops \/ st.var \in vs} = C
      BY <1>1, <2>1
    <3>. QED  BY <2>1, <3>1 DEF ProjectToVars, About
  <2>2. CASE Queue \notin vs
    <3>. DEFINE q == Only(u.effect, A)
                B == {st \in Range(q) : st.op \in Ops \/ st.var \in vs}
    <3>1. e = Only(q, B)
      BY <2>2 DEF ProjectToVars, StripOps
    <3>2. Range(q) = R \intersect A
      BY <1>1, OnlyRange
    <3>3. \A x \in R : x \in C <=> x \in A /\ x \in B
      BY <1>1, <2>2, <3>2
    <3>. HIDE DEF A, B, C, R
    <3>4. Only(q, B) = Only(u.effect, C)
      BY <1>1, <3>3, OnlyTwice DEF R
    <3>. QED  BY <3>1, <3>4 DEF About, C, R
  <2>. QED  BY <2>1, <2>2
<1>. QED  BY <1>2 DEF Finalized, Cut, Stripped

-----------------------------------------------------------------------------
(* States cut down to the variables of a slice.                            *)

IsState(s) == s = [v \in Vars |-> s[v]]
Image(S, vs) == {Restrict(s, vs) : s \in S}

LEMMA RestrictIs ==
  ASSUME NEW s, NEW vs
  PROVE  /\ DOMAIN Restrict(s, vs) = vs /\ \A v \in vs : Restrict(s, vs)[v] = s[v]
         /\ Restrict(s, vs) = [v \in vs |-> Restrict(s, vs)[v]]
BY DEF Restrict

LEMMA SameRestriction ==
  ASSUME NEW s, NEW u, NEW vs, \A v \in vs : s[v] = u[v]
  PROVE  Restrict(s, vs) = Restrict(u, vs)
BY DEF Restrict

LEMMA ValueIs ==
  ASSUME NEW vs, vs \subseteq Vars, NEW s, IsState(s), NEW v \in vs
  PROVE  Value(s, v) = s[v] /\ Value(Restrict(s, vs), v) = s[v]
<1>1. DOMAIN s = Vars
  BY DEF IsState
<1>. QED  BY <1>1, RestrictIs DEF Value

LEMMA HoldsIs ==
  ASSUME NEW vs, vs \subseteq Vars, NEW s, IsState(s), NEW a, a.var \in vs
  PROVE  Holds(a, Restrict(s, vs)) <=> Holds(a, s)
<1>1. Value(Restrict(s, vs), a.var) = Value(s, a.var)
  BY ValueIs
<1>. QED  BY <1>1 DEF Holds

LEMMA AllIs ==
  ASSUME NEW vs, vs \subseteq Vars, NEW s, IsState(s), NEW atoms, AtomVars(atoms) \subseteq vs
  PROVE  All(atoms, Restrict(s, vs)) <=> All(atoms, s)
<1>1. \A a \in atoms : Holds(a, Restrict(s, vs)) <=> Holds(a, s)
  BY HoldsIs DEF AtomVars
<1>. QED  BY <1>1 DEF All

Put(u, x, d) == [u EXCEPT ![x] = d]

LEMMA PutIs ==
  ASSUME NEW u, IsState(u), NEW x \in Vars, NEW d
  PROVE  /\ IsState(Put(u, x, d)) /\ Put(u, x, d)[x] = d
         /\ \A v \in Vars : v # x => Put(u, x, d)[v] = u[v]
<1>1. DOMAIN u = Vars
  BY DEF IsState
<1>2. Put(u, x, d) = [v \in Vars |-> IF v = x THEN d ELSE u[v]]
  BY <1>1 DEF Put, IsState
<1>. DEFINE w == Put(u, x, d)
<1>3. \A v \in Vars : w[v] = IF v = x THEN d ELSE u[v]
  BY <1>2
<1>4. DOMAIN w = Vars /\ w = [v \in Vars |-> w[v]]
  BY <1>2
<1>. HIDE DEF w
<1>. QED  BY <1>3, <1>4 DEF IsState, w

LEMMA PutRestricts ==
  ASSUME NEW vs, vs \subseteq Vars, NEW u, IsState(u), NEW x \in Vars, NEW d
  PROVE  /\ x \in vs => Restrict(Put(u, x, d), vs) = Put(Restrict(u, vs), x, d)
         /\ x \notin vs => Restrict(Put(u, x, d), vs) = Restrict(u, vs)
<1>. DEFINE w == Put(u, x, d)
            r == Restrict(u, vs)
<1>1. w[x] = d /\ \A v \in Vars : v # x => w[v] = u[v]
  BY PutIs
<1>2. DOMAIN r = vs /\ \A v \in vs : r[v] = u[v]
  BY RestrictIs
<1>3. r = [v \in vs |-> r[v]]
  BY RestrictIs
<1>4. Put(r, x, d) = [v \in vs |-> IF v = x THEN d ELSE r[v]]
  BY <1>2, <1>3 DEF Put
<1>. HIDE DEF w, r
<1>5. Restrict(w, vs) = [v \in vs |-> w[v]]
  BY DEF Restrict
<1>6. CASE x \in vs
  <2>1. \A v \in vs : w[v] = IF v = x THEN d ELSE r[v]
    BY <1>1, <1>2
  <2>2. [v \in vs |-> w[v]] = [v \in vs |-> IF v = x THEN d ELSE r[v]]
    BY <2>1
  <2>. QED  BY <1>4, <1>5, <1>6, <2>2 DEF w, r
<1>7. CASE x \notin vs
  <2>1. \A v \in vs : w[v] = u[v]
    BY <1>1, <1>7
  <2>. QED  BY <1>7, <2>1, SameRestriction DEF w, r
<1>. QED  BY <1>6, <1>7

\* What a statement does, in terms of Put.
LEMMA AfterPuts ==
  ASSUME NEW st, IsStatement(st), NEW u, NEW b
  PROVE  /\ ~All(st.cond, u) => After(st, u, b) = {u}
         /\ All(st.cond, u) /\ st.op = "assign" =>
              After(st, u, b) = {Put(u, st.var, Evaluate(st.src, u, b))}
         /\ All(st.cond, u) /\ st.op = "havoc" =>
              After(st, u, b) = {Put(u, st.var, d) : d \in Dom[st.var]}
         /\ All(st.cond, u) /\ st.op = "enqueue" =>
              After(st, u, b) = IF u[Queue] >= MaxPending THEN {} ELSE {Put(u, Queue, u[Queue] + 1)}
         /\ All(st.cond, u) /\ st.op = "dequeue" =>
              After(st, u, b) = {Put(u, Queue, IF u[Queue] = 0 THEN 0 ELSE u[Queue] - 1)}
<1>1. ~All(st.cond, u) => After(st, u, b) = {u}
  BY DEF After
<1>2. All(st.cond, u) /\ st.op = "assign" =>
        After(st, u, b) = {Put(u, st.var, Evaluate(st.src, u, b))}
  BY DEF After, Put
<1>3. All(st.cond, u) /\ st.op = "havoc" =>
        After(st, u, b) = {Put(u, st.var, d) : d \in Dom[st.var]}
  BY DEF After, Put
<1>4. All(st.cond, u) /\ st.op = "enqueue" =>
        After(st, u, b) = IF u[Queue] >= MaxPending THEN {} ELSE {Put(u, Queue, u[Queue] + 1)}
  BY DEF After, Put
<1>5. All(st.cond, u) /\ st.op = "dequeue" =>
        After(st, u, b) = {Put(u, Queue, IF u[Queue] = 0 THEN 0 ELSE u[Queue] - 1)}
  BY DEF After, Put
<1>. QED  BY <1>1, <1>2, <1>3, <1>4, <1>5

LEMMA StatementOps ==
  ASSUME NEW st, IsStatement(st)
  PROVE  /\ st.op \in {"assign", "havoc", "enqueue", "dequeue"} /\ st.var \in Vars
         /\ st.op \in {"enqueue", "dequeue"} => st.var = Queue
BY DEF IsStatement, Ops

LEMMA AfterTyped ==
  ASSUME NEW st, IsStatement(st), NEW u, IsState(u), NEW b, NEW w \in After(st, u, b)
  PROVE  IsState(w)
<1>1. Queue \in Vars
  BY SlicingAssumption
<1>2. w = u \/ \E x \in Vars : \E d : w = Put(u, x, d)
  <2>1. CASE ~All(st.cond, u)
    BY <2>1, AfterPuts
  <2>2. CASE All(st.cond, u) /\ st.op = "assign"
    BY <2>2, AfterPuts, StatementOps
  <2>3. CASE All(st.cond, u) /\ st.op = "havoc"
    BY <2>3, AfterPuts, StatementOps
  <2>4. CASE All(st.cond, u) /\ st.op = "enqueue"
    BY <1>1, <2>4, AfterPuts
  <2>5. CASE All(st.cond, u) /\ st.op = "dequeue"
    BY <1>1, <2>5, AfterPuts
  <2>. QED  BY <2>1, <2>2, <2>3, <2>4, <2>5, StatementOps
<1>. QED  BY <1>2, PutIs

\* A statement on a variable of the slice does the same to the slice of a state.
LEMMA AfterKept ==
  ASSUME NEW vs, vs \subseteq Vars, NEW st, IsStatement(st), st.var \in vs, st.src.kind # "pre",
         StatementReads(st) \subseteq vs, NEW u, IsState(u), NEW b
  PROVE  After(st, Restrict(u, vs), Restrict(b, vs)) = Image(After(st, u, b), vs)
<1>. DEFINE r == Restrict(u, vs)
            c == Restrict(b, vs)
<1>1. All(st.cond, r) <=> All(st.cond, u)
  BY AllIs DEF StatementReads
<1>2. Evaluate(st.src, r, c) = Evaluate(st.src, u, b)
  <2>1. CASE st.src.kind = "lit"
    BY <2>1 DEF Evaluate
  <2>2. CASE st.src.kind = "read"
    <3>1. st.src.var \in vs
      BY <2>2 DEF StatementReads
    <3>2. Value(r, st.src.var) = Value(u, st.src.var)
      BY <3>1, ValueIs
    <3>. QED  BY <2>2, <3>2 DEF Evaluate
  <2>. QED  BY <2>1, <2>2 DEF IsStatement
<1>3. \A x \in vs : \A d : Restrict(Put(u, x, d), vs) = Put(r, x, d)
  BY PutRestricts
<1>4. \A x \in vs : r[x] = u[x]
  BY RestrictIs
<1>. HIDE DEF r, c
<1>5. CASE ~All(st.cond, u)
  <2>1. After(st, r, c) = {r} /\ After(st, u, b) = {u}
    BY <1>1, <1>5 DEF After
  <2>. QED  BY <2>1 DEF Image, r, c
<1>6. CASE All(st.cond, u) /\ st.op = "assign"
  <2>1. After(st, r, c) = {Put(r, st.var, Evaluate(st.src, r, c))}
    BY <1>1, <1>6, AfterPuts
  <2>2. After(st, u, b) = {Put(u, st.var, Evaluate(st.src, u, b))}
    BY <1>6, AfterPuts
  <2>. QED  BY <1>2, <1>3, <2>1, <2>2 DEF Image, r, c
<1>7. CASE All(st.cond, u) /\ st.op = "havoc"
  <2>1. After(st, r, c) = {Put(r, st.var, d) : d \in Dom[st.var]}
    BY <1>1, <1>7, AfterPuts
  <2>4. After(st, u, b) = {Put(u, st.var, d) : d \in Dom[st.var]}
    BY <1>7, AfterPuts
  <2>2. \A d : Restrict(Put(u, st.var, d), vs) = Put(r, st.var, d)
    BY <1>3
  <2>3. After(st, r, c) = {Restrict(w, vs) : w \in After(st, u, b)}
    BY <2>1, <2>2, <2>4
  <2>. QED  BY <2>3 DEF Image, r, c
<1>8. CASE All(st.cond, u) /\ st.op = "enqueue"
  <2>1. Queue \in vs
    BY <1>8, StatementOps
  <2>2. After(st, r, c) = IF r[Queue] >= MaxPending THEN {} ELSE {Put(r, Queue, r[Queue] + 1)}
    BY <1>1, <1>8, AfterPuts
  <2>3. After(st, u, b) = IF u[Queue] >= MaxPending THEN {} ELSE {Put(u, Queue, u[Queue] + 1)}
    BY <1>8, AfterPuts
  <2>. QED  BY <1>3, <1>4, <2>1, <2>2, <2>3 DEF Image, r, c
<1>9. CASE All(st.cond, u) /\ st.op = "dequeue"
  <2>1. Queue \in vs
    BY <1>9, StatementOps
  <2>2. After(st, r, c) = {Put(r, Queue, IF r[Queue] = 0 THEN 0 ELSE r[Queue] - 1)}
    BY <1>1, <1>9, AfterPuts
  <2>3. After(st, u, b) = {Put(u, Queue, IF u[Queue] = 0 THEN 0 ELSE u[Queue] - 1)}
    BY <1>9, AfterPuts
  <2>. QED  BY <1>3, <1>4, <2>1, <2>2, <2>3 DEF Image, r, c
<1>. QED  BY <1>5, <1>6, <1>7, <1>8, <1>9, StatementOps

\* A statement on another variable does nothing to it, unless it blocks.
LEMMA AfterDropped ==
  ASSUME NEW vs, vs \subseteq Vars, NEW st, IsStatement(st), st.var \notin vs,
         NEW u, IsState(u), NEW b, NEW w \in After(st, u, b)
  PROVE  Restrict(w, vs) = Restrict(u, vs)
<1>1. Queue \in Vars /\ st.var \in Vars
  BY SlicingAssumption, StatementOps
<1>2. w = u \/ \E d : w = Put(u, st.var, d)
  <2>1. CASE ~All(st.cond, u)
    BY <2>1, AfterPuts
  <2>2. CASE All(st.cond, u) /\ st.op = "assign"
    BY <2>2, AfterPuts, StatementOps
  <2>3. CASE All(st.cond, u) /\ st.op = "havoc"
    BY <2>3, AfterPuts, StatementOps
  <2>4. CASE All(st.cond, u) /\ st.op = "enqueue"
    BY <2>4, AfterPuts, StatementOps
  <2>5. CASE All(st.cond, u) /\ st.op = "dequeue"
    BY <2>5, AfterPuts, StatementOps
  <2>. QED  BY <2>1, <2>2, <2>3, <2>4, <2>5, StatementOps
<1>. QED  BY <1>1, <1>2, PutRestricts

\* No branch of an effect is blocked, by a full queue or an empty domain.
Unblocked(e, s) ==
  \A k \in DOMAIN e : \A u \in RunEffect(First(e, k - 1), s) : After(e[k], u, s) # {}

\* An effect can be projected: its statements are well formed, take nothing from before the
\* event, and what it reads for the variables of the slice is in the slice.
Projectable(e, vs) ==
  /\ e \in Seq(Range(e)) /\ \A st \in Range(e) : IsStatement(st) /\ st.src.kind # "pre"
  /\ vs \subseteq Vars /\ EffectReads(About(e, vs)) \subseteq vs

\* Running what is left of an effect on what is left of a state gives what is left of the
\* states that running the effect gives.
LEMMA RunProjects ==
  ASSUME NEW e, NEW vs, Projectable(e, vs), NEW s, IsState(s), Unblocked(e, s)
  PROVE  /\ \A u \in RunEffect(e, s) : IsState(u)
         /\ Image(RunEffect(e, s), vs) = RunEffect(About(e, vs), Restrict(s, vs))
<1>. DEFINE n == Len(e)
            good == {st \in Range(e) : st.var \in vs}
            C == Choice(e, good)
            R == Run(e, s)
            b == Restrict(s, vs)
            J == {k \in 0..n : (\A u \in R[k] : IsState(u)) /\ Image(R[k], vs) = RunEffect(C[k], b)}
<1>1. /\ n \in Nat /\ DOMAIN e = 1..n /\ \A k \in 1..n : e[k] \in Range(e)
      /\ 0 \in 0..n /\ \A k \in 1..n : k - 1 \in 0..n /\ k \in 0..n
  BY DEF Projectable, Range
<1>2. /\ C[0] = <<>> /\ About(e, vs) = C[n]
      /\ \A k \in 1..n : C[k] = IF e[k] \in good THEN Append(C[k - 1], e[k]) ELSE C[k - 1]
  BY <1>1, OnlySteps DEF About
<1>3. /\ R[0] = {s} /\ RunEffect(e, s) = R[n]
      /\ \A k \in 1..n : R[k] = UNION {After(e[k], u, s) : u \in R[k - 1]}
  <2>1. Len(e) \in Nat
    BY <1>1
  <2>2. Run(e, s)[0] = {s} /\ RunEffect(e, s) = Run(e, s)[Len(e)]
    BY <2>1, RunSteps
  <2>3. ASSUME NEW k \in 1..Len(e)
        PROVE  Run(e, s)[k] = UNION {After(e[k], u, s) : u \in Run(e, s)[k - 1]}
    BY <2>1, RunSteps
  <2>. QED  BY <2>2, <2>3
<1>4. \A k \in 0..n : C[k] \in Seq(Range(e))
  BY ChoiceTyped DEF Projectable
<1>5. \A k \in 1..n : \A u \in R[k - 1] : After(e[k], u, s) # {}
  <2>1. \A k \in 1..n : RunEffect(First(e, k - 1), s) = R[k - 1]
    BY <1>1, FirstRuns
  <2>. QED  BY <1>1, <2>1 DEF Unblocked
<1>6. \A k \in 1..n : e[k] \in good => StatementReads(e[k]) \subseteq vs
  <2>1. Range(About(e, vs)) = Range(e) \intersect good
    BY OnlyRange DEF Projectable, About
  <2>2. \A k \in 1..n : e[k] \in good => e[k] \in Range(About(e, vs))
    BY <1>1, <2>1
  <2>. HIDE DEF good
  <2>. QED  BY <2>2, ReadsOfRange DEF Projectable
<1>7. vs \subseteq Vars /\ \A k \in 1..n : IsStatement(e[k]) /\ e[k].src.kind # "pre"
  BY <1>1 DEF Projectable
<1>8. \A k \in 1..n : e[k] \in good <=> e[k].var \in vs
  BY <1>1
<1>. HIDE DEF n, C, R, good
<1>9. 0 \in J
  <2>1. Image({s}, vs) = {b}
    BY DEF Image
  <2>. QED  BY <1>1, <1>2, <1>3, <2>1, RunNothing
<1>10. ASSUME NEW k \in 1..n, k - 1 \in J
       PROVE  k \in J
  <2>. DEFINE S == R[k - 1]
              x == e[k]
              q == C[k - 1]
  <2>1. (\A u \in S : IsState(u)) /\ Image(S, vs) = RunEffect(q, b)
    BY <1>10
  <2>2. /\ R[k] = UNION {After(x, u, s) : u \in S} /\ IsStatement(x) /\ x.src.kind # "pre"
        /\ \A u \in S : After(x, u, s) # {}
        /\ C[k] = IF x \in good THEN Append(q, x) ELSE q
        /\ q \in Seq(Range(e)) /\ x \in Range(e) /\ k \in 0..n
    BY <1>1, <1>2, <1>3, <1>4, <1>5, <1>7
  <2>3. x \in good => x.var \in vs /\ StatementReads(x) \subseteq vs
    BY <1>6, <1>8
  <2>4. x \notin good => x.var \notin vs
    BY <1>8
  <2>. HIDE DEF S, x, q, b
  <2>5. \A w \in R[k] : IsState(w)
    BY <2>1, <2>2, AfterTyped
  <2>6. CASE x \in good
    <3>1. RunEffect(C[k], b) = UNION {After(x, r, b) : r \in RunEffect(q, b)}
      BY <2>2, <2>6, RunAppend
    <3>2. \A u \in S : After(x, Restrict(u, vs), b) = Image(After(x, u, s), vs)
      BY <1>7, <2>1, <2>2, <2>3, <2>6, AfterKept DEF b
    <3>3. RunEffect(C[k], b) = UNION {After(x, Restrict(u, vs), b) : u \in S}
      BY <2>1, <3>1 DEF Image
    <3>4. UNION {After(x, Restrict(u, vs), b) : u \in S} = Image(R[k], vs)
      <4>1. \A z \in Image(R[k], vs) : \E u \in S : z \in After(x, Restrict(u, vs), b)
        BY <2>2, <3>2 DEF Image
      <4>2. \A u \in S : \A z \in After(x, Restrict(u, vs), b) : z \in Image(R[k], vs)
        BY <2>2, <3>2 DEF Image
      <4>. QED  BY <4>1, <4>2
    <3>. QED  BY <2>2, <2>5, <3>3, <3>4
  <2>7. CASE x \notin good
    <3>1. \A u \in S : \A w \in After(x, u, s) : Restrict(w, vs) = Restrict(u, vs)
      BY <1>7, <2>1, <2>2, <2>4, <2>7, AfterDropped
    <3>2. \A z \in Image(R[k], vs) : z \in Image(S, vs)
      BY <2>2, <3>1 DEF Image
    <3>3. \A z \in Image(S, vs) : z \in Image(R[k], vs)
      <4>. SUFFICES ASSUME NEW u \in S PROVE Restrict(u, vs) \in Image(R[k], vs)
        BY DEF Image
      <4>1. PICK w \in After(x, u, s) : TRUE
        BY <2>2
      <4>2. w \in R[k] /\ Restrict(w, vs) = Restrict(u, vs)
        BY <2>2, <3>1
      <4>. QED  BY <4>2 DEF Image
    <3>4. Image(R[k], vs) = RunEffect(C[k], b)
      BY <2>1, <2>2, <2>7, <3>2, <3>3
    <3>. QED  BY <2>2, <2>5, <3>4
  <2>. QED  BY <2>6, <2>7
<1>11. 0..n \subseteq J
  <2>. HIDE DEF J
  <2>. QED  BY <1>1, <1>9, <1>10, UpTo
<1>12. n \in J
  BY <1>1, <1>11
<1>. QED  BY <1>2, <1>3, <1>12

-----------------------------------------------------------------------------
(* Mount-locals. A state the search keeps has the locals of other pages    *)
(* unmounted.                                                              *)

Normal(s) == IsState(s) /\ \A v \in DOMAIN Mount : ~Holds(Mount[v], s) => s[v] = Unmounted

LEMMA SameHolds ==
  ASSUME NEW a, NEW s, NEW u, DOMAIN s = DOMAIN u, s[a.var] = u[a.var]
  PROVE  Holds(a, s) <=> Holds(a, u)
BY DEF Holds, Value

LEMMA ResetNormal ==
  ASSUME NEW s, NEW u, IsState(u)
  PROVE  Normal(ResetLocals(s, u))
<1>. DEFINE w == ResetLocals(s, u)
<1>1. DOMAIN u = Vars
  BY DEF IsState
<1>2. w = [v \in Vars |->
             IF v \notin DOMAIN Mount THEN u[v]
             ELSE IF ~Holds(Mount[v], u) THEN Unmounted
             ELSE IF Holds(Mount[v], s) THEN u[v] ELSE 0]
  BY <1>1 DEF ResetLocals
<1>3. DOMAIN w = Vars /\ IsState(w)
  BY <1>2 DEF IsState
<1>4. \A v \in Vars : w[v] = IF v \notin DOMAIN Mount THEN u[v]
                             ELSE IF ~Holds(Mount[v], u) THEN Unmounted
                             ELSE IF Holds(Mount[v], s) THEN u[v] ELSE 0
  BY <1>2
<1>. HIDE DEF w
<1>5. \A v \in DOMAIN Mount : Holds(Mount[v], w) <=> Holds(Mount[v], u)
  <2>. SUFFICES ASSUME NEW v \in DOMAIN Mount PROVE Holds(Mount[v], w) <=> Holds(Mount[v], u)
    OBVIOUS
  <2>1. Mount[v].var \in Vars /\ Mount[v].var \notin DOMAIN Mount
    BY SlicingAssumption
  <2>2. w[Mount[v].var] = u[Mount[v].var]
    BY <1>4, <2>1
  <2>. QED  BY <1>1, <1>3, <2>2, SameHolds
<1>6. \A v \in DOMAIN Mount : v \in Vars
  BY SlicingAssumption
<1>. QED  BY <1>3, <1>4, <1>5, <1>6 DEF Normal, w

LEMMA ResetSame ==
  ASSUME NEW s, Normal(s)
  PROVE  ResetLocals(s, s) = s
<1>1. DOMAIN s = Vars /\ s = [v \in Vars |-> s[v]]
  BY DEF Normal, IsState
<1>2. ResetLocals(s, s) = [v \in Vars |-> s[v]]
  BY <1>1 DEF ResetLocals, Normal
<1>. QED  BY <1>1, <1>2

LEMMA ResetProjects ==
  ASSUME NEW vs, vs \subseteq Vars, MountReads(vs) \subseteq vs, NEW s, IsState(s), NEW u, IsState(u)
  PROVE  Restrict(ResetLocals(s, u), vs) = ResetLocals(Restrict(s, vs), Restrict(u, vs))
<1>. DEFINE r == Restrict(s, vs)
            q == Restrict(u, vs)
            w == ResetLocals(s, u)
<1>1. DOMAIN u = Vars
  BY DEF IsState
<1>2. \A v \in vs : w[v] = IF v \notin DOMAIN Mount THEN u[v]
                           ELSE IF ~Holds(Mount[v], u) THEN Unmounted
                           ELSE IF Holds(Mount[v], s) THEN u[v] ELSE 0
  BY <1>1 DEF ResetLocals
<1>3. DOMAIN q = vs /\ \A v \in vs : q[v] = u[v]
  BY RestrictIs
<1>4. \A v \in vs \intersect DOMAIN Mount :
        (Holds(Mount[v], r) <=> Holds(Mount[v], s)) /\ (Holds(Mount[v], q) <=> Holds(Mount[v], u))
  BY HoldsIs DEF MountReads
<1>5. ResetLocals(r, q) = [v \in vs |->
             IF v \notin DOMAIN Mount THEN q[v]
             ELSE IF ~Holds(Mount[v], q) THEN Unmounted
             ELSE IF Holds(Mount[v], r) THEN q[v] ELSE 0]
  BY <1>3 DEF ResetLocals
<1>. HIDE DEF r, q, w
<1>6. \A v \in vs : w[v] = IF v \notin DOMAIN Mount THEN q[v]
                           ELSE IF ~Holds(Mount[v], q) THEN Unmounted
                           ELSE IF Holds(Mount[v], r) THEN q[v] ELSE 0
  <2>. SUFFICES ASSUME NEW v \in vs
                PROVE  w[v] = IF v \notin DOMAIN Mount THEN q[v]
                              ELSE IF ~Holds(Mount[v], q) THEN Unmounted
                              ELSE IF Holds(Mount[v], r) THEN q[v] ELSE 0
    OBVIOUS
  <2>1. CASE v \notin DOMAIN Mount
    BY <1>2, <1>3, <2>1
  <2>2. CASE v \in DOMAIN Mount
    <3>1. (Holds(Mount[v], r) <=> Holds(Mount[v], s)) /\ (Holds(Mount[v], q) <=> Holds(Mount[v], u))
      BY <1>4, <2>2
    <3>. QED  BY <1>2, <1>3, <2>2, <3>1
  <2>. QED  BY <2>1, <2>2
<1>7. Restrict(w, vs) = [v \in vs |-> w[v]]
  BY DEF Restrict
<1>. QED  BY <1>5, <1>6, <1>7 DEF r, q, w

-----------------------------------------------------------------------------
(* The steps of a slice are those of the model, seen through its variables. *)

\* A transition whose guard holds is enabled and none of its branches is blocked.
Free(u, s) == All(u.guard, s) => IsEnabled(Whole(u), s) /\ Unblocked(u.effect, s)

LEMMA WholePost ==
  ASSUME NEW u, NEW s, NEW w
  PROVE  w \in Post(Whole(u), s) <=>
           IsEnabled(Whole(u), s) /\ \E x \in RunEffect(u.effect, s) : w = ResetLocals(s, x)
BY DEF Post, Whole

LEMMA EnabledGuard ==
  ASSUME NEW u, NEW s, IsEnabled(Whole(u), s)
  PROVE  All(u.guard, s)
BY DEF IsEnabled, Whole

LEMMA StepTyped ==
  ASSUME NEW u, Projectable(u.effect, Vars), NEW s, IsState(s), Free(u, s),
         NEW w \in Post(Whole(u), s)
  PROVE  Normal(w)
<1>1. Unblocked(u.effect, s)
  BY WholePost, EnabledGuard DEF Free
<1>2. \A x \in RunEffect(u.effect, s) : IsState(x)
  BY <1>1, RunProjects
<1>. QED  BY <1>2, WholePost, ResetNormal

LEMMA CutEnabled ==
  ASSUME NEW u, NEW vs, vs \subseteq Vars, MountReads(vs) \subseteq vs, AtomVars(u.guard) \subseteq vs,
         NEW s, IsState(s)
  PROVE  /\ IsEnabled(Whole(u), s) => IsEnabled(Cut(u, vs), Restrict(s, vs))
         /\ IsEnabled(Cut(u, vs), Restrict(s, vs)) => All(u.guard, s)
<1>. DEFINE r == Restrict(s, vs)
<1>1. All(u.guard, r) <=> All(u.guard, s)
  BY AllIs
<1>2. \A v \in vs \intersect DOMAIN Mount : Holds(Mount[v], r) <=> Holds(Mount[v], s)
  BY HoldsIs DEF MountReads
<1>. HIDE DEF r
<1>3. IsEnabled(Cut(u, vs), r) <=>
        /\ \A v \in ((Reads(u) \intersect vs) \union (Writes(u) \intersect vs)) \intersect DOMAIN Mount :
             Holds(Mount[v], r)
        /\ All(u.guard, r)
  BY DEF IsEnabled, Cut
<1>4. IsEnabled(Whole(u), s) <=>
        /\ \A v \in (Reads(u) \union Writes(u)) \intersect DOMAIN Mount : Holds(Mount[v], s)
        /\ All(u.guard, s)
  BY DEF IsEnabled, Whole
<1>. QED  BY <1>1, <1>2, <1>3, <1>4 DEF r

LEMMA PostProjects ==
  ASSUME NEW u, NEW vs, Projectable(u.effect, vs), MountReads(vs) \subseteq vs,
         AtomVars(u.guard) \subseteq vs, NEW s, IsState(s), Free(u, s)
  PROVE  Image(Post(Whole(u), s), vs) = Post(Cut(u, vs), Restrict(s, vs))
<1>. DEFINE r == Restrict(s, vs)
            R == RunEffect(u.effect, s)
            Q == RunEffect(About(u.effect, vs), r)
<1>1. vs \subseteq Vars
  BY DEF Projectable
<1>2. IsEnabled(Cut(u, vs), r) <=> IsEnabled(Whole(u), s)
  BY <1>1, CutEnabled DEF Free
<1>3. \A z : z \in Post(Cut(u, vs), r) <=> IsEnabled(Cut(u, vs), r) /\ \E y \in Q : z = ResetLocals(r, y)
  BY DEF Post, Cut
<1>4. CASE ~IsEnabled(Whole(u), s)
  <2>1. Post(Whole(u), s) = {} /\ Post(Cut(u, vs), r) = {}
    BY <1>2, <1>4 DEF Post
  <2>. QED  BY <2>1 DEF Image
<1>5. CASE IsEnabled(Whole(u), s)
  <2>1. Unblocked(u.effect, s)
    BY <1>5, EnabledGuard DEF Free
  <2>2. (\A x \in R : IsState(x)) /\ Image(R, vs) = Q
    BY <2>1, RunProjects
  <2>3. \A x \in R : Restrict(ResetLocals(s, x), vs) = ResetLocals(r, Restrict(x, vs))
    BY <1>1, <2>2, ResetProjects
  <2>4. \A w : w \in Post(Whole(u), s) <=> \E x \in R : w = ResetLocals(s, x)
    BY <1>5, WholePost
  <2>. HIDE DEF r, R, Q
  <2>5. ASSUME NEW z \in Image(Post(Whole(u), s), vs)
        PROVE  z \in Post(Cut(u, vs), r)
    <3>1. PICK w \in Post(Whole(u), s) : z = Restrict(w, vs)
      BY <2>5 DEF Image
    <3>2. PICK x \in R : w = ResetLocals(s, x)
      BY <2>4, <3>1
    <3>3. Restrict(x, vs) \in Q /\ z = ResetLocals(r, Restrict(x, vs))
      BY <2>2, <2>3, <3>1, <3>2 DEF Image
    <3>. QED  BY <1>2, <1>3, <1>5, <3>3 DEF r, Q
  <2>6. ASSUME NEW z \in Post(Cut(u, vs), r)
        PROVE  z \in Image(Post(Whole(u), s), vs)
    <3>1. PICK y \in Q : z = ResetLocals(r, y)
      BY <1>3, <2>6 DEF r, Q
    <3>2. PICK x \in R : y = Restrict(x, vs)
      BY <2>2, <3>1 DEF Image
    <3>3. ResetLocals(s, x) \in Post(Whole(u), s) /\ z = Restrict(ResetLocals(s, x), vs)
      BY <2>3, <2>4, <3>1, <3>2
    <3>. QED  BY <3>3 DEF Image
  <2>. QED  BY <2>5, <2>6 DEF r
<1>. QED  BY <1>4, <1>5

\* A transition that writes no variable of the slice does nothing to it.
LEMMA PostDropped ==
  ASSUME NEW u, NEW vs, Projectable(u.effect, Vars), vs \subseteq Vars, MountReads(vs) \subseteq vs,
         Writes(u) \intersect vs = {}, NEW s, Normal(s), Free(u, s), NEW w \in Post(Whole(u), s)
  PROVE  Restrict(w, vs) = Restrict(s, vs)
<1>. DEFINE r == Restrict(s, vs)
<1>1. IsState(s)
  BY DEF Normal
<1>2. Unblocked(u.effect, s)
  BY WholePost, EnabledGuard DEF Free
<1>3. Range(About(u.effect, vs)) = {} /\ About(u.effect, vs) \in Seq(Range(u.effect))
  <2>. DEFINE good == {st \in Range(u.effect) : st.var \in vs}
  <2>1. good = {}
    BY DEF Writes, EffectWrites, Range
  <2>. HIDE DEF good
  <2>. QED  BY <2>1, OnlyRange DEF Projectable, About, good
<1>4. About(u.effect, vs) = <<>>
  <2>. DEFINE q == About(u.effect, vs)
  <2>1. q \in Seq(Range(u.effect)) /\ DOMAIN q = {}
    BY <1>3 DEF Range
  <2>. HIDE DEF q
  <2>2. q = <<>>
    BY <2>1
  <2>. QED  BY <2>2 DEF q
<1>5. Projectable(u.effect, vs)
  <2>1. EffectReads(<<>>) = {}
    BY DEF EffectReads
  <2>. QED  BY <1>4, <2>1 DEF Projectable
<1>6. (\A x \in RunEffect(u.effect, s) : IsState(x)) /\ Image(RunEffect(u.effect, s), vs) = {r}
  BY <1>1, <1>2, <1>4, <1>5, RunProjects, RunNothing
<1>7. PICK x \in RunEffect(u.effect, s) : w = ResetLocals(s, x)
  BY WholePost
<1>8. Restrict(x, vs) = r
  BY <1>6 DEF Image
<1>9. Restrict(w, vs) = ResetLocals(r, r)
  BY <1>1, <1>6, <1>7, <1>8, ResetProjects
<1>10. ResetLocals(r, r) = r
  BY <1>1, ResetProjects, ResetSame
<1>. QED  BY <1>9, <1>10

LEMMA PostStripped ==
  ASSUME NEW u, NEW vs, vs \subseteq Vars, MountReads(vs) \subseteq vs, NEW s, Normal(s)
  PROVE  Post(Stripped(u), Restrict(s, vs)) \subseteq {Restrict(s, vs)}
<1>. DEFINE r == Restrict(s, vs)
<1>1. ResetLocals(r, r) = r
  BY ResetProjects, ResetSame DEF Normal
<1>2. RunEffect(<<>>, r) = {r}
  BY RunNothing
<1>. HIDE DEF r
<1>3. Post(Stripped(u), r) \subseteq {ResetLocals(r, y) : y \in RunEffect(<<>>, r)}
  BY DEF Post, Stripped
<1>. QED  BY <1>1, <1>2, <1>3 DEF r

-----------------------------------------------------------------------------
(* The states that are reached, level by level.                            *)

Successors(m, S) == UNION {Post(t, s) : t \in m.trans, s \in S}
LevelStep(m, g, n) ==
  IF n = 0 THEN {Start(m)} ELSE g[n - 1] \union Successors(m, g[n - 1])
IsLevels(m, n, g) == g = [k \in 0..n |-> LevelStep(m, g, k)]
Level(m) == CHOOSE g : IsLevels(m, Depth, g)

LEMMA LevelsExist ==
  ASSUME NEW m, NEW n \in Nat
  PROVE  \E g : IsLevels(m, n, g)
<1>. DEFINE J == {j \in 0..n : \E g : IsLevels(m, j, g)}
<1>1. 0 \in J
  <2>. DEFINE g == [k \in 0..0 |-> {Start(m)}]
  <2>1. \A k \in 0..0 : LevelStep(m, g, k) = {Start(m)}
    BY DEF LevelStep
  <2>2. IsLevels(m, 0, g)
    BY <2>1 DEF IsLevels
  <2>. QED  BY <2>2
<1>2. ASSUME NEW j \in 1..n, j - 1 \in J
      PROVE  j \in J
  <2>1. PICK g : IsLevels(m, j - 1, g)
    BY <1>2
  <2>. DEFINE h == [k \in 0..j |-> IF k = j THEN LevelStep(m, g, j) ELSE g[k]]
  <2>2. ASSUME NEW k \in 0..j
        PROVE  h[k] = LevelStep(m, h, k)
    <3>1. k # 0 => k - 1 \in 0..j /\ k - 1 # j
      OBVIOUS
    <3>2. k # 0 => h[k - 1] = g[k - 1]
      BY <3>1
    <3>3. LevelStep(m, h, k) = LevelStep(m, g, k)
      BY <3>2 DEF LevelStep
    <3>4. CASE k = j
      BY <3>3, <3>4
    <3>5. CASE k # j
      <4>1. k \in 0..(j - 1)
        BY <3>5
      <4>. QED  BY <2>1, <3>3, <3>5, <4>1 DEF IsLevels
    <3>. QED  BY <3>4, <3>5
  <2>3. h = [k \in 0..j |-> h[k]]
    OBVIOUS
  <2>. HIDE DEF h
  <2>4. IsLevels(m, j, h)
    BY <2>2, <2>3 DEF IsLevels
  <2>. QED  BY <2>4
<1>3. 0..n \subseteq J
  <2>. HIDE DEF J
  <2>. QED  BY <1>1, <1>2, UpTo
<1>. QED  BY <1>3

LEMMA Levels ==
  ASSUME NEW m
  PROVE  /\ Depth \in Nat /\ Level(m)[0] = {Start(m)} /\ Reached(m) = Level(m)[Depth]
         /\ \A k \in 1..Depth :
              Level(m)[k] = Level(m)[k - 1] \union Successors(m, Level(m)[k - 1])
<1>. DEFINE G == CHOOSE g : IsLevels(m, Depth, g)
<1>0. Depth \in Nat
  BY SlicingAssumption
<1>1. Reached(m) = G[Depth]
  BY DEF Reached, IsLevels, LevelStep, Successors
<1>2. IsLevels(m, Depth, G)
  BY <1>0, LevelsExist
<1>3. Level(m) = G
  BY DEF Level
<1>. HIDE DEF G
<1>4. \A k \in 0..Depth : G[k] = LevelStep(m, G, k)
  BY <1>2 DEF IsLevels
<1>5. 0 \in 0..Depth /\ \A k \in 1..Depth : k \in 0..Depth /\ k # 0
  BY <1>0
<1>. QED  BY <1>0, <1>1, <1>3, <1>4, <1>5 DEF LevelStep

LEMMA LevelsReached ==
  ASSUME NEW m, NEW n \in 0..Depth
  PROVE  Level(m)[n] \subseteq Reached(m)
<1>. DEFINE L == Level(m)
            d == Depth
            J == {j \in 0..d : \A k \in 0..j : L[k] \subseteq L[j]}
<1>1. d \in Nat /\ Reached(m) = L[d] /\ \A k \in 1..d : L[k - 1] \subseteq L[k]
  BY Levels
<1>. HIDE DEF L, d
<1>2. 0 \in J
  BY <1>1
<1>3. ASSUME NEW j \in 1..d, j - 1 \in J
      PROVE  j \in J
  <2>1. \A k \in 0..(j - 1) : L[k] \subseteq L[j - 1]
    BY <1>3
  <2>2. L[j - 1] \subseteq L[j]
    BY <1>1
  <2>3. \A k \in 0..j : k = j \/ k \in 0..(j - 1)
    BY <1>1
  <2>4. \A k \in 0..j : L[k] \subseteq L[j]
    BY <2>1, <2>2, <2>3
  <2>5. j \in 0..d
    BY <1>1
  <2>. QED  BY <2>4, <2>5
<1>4. 0..d \subseteq J
  <2>. HIDE DEF J
  <2>. QED  BY <1>1, <1>2, <1>3, UpTo
<1>5. d \in J
  BY <1>1, <1>4
<1>. QED  BY <1>1, <1>5 DEF L, d

-----------------------------------------------------------------------------
(* What a slice reaches is what the model reaches, seen through the         *)
(* variables of the slice.                                                 *)

\* No branch of an effect is blocked half-way, when the guard of its transition holds.
NoBranchBlocked ==
  \A s \in Reached(FullModel), t \in FullModel.trans :
     All(t.guard, s) => Unblocked(t.effect, s)

Smooth == NoSnapshots /\ NothingBlocked /\ NoBranchBlocked

\* A slice has the variables its transitions read, and where these are mounted.
IsSlice(m) ==
  /\ m.vars \subseteq Vars /\ MountReads(m.vars) \subseteq m.vars
  /\ \A t \in m.trans : \E u \in Range(model) :
       /\ AtomVars(u.guard) \subseteq m.vars
       /\ \/ t = Stripped(u)
          \/ t = Cut(u, m.vars) /\ EffectReads(About(u.effect, m.vars)) \subseteq m.vars

LEMMA FullTransitions == \A t : t \in FullModel.trans <=> \E u \in Range(model) : t = Whole(u)
BY DEF FullModel

LEMMA ModelProjectable ==
  ASSUME Typed, NoSnapshots, NEW u \in Range(model)
  PROVE  /\ IsTransition(u) /\ AtomVars(u.guard) \subseteq Vars /\ Writes(u) \subseteq Vars
         /\ Projectable(u.effect, Vars)
         /\ \A vs : vs \subseteq Vars /\ EffectReads(About(u.effect, vs)) \subseteq vs
                      => Projectable(u.effect, vs)
<1>1. IsTransition(u)
  BY RequestTyped
<1>2. /\ AtomVars(u.guard) \subseteq Vars /\ Writes(u) \subseteq Vars /\ Reads(u) \subseteq Vars
      /\ u.effect \in Seq(Range(u.effect)) /\ \A st \in Range(u.effect) : IsStatement(st)
  BY <1>1, TransitionTyped DEF IsTransition
<1>3. PreReads(u.effect) = {}
  BY DEF NoSnapshots, Range
<1>4. \A st \in Range(u.effect) : st.src.kind # "pre"
  BY <1>3 DEF PreReads, Range
<1>5. EffectReads(About(u.effect, Vars)) \subseteq Vars
  <2>1. Range(About(u.effect, Vars)) \subseteq Range(u.effect)
    BY <1>2, OnlyRange DEF About
  <2>2. EffectReads(u.effect) \subseteq Vars
    BY <1>2 DEF Reads
  <2>. QED  BY <2>1, <2>2, ReadsOfRange
<1>. QED  BY <1>1, <1>2, <1>4, <1>5 DEF Projectable

LEMMA ModelFree ==
  ASSUME Smooth, NEW u \in Range(model), NEW s \in Reached(FullModel)
  PROVE  Free(u, s)
<1>1. Whole(u) \in FullModel.trans /\ Whole(u).guard = u.guard /\ Whole(u).effect = u.effect
  BY FullTransitions DEF Whole
<1>. QED  BY <1>1 DEF Free, Smooth, NothingBlocked, NoBranchBlocked

LEMMA StartNormal ==
  /\ Normal(Start(FullModel))
  /\ \A m : m.vars \subseteq Vars /\ MountReads(m.vars) \subseteq m.vars
              => Start(m) = Restrict(Start(FullModel), m.vars)
<1>. DEFINE zero == [v \in Vars |-> 0]
<1>1. IsState(zero) /\ Start(FullModel) = ResetLocals(zero, zero)
  BY DEF IsState, Start, FullModel
<1>2. ASSUME NEW m, m.vars \subseteq Vars, MountReads(m.vars) \subseteq m.vars
      PROVE  Start(m) = Restrict(Start(FullModel), m.vars)
  <2>1. Restrict(zero, m.vars) = [v \in m.vars |-> 0]
    BY <1>2 DEF Restrict
  <2>. HIDE DEF zero
  <2>. QED  BY <1>1, <1>2, <2>1, ResetProjects DEF Start
<1>. HIDE DEF zero
<1>. QED  BY <1>1, <1>2, ResetNormal

LEMMA ReachedNormal ==
  ASSUME Typed, Smooth
  PROVE  \A s \in Reached(FullModel) : Normal(s)
<1>. DEFINE L == Level(FullModel)
            d == Depth
            J == {k \in 0..d : \A s \in L[k] : Normal(s)}
<1>1. /\ d \in Nat /\ L[0] = {Start(FullModel)} /\ Reached(FullModel) = L[d]
      /\ \A k \in 1..d : L[k] = L[k - 1] \union Successors(FullModel, L[k - 1])
      /\ \A k \in 0..d : L[k] \subseteq Reached(FullModel)
  BY Levels, LevelsReached
<1>. HIDE DEF L, d
<1>2. 0 \in J
  BY <1>1, StartNormal
<1>3. ASSUME NEW k \in 1..d, k - 1 \in J
      PROVE  k \in J
  <2>1. k \in 0..d /\ k - 1 \in 0..d /\ \A s \in L[k - 1] : Normal(s)
    BY <1>1, <1>3
  <2>2. ASSUME NEW w \in Successors(FullModel, L[k - 1])
        PROVE  Normal(w)
    <3>1. PICK t \in FullModel.trans, s \in L[k - 1] : w \in Post(t, s)
      BY <2>2 DEF Successors
    <3>2. PICK u \in Range(model) : t = Whole(u)
      BY FullTransitions
    <3>3. Projectable(u.effect, Vars)
      BY ModelProjectable DEF Smooth
    <3>4. Free(u, s)
      BY <1>1, <2>1, ModelFree
    <3>. QED  BY <2>1, <3>1, <3>2, <3>3, <3>4, StepTyped DEF Normal
  <2>. QED  BY <1>1, <2>1, <2>2
<1>4. 0..d \subseteq J
  <2>. HIDE DEF J
  <2>. QED  BY <1>1, <1>2, <1>3, UpTo
<1>5. d \in J
  BY <1>1, <1>4
<1>. QED  BY <1>1, <1>5

\* A step of a slice is that of the transition it comes from, or one of an observed
\* transition, which changes nothing.
LEMMA StepLifts ==
  ASSUME Typed, Smooth, NEW m, IsSlice(m), NEW s \in Reached(FullModel), NEW t \in m.trans,
         NEW z \in Post(t, Restrict(s, m.vars))
  PROVE  \E u \in Range(model) :
           \/ t = Stripped(u) /\ z = Restrict(s, m.vars)
           \/ t = Cut(u, m.vars) /\ \E w \in Post(Whole(u), s) : z = Restrict(w, m.vars)
<1>. DEFINE vs == m.vars
<1>1. vs \subseteq Vars /\ MountReads(vs) \subseteq vs /\ Normal(s) /\ IsState(s)
  BY ReachedNormal DEF IsSlice, Normal
<1>2. PICK u \in Range(model) :
         /\ AtomVars(u.guard) \subseteq vs
         /\ t = Stripped(u) \/ (t = Cut(u, vs) /\ EffectReads(About(u.effect, vs)) \subseteq vs)
  BY DEF IsSlice
<1>. HIDE DEF vs
<1>3. CASE t = Stripped(u)
  BY <1>1, <1>3, PostStripped DEF vs
<1>4. CASE t = Cut(u, vs) /\ EffectReads(About(u.effect, vs)) \subseteq vs
  <2>1. Projectable(u.effect, vs) /\ Free(u, s)
    BY <1>1, <1>4, ModelProjectable, ModelFree DEF Smooth
  <2>2. Image(Post(Whole(u), s), vs) = Post(t, Restrict(s, vs))
    BY <1>1, <1>2, <1>4, <2>1, PostProjects
  <2>3. z \in Image(Post(Whole(u), s), vs)
    BY <2>2 DEF vs
  <2>. QED  BY <1>4, <2>3 DEF Image, vs
<1>. QED  BY <1>2, <1>3, <1>4

LEMMA ReachedLifts ==
  ASSUME Typed, Smooth, NEW m, IsSlice(m)
  PROVE  Reached(m) \subseteq Image(Reached(FullModel), m.vars)
<1>. DEFINE L == Level(FullModel)
            K == Level(m)
            d == Depth
            J == {k \in 0..d : K[k] \subseteq Image(L[k], m.vars)}
<1>1. /\ d \in Nat /\ L[0] = {Start(FullModel)} /\ Reached(FullModel) = L[d]
      /\ \A k \in 1..d : L[k] = L[k - 1] \union Successors(FullModel, L[k - 1])
      /\ \A k \in 0..d : L[k] \subseteq Reached(FullModel)
  BY Levels, LevelsReached
<1>2. /\ K[0] = {Start(m)} /\ Reached(m) = K[d]
      /\ \A k \in 1..d : K[k] = K[k - 1] \union Successors(m, K[k - 1])
  BY Levels
<1>. HIDE DEF L, K, d
<1>3. 0 \in J
  <2>1. Start(m) = Restrict(Start(FullModel), m.vars)
    BY StartNormal DEF IsSlice
  <2>. QED  BY <1>1, <1>2, <2>1 DEF Image
<1>4. ASSUME NEW k \in 1..d, k - 1 \in J
      PROVE  k \in J
  <2>1. k \in 0..d /\ k - 1 \in 0..d /\ K[k - 1] \subseteq Image(L[k - 1], m.vars)
    BY <1>1, <1>4
  <2>2. L[k - 1] \subseteq L[k] /\ L[k - 1] \subseteq Reached(FullModel)
    BY <1>1, <2>1
  <2>3. ASSUME NEW z \in Successors(m, K[k - 1])
        PROVE  z \in Image(L[k], m.vars)
    <3>1. PICK t \in m.trans, r \in K[k - 1] : z \in Post(t, r)
      BY <2>3 DEF Successors
    <3>2. PICK s \in L[k - 1] : r = Restrict(s, m.vars)
      BY <2>1, <3>1 DEF Image
    <3>3. PICK u \in Range(model) :
            \/ z = Restrict(s, m.vars)
            \/ \E w \in Post(Whole(u), s) : z = Restrict(w, m.vars)
      BY <2>2, <3>1, <3>2, StepLifts
    <3>4. CASE z = Restrict(s, m.vars)
      BY <2>2, <3>2, <3>4 DEF Image
    <3>5. CASE \E w \in Post(Whole(u), s) : z = Restrict(w, m.vars)
      <4>1. PICK w \in Post(Whole(u), s) : z = Restrict(w, m.vars)
        BY <3>5
      <4>2. w \in Successors(FullModel, L[k - 1])
        BY <3>2, FullTransitions DEF Successors
      <4>. QED  BY <1>1, <4>1, <4>2 DEF Image
    <3>. QED  BY <3>3, <3>4, <3>5
  <2>4. K[k - 1] \subseteq Image(L[k], m.vars)
    BY <2>1, <2>2 DEF Image
  <2>. QED  BY <1>2, <2>1, <2>3, <2>4
<1>5. 0..d \subseteq J
  <2>. HIDE DEF J
  <2>. QED  BY <1>1, <1>3, <1>4, UpTo
<1>6. d \in J
  BY <1>1, <1>5
<1>. QED  BY <1>1, <1>2, <1>6

\* A slice that keeps the writers of its variables.
KeepsWriters(m) ==
  \A u \in Range(model) :
     \/ /\ Cut(u, m.vars) \in m.trans /\ AtomVars(u.guard) \subseteq m.vars
        /\ EffectReads(About(u.effect, m.vars)) \subseteq m.vars
     \/ Writes(u) \intersect m.vars = {}

LEMMA StepProjects ==
  ASSUME Typed, Smooth, NEW m, IsSlice(m), NEW s \in Reached(FullModel), NEW u \in Range(model),
         NEW w \in Post(Whole(u), s)
  PROVE  /\ Writes(u) \intersect m.vars = {} => Restrict(w, m.vars) = Restrict(s, m.vars)
         /\ AtomVars(u.guard) \subseteq m.vars /\ EffectReads(About(u.effect, m.vars)) \subseteq m.vars
              => Restrict(w, m.vars) \in Post(Cut(u, m.vars), Restrict(s, m.vars))
<1>. DEFINE vs == m.vars
<1>1. vs \subseteq Vars /\ MountReads(vs) \subseteq vs /\ Normal(s) /\ IsState(s) /\ Free(u, s)
  BY ReachedNormal, ModelFree DEF IsSlice, Normal
<1>2. /\ Projectable(u.effect, Vars)
      /\ EffectReads(About(u.effect, vs)) \subseteq vs => Projectable(u.effect, vs)
  BY <1>1, ModelProjectable DEF Smooth
<1>. HIDE DEF vs
<1>3. Writes(u) \intersect vs = {} => Restrict(w, vs) = Restrict(s, vs)
  BY <1>1, <1>2, PostDropped
<1>4. ASSUME AtomVars(u.guard) \subseteq vs, EffectReads(About(u.effect, vs)) \subseteq vs
      PROVE  Restrict(w, vs) \in Post(Cut(u, vs), Restrict(s, vs))
  <2>1. Image(Post(Whole(u), s), vs) = Post(Cut(u, vs), Restrict(s, vs))
    BY <1>1, <1>2, <1>4, PostProjects
  <2>. QED  BY <2>1 DEF Image
<1>. QED  BY <1>3, <1>4 DEF vs

LEMMA ReachedProjects ==
  ASSUME Typed, Smooth, NEW m, IsSlice(m), KeepsWriters(m)
  PROVE  Image(Reached(FullModel), m.vars) \subseteq Reached(m)
<1>. DEFINE L == Level(FullModel)
            K == Level(m)
            d == Depth
            J == {k \in 0..d : Image(L[k], m.vars) \subseteq K[k]}
<1>1. /\ d \in Nat /\ L[0] = {Start(FullModel)} /\ Reached(FullModel) = L[d]
      /\ \A k \in 1..d : L[k] = L[k - 1] \union Successors(FullModel, L[k - 1])
      /\ \A k \in 0..d : L[k] \subseteq Reached(FullModel)
  BY Levels, LevelsReached
<1>2. /\ K[0] = {Start(m)} /\ Reached(m) = K[d]
      /\ \A k \in 1..d : K[k] = K[k - 1] \union Successors(m, K[k - 1])
  BY Levels
<1>. HIDE DEF L, K, d
<1>3. 0 \in J
  <2>1. Start(m) = Restrict(Start(FullModel), m.vars)
    BY StartNormal DEF IsSlice
  <2>. QED  BY <1>1, <1>2, <2>1 DEF Image
<1>4. ASSUME NEW k \in 1..d, k - 1 \in J
      PROVE  k \in J
  <2>1. k \in 0..d /\ k - 1 \in 0..d /\ Image(L[k - 1], m.vars) \subseteq K[k - 1]
    BY <1>1, <1>4
  <2>2. K[k - 1] \subseteq K[k] /\ L[k - 1] \subseteq Reached(FullModel)
    BY <1>1, <1>2, <2>1
  <2>3. ASSUME NEW w \in Successors(FullModel, L[k - 1])
        PROVE  Restrict(w, m.vars) \in K[k]
    <3>1. PICK t \in FullModel.trans, s \in L[k - 1] : w \in Post(t, s)
      BY <2>3 DEF Successors
    <3>2. PICK u \in Range(model) : t = Whole(u)
      BY FullTransitions
    <3>3. Restrict(s, m.vars) \in K[k - 1]
      BY <2>1 DEF Image
    <3>4. \/ Restrict(w, m.vars) = Restrict(s, m.vars)
          \/ /\ Cut(u, m.vars) \in m.trans
             /\ Restrict(w, m.vars) \in Post(Cut(u, m.vars), Restrict(s, m.vars))
      BY <2>2, <3>1, <3>2, StepProjects DEF KeepsWriters
    <3>5. CASE Restrict(w, m.vars) = Restrict(s, m.vars)
      BY <2>2, <3>3, <3>5
    <3>6. CASE /\ Cut(u, m.vars) \in m.trans
               /\ Restrict(w, m.vars) \in Post(Cut(u, m.vars), Restrict(s, m.vars))
      <4>1. Restrict(w, m.vars) \in Successors(m, K[k - 1])
        BY <3>3, <3>6 DEF Successors
      <4>. QED  BY <1>2, <4>1
    <3>. QED  BY <3>4, <3>5, <3>6
  <2>4. \A w \in L[k - 1] : Restrict(w, m.vars) \in K[k]
    BY <2>1, <2>2 DEF Image
  <2>5. \A w \in L[k] : Restrict(w, m.vars) \in K[k]
    BY <1>1, <2>3, <2>4
  <2>. QED  BY <2>1, <2>5 DEF Image
<1>5. 0..d \subseteq J
  <2>. HIDE DEF J
  <2>. QED  BY <1>1, <1>3, <1>4, UpTo
<1>6. d \in J
  BY <1>1, <1>5
<1>. QED  BY <1>1, <1>2, <1>6

-----------------------------------------------------------------------------
(* Witnesses. What a slice shows is there in the model.                    *)

Witness(p, m) ==
  IF p.kind = "step"
  THEN \E s \in Reached(m), t \in m.trans : \E w \in Post(t, s) : Matches(p, t, s, w) = p.negate
  ELSE \E s \in Reached(m) : All(p.atoms, s) /\ Observes(p, s, m)

\* The verdict a witness gives.
Shown(p) == IF p.kind = "EF" THEN "verified" ELSE "violated"
Unseen(p) == IF p.kind = "EF" THEN "violated" ELSE "verified"

LEMMA VerdictShows ==
  ASSUME NEW p, p.kind \in {"AG", "EF", "step"}, NEW m
  PROVE  Verdict(p, m) = IF ~Compiles(p, m) THEN "error"
                         ELSE IF Witness(p, m) THEN Shown(p) ELSE Unseen(p)
<1>1. CASE p.kind = "step"
  BY <1>1 DEF Verdict, Witness, Shown, Unseen
<1>2. CASE p.kind = "EF"
  BY <1>2 DEF Verdict, Witness, Shown, Unseen
<1>3. CASE p.kind = "AG"
  BY <1>3 DEF Verdict, Witness, Shown, Unseen
<1>. QED  BY <1>1, <1>2, <1>3

LEMMA FullCompiles ==
  ASSUME Typed, NEW p, IsProperty(p)
  PROVE  Compiles(p, FullModel) /\ StateReads(p) \subseteq Vars
<1>1. StateReads(p) \subseteq Vars
  BY DEF StateReads, IsProperty, AtomVars, IsAtom
<1>2. \A t \in FullModel.trans : AtomVars(t.guard) \subseteq Vars
  <2>1. \A u \in Range(model) : AtomVars(u.guard) \subseteq Vars /\ Whole(u).guard = u.guard
    BY RequestTyped, TransitionTyped DEF Whole
  <2>. QED  BY <2>1, FullTransitions
<1>3. FullModel.vars = Vars
  BY DEF FullModel
<1>. QED  BY <1>1, <1>2, <1>3, MountTyped DEF Compiles

\* All transitions of a slice that observes nothing are cut down ones.
AllCut(m) ==
  \A t \in m.trans : \E u \in Range(model) :
     /\ AtomVars(u.guard) \subseteq m.vars
     /\ t = Cut(u, m.vars) /\ EffectReads(About(u.effect, m.vars)) \subseteq m.vars

LEMMA CutLifts ==
  ASSUME Typed, Smooth, NEW m, IsSlice(m), NEW s \in Reached(FullModel), NEW u \in Range(model),
         AtomVars(u.guard) \subseteq m.vars, EffectReads(About(u.effect, m.vars)) \subseteq m.vars,
         NEW z \in Post(Cut(u, m.vars), Restrict(s, m.vars))
  PROVE  \E w \in Post(Whole(u), s) : z = Restrict(w, m.vars)
<1>. DEFINE vs == m.vars
<1>1. vs \subseteq Vars /\ MountReads(vs) \subseteq vs /\ IsState(s) /\ Free(u, s)
  BY ReachedNormal, ModelFree DEF IsSlice, Normal
<1>2. Projectable(u.effect, vs)
  BY <1>1, ModelProjectable DEF Smooth
<1>. HIDE DEF vs
<1>3. Image(Post(Whole(u), s), vs) = Post(Cut(u, vs), Restrict(s, vs))
  BY <1>1, <1>2, PostProjects DEF vs
<1>. QED  BY <1>3 DEF Image, vs

\* A property about every edge that an edge without a change does not violate.
OnlyChangesCount(p) == p.negate /\ p.changed # {}

LEMMA MatchesIs ==
  ASSUME NEW p, NEW vs, vs \subseteq Vars, StateReads(p) \subseteq vs, NEW u, NEW s, IsState(s),
         NEW w, IsState(w)
  PROVE  Matches(p, Cut(u, vs), Restrict(s, vs), Restrict(w, vs)) = Matches(p, Whole(u), s, w)
<1>1. /\ All(p.pre, Restrict(s, vs)) <=> All(p.pre, s)
      /\ All(p.atoms, Restrict(w, vs)) <=> All(p.atoms, w)
  BY AllIs DEF StateReads
<1>2. \A v \in p.changed : Restrict(s, vs)[v] = s[v] /\ Restrict(w, vs)[v] = w[v]
  BY RestrictIs DEF StateReads
<1>3. Cut(u, vs).id = u.id /\ Whole(u).id = u.id
  BY DEF Cut, Whole
<1>. QED  BY <1>1, <1>2, <1>3 DEF Matches

LEMMA WitnessLifts ==
  ASSUME Typed, Smooth, NEW m, IsSlice(m), NEW p, Compiles(p, m),
         p.kind = "step" => AllCut(m) \/ OnlyChangesCount(p), Witness(p, m)
  PROVE  Witness(p, FullModel)
<1>. DEFINE vs == m.vars
<1>1. vs \subseteq Vars /\ MountReads(vs) \subseteq vs /\ StateReads(p) \subseteq vs
  BY DEF IsSlice, Compiles
<1>2. \A s \in Reached(FullModel) : Normal(s) /\ IsState(s)
  BY ReachedNormal DEF Normal
<1>3. \A r \in Reached(m) : \E s \in Reached(FullModel) : r = Restrict(s, vs)
  BY ReachedLifts DEF Image
<1>4. CASE p.kind # "step"
  <2>1. PICK r \in Reached(m) : All(p.atoms, r) /\ Observes(p, r, m)
    BY <1>4 DEF Witness
  <2>2. PICK s \in Reached(FullModel) : r = Restrict(s, vs)
    BY <1>3
  <2>3. All(p.atoms, s)
    BY <1>1, <1>2, <2>1, <2>2, AllIs DEF StateReads
  <2>4. Observes(p, s, FullModel)
    <3>. SUFFICES ASSUME NEW id \in p.observed
                  PROVE  \E t \in FullModel.trans : t.id = id /\ IsEnabled(t, s)
      BY DEF Observes
    <3>1. PICK t \in m.trans : t.id = id /\ IsEnabled(t, r)
      BY <2>1 DEF Observes
    <3>2. PICK u \in Range(model) : AtomVars(u.guard) \subseteq vs /\ (t = Stripped(u) \/ t = Cut(u, vs))
      BY DEF IsSlice
    <3>3. t.id = u.id /\ t.guard = u.guard
      BY <3>2 DEF Stripped, Cut
    <3>4. All(u.guard, s)
      BY <1>1, <1>2, <2>2, <3>1, <3>2, <3>3, AllIs DEF IsEnabled
    <3>5. Whole(u) \in FullModel.trans /\ Whole(u).id = u.id /\ IsEnabled(Whole(u), s)
      BY <3>4, FullTransitions, ModelFree DEF Free, Whole
    <3>. QED  BY <3>1, <3>3, <3>5
  <2>. QED  BY <1>4, <2>3, <2>4 DEF Witness
<1>5. CASE p.kind = "step"
  <2>1. PICK r \in Reached(m), t \in m.trans : \E z \in Post(t, r) : Matches(p, t, r, z) = p.negate
    BY <1>5 DEF Witness
  <2>2. PICK z \in Post(t, r) : Matches(p, t, r, z) = p.negate
    BY <2>1
  <2>3. PICK s \in Reached(FullModel) : r = Restrict(s, vs)
    BY <1>3
  <2>4. ASSUME NEW u \in Range(model), t = Cut(u, vs), NEW w \in Post(Whole(u), s), z = Restrict(w, vs)
        PROVE  Witness(p, FullModel)
    <3>1. Projectable(u.effect, Vars)
      BY ModelProjectable DEF Smooth
    <3>2. IsState(w)
      BY <1>2, <3>1, ModelFree, StepTyped DEF Normal
    <3>3. Matches(p, Whole(u), s, w) = p.negate
      BY <1>1, <1>2, <2>2, <2>3, <2>4, <3>2, MatchesIs
    <3>4. Whole(u) \in FullModel.trans
      BY FullTransitions
    <3>. QED  BY <1>5, <3>3, <3>4 DEF Witness
  <2>5. CASE AllCut(m)
    <3>1. PICK u \in Range(model) : /\ AtomVars(u.guard) \subseteq m.vars /\ t = Cut(u, m.vars)
                                    /\ EffectReads(About(u.effect, m.vars)) \subseteq m.vars
      BY <2>5 DEF AllCut
    <3>2. \E w \in Post(Whole(u), s) : z = Restrict(w, m.vars)
      BY <2>2, <2>3, <3>1, CutLifts
    <3>. QED  BY <2>4, <3>1, <3>2
  <2>6. CASE OnlyChangesCount(p)
    <3>1. PICK u \in Range(model) :
            \/ t = Stripped(u) /\ z = r
            \/ t = Cut(u, vs) /\ \E w \in Post(Whole(u), s) : z = Restrict(w, vs)
      BY <2>2, <2>3, StepLifts
    <3>2. z # r
      BY <2>2, <2>6 DEF OnlyChangesCount, Matches
    <3>. QED  BY <2>4, <3>1, <3>2
  <2>. QED  BY <1>5, <2>5, <2>6
<1>. QED  BY <1>4, <1>5

\* And what the model shows is there in a slice that keeps the writers of its variables.
LEMMA WitnessProjects ==
  ASSUME Typed, Smooth, NEW m, IsSlice(m), KeepsWriters(m), NEW p, Compiles(p, m),
         p.observed \intersect Ids = {}, p.kind = "step" => OnlyChangesCount(p),
         Witness(p, FullModel)
  PROVE  Witness(p, m)
<1>. DEFINE vs == m.vars
<1>1. vs \subseteq Vars /\ MountReads(vs) \subseteq vs /\ StateReads(p) \subseteq vs
  BY DEF IsSlice, Compiles
<1>2. \A s \in Reached(FullModel) : Normal(s) /\ IsState(s)
  BY ReachedNormal DEF Normal
<1>3. \A s \in Reached(FullModel) : Restrict(s, vs) \in Reached(m)
  BY ReachedProjects DEF Image
<1>4. CASE p.kind # "step"
  <2>1. PICK s \in Reached(FullModel) : All(p.atoms, s) /\ Observes(p, s, FullModel)
    BY <1>4 DEF Witness
  <2>2. p.observed = {}
    <3>1. \A id \in p.observed : \E u \in Range(model) : u.id = id
      BY <2>1, FullTransitions DEF Observes, Whole
    <3>2. \A u \in Range(model) : u.id \in Ids
      BY RequestTyped
    <3>. QED  BY <3>1, <3>2
  <2>3. Observes(p, Restrict(s, vs), m)
    BY <2>2 DEF Observes
  <2>4. All(p.atoms, Restrict(s, vs))
    BY <1>1, <1>2, <2>1, AllIs DEF StateReads
  <2>. QED  BY <1>3, <1>4, <2>3, <2>4 DEF Witness
<1>5. CASE p.kind = "step"
  <2>1. PICK s \in Reached(FullModel), t \in FullModel.trans :
           \E w \in Post(t, s) : Matches(p, t, s, w) = p.negate
    BY <1>5 DEF Witness
  <2>2. PICK w \in Post(t, s) : Matches(p, t, s, w) = p.negate
    BY <2>1
  <2>3. PICK u \in Range(model) : t = Whole(u)
    BY FullTransitions
  <2>4. IsState(w)
    <3>1. Projectable(u.effect, Vars)
      BY ModelProjectable DEF Smooth
    <3>. QED  BY <1>2, <2>2, <2>3, <3>1, ModelFree, StepTyped DEF Normal
  <2>5. Restrict(w, vs) # Restrict(s, vs)
    <3>1. PICK v \in p.changed : s[v] # w[v]
      BY <1>5, <2>2 DEF OnlyChangesCount, Matches
    <3>2. v \in vs
      BY <1>1 DEF StateReads
    <3>. QED  BY <3>1, <3>2, RestrictIs
  <2>6. /\ Cut(u, vs) \in m.trans
        /\ Restrict(w, vs) \in Post(Cut(u, vs), Restrict(s, vs))
    BY <2>2, <2>3, <2>5, StepProjects DEF KeepsWriters
  <2>7. Matches(p, Cut(u, vs), Restrict(s, vs), Restrict(w, vs)) = p.negate
    BY <1>1, <1>2, <2>2, <2>3, <2>4, MatchesIs
  <2>. QED  BY <1>3, <1>5, <2>6, <2>7 DEF Witness
<1>. QED  BY <1>4, <1>5

-----------------------------------------------------------------------------
(* Steps that miss a goal. Where a slice can miss it, the model can.        *)

Away(p, m) == {s \in Reached(m) : ~All(p.atoms, s)}
Onward(m, s) == UNION {Post(t, s) : t \in m.trans}
Before(p, m, S) == {s \in Away(p, m) : Onward(m, s) = {} \/ Onward(m, s) \intersect S # {}}
MissStep(p, m, g, n) == IF n = 0 THEN Away(p, m) ELSE Before(p, m, g[n - 1])
IsMissing(p, m, n, g) == g = [k \in 0..n |-> MissStep(p, m, g, k)]
Missed(p, m, n) == CHOOSE g : IsMissing(p, m, n, g)

LEMMA MissingExists ==
  ASSUME NEW p, NEW m, NEW n \in Nat
  PROVE  \E g : IsMissing(p, m, n, g)
<1>. DEFINE J == {j \in 0..n : \E g : IsMissing(p, m, j, g)}
<1>1. 0 \in J
  <2>. DEFINE g == [k \in 0..0 |-> Away(p, m)]
  <2>1. \A k \in 0..0 : MissStep(p, m, g, k) = Away(p, m)
    BY DEF MissStep
  <2>2. IsMissing(p, m, 0, g)
    BY <2>1 DEF IsMissing
  <2>. QED  BY <2>2
<1>2. ASSUME NEW j \in 1..n, j - 1 \in J
      PROVE  j \in J
  <2>1. PICK g : IsMissing(p, m, j - 1, g)
    BY <1>2
  <2>. DEFINE h == [k \in 0..j |-> IF k = j THEN MissStep(p, m, g, j) ELSE g[k]]
  <2>2. ASSUME NEW k \in 0..j
        PROVE  h[k] = MissStep(p, m, h, k)
    <3>1. k # 0 => k - 1 \in 0..j /\ k - 1 # j
      OBVIOUS
    <3>2. k # 0 => h[k - 1] = g[k - 1]
      BY <3>1
    <3>3. MissStep(p, m, h, k) = MissStep(p, m, g, k)
      BY <3>2 DEF MissStep
    <3>4. CASE k = j
      BY <3>3, <3>4
    <3>5. CASE k # j
      <4>1. k \in 0..(j - 1)
        BY <3>5
      <4>. QED  BY <2>1, <3>3, <3>5, <4>1 DEF IsMissing
    <3>. QED  BY <3>4, <3>5
  <2>3. h = [k \in 0..j |-> h[k]]
    OBVIOUS
  <2>. HIDE DEF h
  <2>4. IsMissing(p, m, j, h)
    BY <2>2, <2>3 DEF IsMissing
  <2>. QED  BY <2>4
<1>3. 0..n \subseteq J
  <2>. HIDE DEF J
  <2>. QED  BY <1>1, <1>2, UpTo
<1>. QED  BY <1>3

LEMMA MissedSteps ==
  ASSUME NEW p, NEW m, NEW n \in Nat
  PROVE  /\ Missed(p, m, n)[0] = Away(p, m) /\ CanMiss(p, m, n) = Missed(p, m, n)[n]
         /\ \A k \in 1..n : Missed(p, m, n)[k] = Before(p, m, Missed(p, m, n)[k - 1])
<1>. DEFINE G == Missed(p, m, n)
<1>1. CanMiss(p, m, n) = G[n]
  BY DEF CanMiss, IsMissing, MissStep, Before, Away, Onward, Missed
<1>2. IsMissing(p, m, n, G)
  BY MissingExists DEF Missed
<1>. HIDE DEF G
<1>4. \A k \in 0..n : G[k] = MissStep(p, m, G, k)
  BY <1>2 DEF IsMissing
<1>5. 0 \in 0..n /\ \A k \in 1..n : k \in 0..n /\ k # 0
  OBVIOUS
<1>6. G[0] = Away(p, m)
  BY <1>4, <1>5 DEF MissStep
<1>7. ASSUME NEW k \in 1..n
      PROVE  G[k] = Before(p, m, G[k - 1])
  <2>1. G[k] = MissStep(p, m, G, k) /\ k # 0
    BY <1>4, <1>5
  <2>. QED  BY <2>1 DEF MissStep
<1>. QED  BY <1>1, <1>6, <1>7 DEF G

\* The search of the model is deep enough: it has every state there is.
DepthSuffices == \A s \in Reached(FullModel), t \in FullModel.trans : Post(t, s) \subseteq Reached(FullModel)

\* A variable that is there has one of its values.
ValuesInDomain ==
  \A s \in Reached(FullModel), v \in Vars : (v \in DOMAIN Mount => Holds(Mount[v], s)) => s[v] \in Dom[v]

\* A slice that keeps the writers of its variables, but for those that only havoc.
KeepsOrHavocs(m) ==
  \A u \in Range(model) :
     \/ /\ Cut(u, m.vars) \in m.trans /\ AtomVars(u.guard) \subseteq m.vars
        /\ EffectReads(About(u.effect, m.vars)) \subseteq m.vars
     \/ Writes(u) \intersect m.vars = {}
     \/ \E v \in Vars : OnlyHavocs(u.effect, v)

\* A transition that only havocs a variable may leave it as it is.
LEMMA HavocStays ==
  ASSUME Typed, Smooth, ValuesInDomain, NEW u \in Range(model), NEW v \in Vars, OnlyHavocs(u.effect, v),
         NEW s \in Reached(FullModel), IsEnabled(Whole(u), s)
  PROVE  s \in Post(Whole(u), s)
<1>. DEFINE e == u.effect
            n == Len(e)
            R == Run(e, s)
            J == {k \in 0..n : s \in R[k]}
<1>1. /\ n \in Nat /\ DOMAIN e = 1..n /\ 0 \in 0..n
      /\ \A k \in 1..n : e[k].op = "havoc" /\ e[k].var = v /\ e[k].cond = {} /\ IsStatement(e[k])
  <2>1. e \in Seq(Range(e)) /\ \A st \in Range(e) : IsStatement(st)
    BY RequestTyped DEF IsTransition
  <2>2. n \in Nat /\ DOMAIN e = 1..n /\ \A k \in 1..n : e[k] \in Range(e)
    BY <2>1 DEF Range
  <2>. QED  BY <2>1, <2>2 DEF OnlyHavocs
<1>2. Normal(s) /\ IsState(s)
  BY ReachedNormal DEF Normal
<1>3. s[v] \in Dom[v]
  <2>1. e # <<>>
    BY DEF OnlyHavocs
  <2>2. n # 0
    <3>1. e \in Seq(Range(e))
      BY RequestTyped DEF IsTransition
    <3>. QED  BY <2>1, <3>1
  <2>3. v \in Writes(u)
    <3>1. 1 \in 1..n
      BY <1>1, <2>2
    <3>. QED  BY <1>1, <3>1 DEF Writes, EffectWrites
  <2>4. v \in DOMAIN Mount => Holds(Mount[v], s)
    BY <2>3 DEF IsEnabled, Whole
  <2>. QED  BY <2>4 DEF ValuesInDomain
<1>4. s \in RunEffect(e, s)
  <2>1. R[0] = {s} /\ RunEffect(e, s) = R[n]
    BY <1>1, RunSteps
  <2>2. ASSUME NEW k \in 1..n
        PROVE  R[k] = UNION {After(e[k], w, s) : w \in R[k - 1]}
    BY <1>1, RunSteps
  <2>. HIDE DEF R, n
  <2>3. ASSUME NEW k \in 1..n, k - 1 \in J
        PROVE  k \in J
    <3>1. s \in After(e[k], s, s)
      <4>1. All(e[k].cond, s)
        BY <1>1 DEF All
      <4>2. After(e[k], s, s) = {Put(s, v, d) : d \in Dom[v]}
        <5>. DEFINE st == e[k]
        <5>1. IsStatement(st) /\ st.op = "havoc" /\ st.var = v /\ All(st.cond, s)
          BY <1>1, <4>1
        <5>. HIDE DEF st
        <5>2. After(st, s, s) = {Put(s, st.var, d) : d \in Dom[st.var]}
          BY <5>1, AfterPuts
        <5>. QED  BY <5>1, <5>2 DEF st
      <4>3. Put(s, v, s[v]) = s
        BY <1>2 DEF Put, IsState
      <4>. QED  BY <1>3, <4>2, <4>3
    <3>2. s \in R[k - 1] /\ k \in 0..n
      BY <1>1, <2>3
    <3>. QED  BY <2>2, <3>1, <3>2
  <2>4. 0..n \subseteq J
    <3>1. 0 \in J
      BY <1>1, <2>1
    <3>. HIDE DEF J
    <3>. QED  BY <1>1, <2>3, <3>1, UpTo
  <2>5. n \in 0..n
    BY <1>1
  <2>. QED  BY <2>1, <2>4, <2>5
<1>5. ResetLocals(s, s) = s
  BY <1>2, ResetSame
<1>. QED  BY <1>4, <1>5, WholePost

\* A state that is stuck in a slice can miss the goal for ever.
LEMMA StuckMisses ==
  ASSUME NEW p, NEW m, NEW n \in Nat, NEW r \in Away(p, m), Onward(m, r) = {}
  PROVE  \A k \in 0..n : r \in Missed(p, m, n)[k]
<1>. DEFINE M == Missed(p, m, n)
<1>1. M[0] = Away(p, m) /\ \A k \in 1..n : M[k] = Before(p, m, M[k - 1])
  BY MissedSteps
<1>2. \A k \in 1..n : r \in M[k]
  <2>. SUFFICES ASSUME NEW k \in 1..n PROVE r \in M[k]
    OBVIOUS
  <2>1. M[k] = Before(p, m, M[k - 1])
    BY <1>1
  <2>. QED  BY <2>1 DEF Before
<1>3. \A k \in 0..n : k = 0 \/ k \in 1..n
  OBVIOUS
<1>. QED  BY <1>1, <1>2, <1>3

\* Where a slice can miss the goal, so can the model: it follows the steps of the slice, and
\* where the slice is stuck the steps of the model change nothing the slice sees.
LEMMA MissesLift ==
  ASSUME Typed, Smooth, DepthSuffices, ValuesInDomain, NEW m, IsSlice(m), AllCut(m), KeepsOrHavocs(m),
         NEW p, StateReads(p) \subseteq m.vars, NEW n \in Nat,
         NEW s \in Reached(FullModel), Restrict(s, m.vars) \in CanMiss(p, m, n)
  PROVE  s \in CanMiss(p, FullModel, n)
<1>. DEFINE F == FullModel
            vs == m.vars
            M == Missed(p, m, n)
            N == Missed(p, F, n)
            J == {k \in 0..n : \A x \in Reached(F) : Restrict(x, vs) \in M[k] => x \in N[k]}
<1>1. /\ M[0] = Away(p, m) /\ CanMiss(p, m, n) = M[n]
      /\ \A k \in 1..n : M[k] = Before(p, m, M[k - 1])
  BY MissedSteps
<1>2. /\ N[0] = Away(p, F) /\ CanMiss(p, F, n) = N[n]
      /\ \A k \in 1..n : N[k] = Before(p, F, N[k - 1])
  BY MissedSteps
<1>3. vs \subseteq Vars /\ MountReads(vs) \subseteq vs /\ AtomVars(p.atoms) \subseteq vs
  BY DEF IsSlice, StateReads
<1>4. \A x \in Reached(F) : IsState(x)
  BY ReachedNormal DEF Normal
<1>5. \A x \in Reached(F) : Restrict(x, vs) \in Away(p, m) => x \in Away(p, F)
  BY <1>3, <1>4, AllIs DEF Away
<1>6. \A x \in Reached(F), u \in Range(model) : Post(Whole(u), x) \subseteq Reached(F)
  BY FullTransitions DEF DepthSuffices
<1>7. \A x \in Reached(F), u \in Range(model) : Post(Whole(u), x) \subseteq Onward(F, x)
  BY FullTransitions DEF Onward
<1>8. \A r \in Away(p, m) : Onward(m, r) = {} => \A k \in 0..n : r \in M[k]
  BY StuckMisses
<1>. HIDE DEF F, vs, M, N
<1>9. 0 \in J
  BY <1>1, <1>2, <1>5
<1>10. ASSUME NEW k \in 1..n, k - 1 \in J
       PROVE  k \in J
  <2>0. k \in 0..n /\ k - 1 \in 0..n
    OBVIOUS
  <2>. SUFFICES ASSUME NEW x \in Reached(F), Restrict(x, vs) \in M[k] PROVE x \in N[k]
    BY <2>0
  <2>. DEFINE r == Restrict(x, vs)
  <2>1. /\ r \in Away(p, m) /\ x \in Away(p, F)
        /\ Onward(m, r) = {} \/ Onward(m, r) \intersect M[k - 1] # {}
    BY <1>1, <1>5 DEF Before
  <2>2. \A w \in Reached(F) : Restrict(w, vs) \in M[k - 1] => w \in N[k - 1]
    BY <1>10
  <2>3. ASSUME NEW u \in Range(model), NEW w \in Post(Whole(u), x), Restrict(w, vs) \in M[k - 1]
        PROVE  x \in N[k]
    <3>1. w \in Reached(F) /\ w \in Onward(F, x)
      BY <1>6, <1>7
    <3>2. w \in N[k - 1]
      BY <2>2, <2>3, <3>1
    <3>3. N[k] = Before(p, F, N[k - 1])
      BY <1>2
    <3>. QED  BY <2>1, <3>1, <3>2, <3>3 DEF Before
  <2>4. CASE Onward(m, r) # {}
    <3>1. PICK z \in Onward(m, r) : z \in M[k - 1]
      BY <2>1, <2>4
    <3>2. PICK t \in m.trans : z \in Post(t, r)
      BY <3>1 DEF Onward
    <3>3. PICK u \in Range(model) : /\ AtomVars(u.guard) \subseteq m.vars /\ t = Cut(u, m.vars)
                                    /\ EffectReads(About(u.effect, m.vars)) \subseteq m.vars
      BY <3>2 DEF AllCut
    <3>4. \E w \in Post(Whole(u), x) : z = Restrict(w, m.vars)
      <4>1. z \in Post(Cut(u, m.vars), Restrict(x, m.vars)) /\ x \in Reached(FullModel)
        BY <3>2, <3>3 DEF vs, F
      <4>. QED  BY <3>3, <4>1, CutLifts
    <3>. QED  BY <2>3, <3>1, <3>4 DEF vs
  <2>5. CASE Onward(m, r) = {}
    <3>1. r \in M[k - 1]
      BY <1>8, <2>0, <2>1, <2>5
    <3>2. CASE Onward(F, x) = {}
      <4>1. N[k] = Before(p, F, N[k - 1])
        BY <1>2
      <4>. QED  BY <2>1, <3>2, <4>1 DEF Before
    <3>3. CASE Onward(F, x) # {}
      <4>1. PICK u \in Range(model) : \E w \in Post(Whole(u), x) : TRUE
        BY <3>3, FullTransitions DEF Onward, F
      <4>2. PICK w \in Post(Whole(u), x) : TRUE
        BY <4>1
      <4>3. x \in Reached(FullModel)
        BY DEF F
      <4>4. CASE /\ Cut(u, m.vars) \in m.trans /\ AtomVars(u.guard) \subseteq m.vars
                 /\ EffectReads(About(u.effect, m.vars)) \subseteq m.vars
        <5>1. Restrict(w, m.vars) \in Post(Cut(u, m.vars), Restrict(x, m.vars))
          BY <4>2, <4>3, <4>4, StepProjects
        <5>. QED  BY <2>5, <4>4, <5>1 DEF Onward, vs
      <4>5. CASE Writes(u) \intersect m.vars = {}
        <5>1. Restrict(w, m.vars) = Restrict(x, m.vars)
          BY <4>2, <4>3, <4>5, StepProjects
        <5>. QED  BY <2>3, <3>1, <4>2, <5>1 DEF vs
      <4>6. CASE \E v \in Vars : OnlyHavocs(u.effect, v)
        <5>1. PICK v \in Vars : OnlyHavocs(u.effect, v)
          BY <4>6
        <5>2. IsEnabled(Whole(u), x)
          BY <4>2 DEF Post
        <5>3. x \in Post(Whole(u), x)
          BY <4>3, <5>1, <5>2, HavocStays
        <5>. QED  BY <2>3, <3>1, <5>3
      <4>. QED  BY <4>4, <4>5, <4>6 DEF KeepsOrHavocs
    <3>. QED  BY <3>2, <3>3
  <2>. QED  BY <2>4, <2>5
<1>11. 0..n \subseteq J
  <2>. HIDE DEF J
  <2>. QED  BY <1>9, <1>10, UpTo
<1>12. n \in 0..n
  OBVIOUS
<1>. QED  BY <1>1, <1>2, <1>11, <1>12 DEF vs, F

IsTriggered(p, t, s, w) ==
  w \in Post(t, s) /\ p.target \in {NoTarget, t.id} /\ \A v \in p.changed : s[v] # w[v]

LEMMA TriggeredIs ==
  ASSUME NEW p, NEW m, NEW w
  PROVE  w \in Triggered(p, m) <=> \E s \in Reached(m), t \in m.trans : IsTriggered(p, t, s, w)
<1>. DEFINE D(t, s) == {u \in Post(t, s) : /\ p.target \in {NoTarget, t.id}
                                            /\ \A v \in p.changed : s[v] # u[v]}
<1>1. Triggered(p, m) = UNION {D(t, s) : s \in Reached(m), t \in m.trans}
  BY DEF Triggered
<1>2. \A s, t : w \in D(t, s) <=> IsTriggered(p, t, s, w)
  BY DEF IsTriggered
<1>. HIDE DEF D
<1>3. w \in Triggered(p, m) <=> \E s \in Reached(m), t \in m.trans : w \in D(t, s)
  BY <1>1
<1>. QED  BY <1>2, <1>3

LEMMA TriggersLift ==
  ASSUME Typed, Smooth, DepthSuffices, NEW m, IsSlice(m), AllCut(m),
         NEW p, StateReads(p) \subseteq m.vars, NEW z \in Triggered(p, m)
  PROVE  \E w \in Triggered(p, FullModel) : w \in Reached(FullModel) /\ z = Restrict(w, m.vars)
<1>1. PICK r \in Reached(m), t \in m.trans : IsTriggered(p, t, r, z)
  BY TriggeredIs
<1>2. PICK s \in Reached(FullModel) : r = Restrict(s, m.vars)
  BY <1>1, ReachedLifts DEF Image
<1>3. PICK u \in Range(model) : /\ AtomVars(u.guard) \subseteq m.vars /\ t = Cut(u, m.vars)
                                /\ EffectReads(About(u.effect, m.vars)) \subseteq m.vars
  BY <1>1 DEF AllCut
<1>4. PICK w \in Post(Whole(u), s) : z = Restrict(w, m.vars)
  BY <1>1, <1>2, <1>3, CutLifts DEF IsTriggered
<1>5. Whole(u) \in FullModel.trans /\ Whole(u).id = t.id
  BY <1>3, FullTransitions DEF Whole, Cut
<1>6. \A v \in p.changed : s[v] # w[v]
  <2>0. \A v \in p.changed : r[v] # z[v]
    BY <1>1 DEF IsTriggered
  <2>1. \A v \in p.changed : v \in m.vars
    BY DEF StateReads
  <2>. QED  BY <1>2, <1>4, <2>0, <2>1, RestrictIs
<1>7. w \in Reached(FullModel)
  BY <1>4, <1>5 DEF DepthSuffices
<1>8. IsTriggered(p, Whole(u), s, w)
  BY <1>1, <1>4, <1>5, <1>6 DEF IsTriggered
<1>. QED  BY <1>4, <1>5, <1>7, <1>8, TriggeredIs

\* What a slice makes of a leadsToWithin property, the model makes of it.
LEMMA LeadsLifts ==
  ASSUME Typed, Smooth, DepthSuffices, ValuesInDomain, NEW m, IsSlice(m), AllCut(m), KeepsOrHavocs(m),
         NEW p, IsProperty(p), p.kind = "leads", Verdict(p, m) = "violated"
  PROVE  Verdict(p, FullModel) = "violated"
<1>1. Compiles(p, m)
  BY DEF Verdict
<1>2. \E z \in Triggered(p, m) : z \in CanMiss(p, m, p.budget)
  BY <1>1 DEF Verdict
<1>3. PICK z \in Triggered(p, m) : z \in CanMiss(p, m, p.budget)
  BY <1>2
<1>4. StateReads(p) \subseteq m.vars /\ p.budget \in Nat
  BY <1>1 DEF Compiles, IsProperty
<1>5. PICK w \in Triggered(p, FullModel) : w \in Reached(FullModel) /\ z = Restrict(w, m.vars)
  BY <1>4, TriggersLift
<1>6. w \in CanMiss(p, FullModel, p.budget)
  BY <1>3, <1>4, <1>5, MissesLift
<1>7. Compiles(p, FullModel)
  BY FullCompiles
<1>. QED  BY <1>5, <1>6, <1>7 DEF Verdict

-----------------------------------------------------------------------------
(* The converse of what a closure promises: a pass that adds nothing has    *)
(* found every writer there is, and the slice has it.                      *)

Sought(p) ==
  LooksForWriters(p) =>
    /\ pc = "closure" /\ next > 0 /\ ~changed =>
         \A i \in 1..(next - 1) : Keeps(model[i], p) => model[i].id \in kept
    /\ pc = "finish" => \A t \in Range(model) : Keeps(t, p) => t.id \in kept

Seeking == pc \in {"closure", "finish"} => \A p : p = P => Sought(p)

LEMMA RequestSeeks ==
  ASSUME Typed, Typed', Request
  PROVE  Seeking'
<1>. SUFFICES ASSUME NEW CONSTANT p, p = P' PROVE Sought(p)'
  BY DEF Seeking
<1>1. /\ model' = model /\ P' = P /\ next' = 0 /\ ~(next' > 0)
      /\ pc' = (IF Mode(P) = "full" THEN "finish" ELSE "closure")
  BY DEF Request, P
<1>2. SameReads(p)
  BY <1>1, SameProperty
<1>3. pc' = (IF Mode(p) = "full" THEN "finish" ELSE "closure")
  BY <1>1
<1>4. LooksForWriters(p)' => Mode(p) # "full"
  BY <1>2 DEF LooksForWriters, SameReads
<1>. QED  BY <1>1, <1>3, <1>4 DEF Sought

LEMMA ExpandMountsSeeks ==
  ASSUME Typed, Typed', ExpandMounts
  PROVE  Seeking'
<1>. SUFFICES ASSUME NEW CONSTANT p, p = P', LooksForWriters(p)' PROVE Sought(p)'
  BY DEF Seeking, Sought
<1>1. /\ model' = model /\ P' = P /\ pc = "closure"
      /\ IF LooksForWriters(P) /\ model # <<>> THEN next' = 1 /\ pc' = pc ELSE next' = 0
  BY DEF ExpandMounts, P
<1>2. LooksForWriters(p)' = LooksForWriters(p) /\ P = p
  <2>1. SameReads(p)
    BY <1>1, SameProperty
  <2>. QED  BY <1>1, <2>1 DEF SameReads
<1>3. model = <<>> \/ (next' = 1 /\ pc' = "closure")
  BY <1>1, <1>2
<1>4. CASE model = <<>>
  <2>1. Range(model)' = {} /\ next' = 0
    <3>1. Range(<<>>) = {}
      BY DEF Range
    <3>2. Range(model)' = Range(model)
      BY <1>1, SameModel
    <3>. QED  BY <1>1, <1>4, <3>1, <3>2
  <2>2. ~(next' > 0)
    BY <2>1
  <2>. QED  BY <2>1, <2>2 DEF Sought
<1>5. CASE next' = 1 /\ pc' = "closure"
  <2>1. 1..(next' - 1) = {}
    BY <1>5
  <2>. QED  BY <1>5, <2>1 DEF Sought
<1>. QED  BY <1>3, <1>4, <1>5

LEMMA VisitSeeks ==
  ASSUME Typed, Typed', Seeking, Visit
  PROVE  Seeking'
<1>. SUFFICES ASSUME NEW CONSTANT p, p = P', LooksForWriters(p)' PROVE Sought(p)'
  BY DEF Seeking, Sought
<1>1. model' = model /\ P' = P /\ pc = "closure" /\ next > 0
  BY DEF Visit, P
<1>2. Sought(p) /\ P = p /\ LooksForWriters(p)
  <2>1. SameReads(p)
    BY <1>1, SameProperty
  <2>. QED  BY <1>1, <2>1 DEF SameReads, Seeking
<1>3. Len(model) \in Nat /\ next \in 1..Len(model) /\ DOMAIN model = 1..Len(model)
  BY <1>1, RequestTyped DEF Typed, TypeOK
<1>4. PICK t \in Range(model) : t = model[next]
  BY <1>3 DEF Range
<1>5. /\ kept' = (IF Keeps(t, p) THEN kept \union {t.id} ELSE kept)
      /\ needed' = (IF Keeps(t, p) THEN needed \union Inputs(t) ELSE needed)
      /\ changed' = (changed \/ (Keeps(t, p) /\ Adds(t)))
      /\ next' = Follow(next)
      /\ pc' = (IF next = Len(model) /\ ~changed' THEN "finish" ELSE pc)
  BY <1>2, <1>4 DEF Visit, Keeps
<1>6. ASSUME ~changed'
      PROVE  \A i \in 1..next : Keeps(model[i], p)' => model[i].id \in kept'
  <2>1. ~changed /\ (Keeps(t, p) => Inputs(t) \subseteq needed /\ t.id \in kept)
    BY <1>5, <1>6 DEF Adds
  <2>2. needed' = needed /\ kept' = kept
    BY <1>5, <2>1
  <2>3. \A i \in 1..(next - 1) : Keeps(model[i], p) => model[i].id \in kept
    BY <1>1, <1>2, <2>1 DEF Sought
  <2>4. \A i \in 1..next : i = next \/ i \in 1..(next - 1)
    BY <1>3
  <2>5. \A u \in Range(model) : Keeps(u, p)' = Keeps(u, p)
    BY <1>1, <2>2, KeepsSame
  <2>. SUFFICES ASSUME NEW i \in 1..next, Keeps(model[i], p)' PROVE model[i].id \in kept'
    OBVIOUS
  <2>6. PICK u \in Range(model) : u = model[i]
    BY <1>3 DEF Range
  <2>7. model[i]' = u
    BY <1>1, <2>6
  <2>8. Keeps(u, p)'
    BY <2>7
  <2>9. Keeps(u, p)
    BY <2>5, <2>8
  <2>10. CASE i = next
    BY <1>4, <2>1, <2>2, <2>6, <2>9, <2>10
  <2>11. CASE i \in 1..(next - 1)
    BY <2>2, <2>3, <2>6, <2>9, <2>11
  <2>. QED  BY <2>4, <2>10, <2>11
<1>7. ASSUME pc' = "closure", next' > 0, ~changed'
      PROVE  \A i \in 1..(next' - 1) : Keeps(model[i], p)' => model[i].id \in kept'
  <2>1. next' = next + 1
    BY <1>5, <1>7 DEF Follow
  <2>2. next' - 1 = next
    BY <1>3, <2>1
  <2>. QED  BY <1>6, <1>7, <2>2
<1>8. ASSUME pc' = "finish", NEW CONSTANT u \in Range(model), Keeps(u, p)'
      PROVE  u.id \in kept'
  <2>1. next = Len(model) /\ ~changed'
    BY <1>1, <1>5, <1>8
  <2>2. PICK i \in 1..next : u = model[i]
    BY <1>3, <2>1 DEF Range
  <2>3. model[i]' = u
    BY <1>1, <2>2
  <2>4. Keeps(model[i], p)'
    BY <1>8, <2>3
  <2>. QED  BY <1>6, <2>1, <2>2, <2>4
<1>9. Range(model)' = Range(model)
  BY <1>1, SameModel
<1>10. \A u \in Range(model)' : pc' = "finish" /\ Keeps(u, p)' => u.id \in kept'
  BY <1>8, <1>9
<1>11. pc' = "closure" /\ next' > 0 /\ ~changed' =>
         \A i \in 1..(next' - 1) : Keeps(model[i], p)' => model'[i].id \in kept'
  BY <1>1, <1>7
<1>. QED  BY <1>10, <1>11 DEF Sought

LEMMA NextSeeks == Typed /\ Typed' /\ Seeking /\ [Next]_vars => Seeking'
<1>. SUFFICES ASSUME Typed, Typed', Seeking, [Next]_vars PROVE Seeking'
  OBVIOUS
<1>1. CASE Request
  BY <1>1, RequestSeeks
<1>2. CASE ExpandMounts
  BY <1>2, ExpandMountsSeeks
<1>3. CASE Visit
  BY <1>3, VisitSeeks
<1>4. CASE Finish
  BY <1>4 DEF Finish, Seeking
<1>5. CASE CheckGroup \/ Merge
  BY <1>5 DEF CheckGroup, Merge, Seeking
<1>6. CASE UNCHANGED vars
  <2>1. model' = model /\ needed' = needed /\ kept' = kept /\ next' = next /\ changed' = changed
        /\ pc' = pc /\ P' = P
    BY <1>6 DEF vars, P
  <2>. SUFFICES ASSUME NEW CONSTANT p, p = P', pc \in {"closure", "finish"}, LooksForWriters(p)'
                PROVE  Sought(p)'
    BY <2>1 DEF Seeking, Sought
  <2>2. Sought(p) /\ LooksForWriters(p) /\ Range(model)' = Range(model)
    <3>1. SameReads(p)
      BY <2>1, SameProperty
    <3>. QED  BY <2>1, <3>1, SameModel DEF Seeking, SameReads
  <2>3. \A t \in Range(model) : Keeps(t, p)' => Keeps(t, p)
    BY <2>1, KeepsSame
  <2>4. ASSUME NEW i \in 1..(next - 1)
        PROVE  Keeps(model[i], p)' => Keeps(model[i], p)
    <3>1. i \in DOMAIN model
      BY RequestTyped DEF Typed, TypeOK
    <3>2. PICK t \in Range(model) : t = model[i]
      BY <3>1 DEF Range
    <3>3. model[i]' = t
      BY <2>1, <3>2
    <3>4. Keeps(t, p)' => Keeps(t, p)
      BY <2>3
    <3>5. Keeps(model[i], p)' = Keeps(t, p)'
      BY <3>3
    <3>. QED  BY <3>2, <3>4, <3>5
  <2>. QED  BY <2>1, <2>2, <2>3, <2>4 DEF Sought
<1>. QED  BY <1>1, <1>2, <1>3, <1>4, <1>5, <1>6 DEF Next

\* The slice of a property that takes no shortcut has every writer of its variables, but for
\* those that only havoc.
Complete(p, s) ==
  Mode(p) = "state" /\ ~Directional(p) /\ ObservedBy(p) \intersect Ids = {} =>
    \A u \in Range(model) :
       \/ Cut(u, s.vars) \in s.trans
       \/ Writes(u) \intersect s.vars = {}
       \/ \E v \in Vars : OnlyHavocs(u.effect, v)

Completed == \A k \in 1..(at - 1) : Complete(props[k], slices[k])

LEMMA SliceCompletes ==
  ASSUME Typed, Seeking, pc = "finish"
  PROVE  Complete(P, SliceOf(P))
<1>. DEFINE p == P
            s == SliceOf(p)
<1>. SUFFICES ASSUME Mode(p) = "state", ~Directional(p), ObservedBy(p) \intersect Ids = {},
                     NEW u \in Range(model), Writes(u) \intersect s.vars # {},
                     \A v \in Vars : ~OnlyHavocs(u.effect, v)
              PROVE  Cut(u, s.vars) \in s.trans
  BY DEF Complete
<1>1. ObservationOnly(p) = ObservedBy(p)
  BY DEF ObservationOnly
<1>2. ObservedVars(ObservationOnly(p)) = {}
  BY <1>1 DEF ObservedVars, MountReads
<1>3. s.vars = needed
  BY <1>2 DEF SliceOf
<1>4. IsTransition(u) /\ u.id \in Ids
  BY RequestTyped
<1>5. NeededWrites(u, p) = Writes(u) \intersect needed
  BY DEF NeededWrites
<1>6. Keeps(u, p)
  <2>. DEFINE W == NeededWrites(u, p)
  <2>1. W # {} /\ W \subseteq Vars
    BY <1>3, <1>4, <1>5, TransitionTyped
  <2>2. Clauses(p) = {}
    BY DEF Clauses
  <2>3. ~SkipsHavoc(u, W, p)
    BY <2>1 DEF SkipsHavoc
  <2>. QED  BY <2>1, <2>2, <2>3 DEF Keeps, Relevant
<1>7. u.id \in kept
  <2>1. LooksForWriters(p)
    BY DEF LooksForWriters
  <2>. QED  BY <1>6, <2>1 DEF Seeking, Sought
<1>8. Finalized(u, needed, p) = Cut(u, needed)
  <2>1. u.id \notin ObservationOnly(p)
    BY <1>1, <1>4
  <2>. HIDE DEF p
  <2>. QED  BY <1>4, <2>1, FinalizedIs
<1>9. Cut(u, needed).writes # {}
  BY <1>3 DEF Cut
<1>. QED  BY <1>2, <1>3, <1>7, <1>8, <1>9 DEF SliceOf

LEMMA NextCompletes == Typed /\ Typed' /\ Seeking /\ Completed /\ [Next]_vars => Completed'
<1>. SUFFICES ASSUME Typed, Typed', Seeking, Completed, [Next]_vars PROVE Completed'
  OBVIOUS
<1>1. model' = model /\ props' = props
  BY DEF Next, Request, ExpandMounts, Visit, Finish, CheckGroup, Merge, vars
<1>2. \A p, s : Complete(p, s)' = Complete(p, s)
  <2>1. Range(model)' = Range(model) /\ Ids' = Ids
    BY <1>1 DEF Range, Ids
  <2>. QED  BY <2>1 DEF Complete
<1>3. CASE UNCHANGED <<at, slices>>
  BY <1>1, <1>2, <1>3 DEF Completed
<1>4. CASE Finish
  <2>1. slices' = [slices EXCEPT ![at] = SliceOf(P)] /\ pc = "finish" /\ at' = at + 1
    BY <1>4 DEF Finish
  <2>2. at \in DOMAIN slices /\ at \in Nat /\ Len(props) \in Nat /\ DOMAIN slices = 1..Len(props)
        /\ at <= Len(props)
    BY <2>1, RequestTyped DEF Typed, TypeOK
  <2>. SUFFICES ASSUME NEW k \in 1..(at' - 1) PROVE Complete(props[k], slices'[k])
    BY <1>1, <1>2 DEF Completed
  <2>3. k = at \/ (k \in 1..(at - 1) /\ k # at)
    BY <2>1, <2>2
  <2>4. CASE k = at
    BY <2>1, <2>2, <2>4, SliceCompletes DEF P
  <2>5. CASE k \in 1..(at - 1) /\ k # at
    <3>1. k \in DOMAIN slices
      BY <2>2, <2>5
    <3>2. slices'[k] = slices[k]
      BY <2>1, <2>5, <3>1
    <3>. QED  BY <2>5, <3>2 DEF Completed
  <2>. QED  BY <2>3, <2>4, <2>5
<1>. QED  BY <1>3, <1>4 DEF Next, Request, ExpandMounts, Visit, CheckGroup, Merge, vars

LEMMA InitSeeks == Init => Seeking /\ Completed
<1>. SUFFICES ASSUME Init PROVE Seeking /\ Completed
  OBVIOUS
<1>1. pc = "request" /\ 1..(at - 1) = {}
  BY DEF Init
<1>. QED  BY <1>1 DEF Seeking, Completed

-----------------------------------------------------------------------------
(* The verdicts at the end, on slices and on the model.                    *)

\* The slice of a property the closure was computed for is one, and nothing is stripped in it
\* when the property observes nothing.
LEMMA SliceIs ==
  ASSUME Typed, Grouped, Compiled, NEW k \in 1..(at - 1), Mode(props[k]) # "full",
         ObservesItself(props[k])
  PROVE  /\ IsSlice(slices[k]) /\ CompilesWithReads(props[k], slices[k])
         /\ ObservedBy(props[k]) \intersect Ids = {} => AllCut(slices[k])
<1>. DEFINE p == props[k]
            m == slices[k]
            vs == m.vars
<1>1. k \in DOMAIN props /\ k \in DOMAIN slices
  BY RequestTyped DEF Typed, TypeOK
<1>2. Shape(p, m)
  BY DEF Grouped
<1>3. m.mode = Mode(p) /\ \A t \in m.trans : \E u \in Range(model) : t = Finalized(u, vs, p)
  BY <1>2 DEF Shape
<1>4. CompilesWithReads(p, m)
  <2>1. Mode(p) # "none"
    BY DEF Mode
  <2>2. m # NoSlice
    BY <1>3, <2>1 DEF NoSlice
  <2>. QED  BY <1>1, <2>2 DEF Compiled
<1>5. vs \subseteq Vars /\ MountReads(vs) \subseteq vs
  BY <1>1, <1>4 DEF Typed, TypeOK, CompilesWithReads, Compiles
<1>6. ASSUME NEW t \in m.trans
      PROVE  \E u \in Range(model) :
               /\ AtomVars(u.guard) \subseteq vs /\ u.id \in Ids
               /\ IF u.id \in ObservationOnly(p) THEN t = Stripped(u)
                  ELSE t = Cut(u, vs) /\ EffectReads(About(u.effect, vs)) \subseteq vs
  <2>1. PICK u \in Range(model) : t = Finalized(u, vs, p)
    BY <1>3
  <2>2. IsTransition(u) /\ u.id \in Ids
    BY RequestTyped
  <2>3. t = IF u.id \in ObservationOnly(p) THEN Stripped(u) ELSE Cut(u, vs)
    <3>. HIDE DEF p, vs
    <3>. QED  BY <2>1, <2>2, FinalizedIs
  <2>4. AtomVars(t.guard) \subseteq vs /\ EffectReads(t.effect) \subseteq vs
    BY <1>4 DEF CompilesWithReads, Compiles
  <2>5. CASE u.id \in ObservationOnly(p)
    <3>1. t = Stripped(u) /\ t.guard = u.guard
      BY <2>3, <2>5 DEF Stripped
    <3>. QED  BY <2>2, <2>4, <2>5, <3>1
  <2>6. CASE u.id \notin ObservationOnly(p)
    <3>1. t = Cut(u, vs) /\ t.guard = u.guard /\ t.effect = About(u.effect, vs)
      BY <2>3, <2>6 DEF Cut
    <3>. QED  BY <2>2, <2>4, <2>6, <3>1
  <2>. QED  BY <2>5, <2>6
<1>7. IsSlice(m)
  BY <1>5, <1>6 DEF IsSlice
<1>8. ObservedBy(p) \intersect Ids = {} => AllCut(m)
  <2>1. ObservationOnly(p) \subseteq ObservedBy(p)
    BY DEF ObservationOnly, ObservedBy
  <2>. QED  BY <1>6, <2>1 DEF AllCut
<1>. QED  BY <1>4, <1>7, <1>8

\* A verdict is that of the slice of some property with the same key.
LEMMA DoneTells ==
  ASSUME Typed, Grouped, Told, DistinctNames, pc = "done", NEW k \in DOMAIN props
  PROVE  /\ k \in 1..(at - 1) /\ 1..(at - 1) \subseteq DOMAIN props
         /\ \E j \in 1..(at - 1) : /\ Mode(props[j]) = Mode(props[k])
                                   /\ verdicts[k] = Verdict(props[k], slices[j])
<1>1. PICK g \in DOMAIN groups :
        k \in Range(groups[g].members) /\ verdicts[k] = Verdict(props[k], groups[g].slice)
  BY DEF Told
<1>2. IsGroup(groups[g], at - 1, slices) /\ 1..(at - 1) \subseteq DOMAIN props
  BY RequestTyped DEF Grouped, Typed, TypeOK
<1>3. PICK j \in 1..(at - 1) : groups[g].slice = slices[j]
  BY <1>2 DEF IsGroup
<1>4. Key(slices[k]) = Key(slices[j])
  BY <1>1, <1>2, <1>3 DEF IsGroup
<1>5. k \in 1..(at - 1)
  <2>. DEFINE n == at - 1
              q == groups[g].members
  <2>1. q \in Seq(1..n) /\ k \in Range(q)
    BY <1>1, <1>2 DEF IsGroup
  <2>. QED  BY <2>1, SeqElements
<1>6. slices[k].mode = slices[j].mode
  BY <1>4 DEF Key
<1>7. slices[k].mode = Mode(props[k]) /\ slices[j].mode = Mode(props[j])
  BY <1>5 DEF Grouped, Shape
<1>. QED  BY <1>1, <1>2, <1>3, <1>5, <1>6, <1>7

\* Shown and unseen are different, and neither is an error.
LEMMA ShownCompiles ==
  ASSUME NEW p, p.kind \in {"AG", "EF", "step"}, NEW m
  PROVE  /\ Verdict(p, m) = Shown(p) => Compiles(p, m) /\ Witness(p, m)
         /\ Compiles(p, m) /\ Witness(p, m) => Verdict(p, m) = Shown(p)
         /\ Compiles(p, m) /\ ~Witness(p, m) => Verdict(p, m) = Unseen(p)
BY VerdictShows DEF Shown, Unseen

\* A step property that is not checked on the full model either shares its slice with no
\* property that observes a transition, or asks that edges that change something do not happen.
StepsAreOwn ==
  \A k \in DOMAIN props :
     props[k].kind = "step" /\ Mode(props[k]) # "full" =>
        ~Observing(k) \/ (Mode(props[k]) = "state" /\ OnlyChangesCount(props[k]))

\* For leadsToWithin, the reference search has all states, and they are within the domains.
SearchIsWhole ==
  (\E k \in DOMAIN props : props[k].kind = "leads") => DepthSuffices /\ ValuesInDomain

LEMMA RealWitnesses ==
  ASSUME Typed, Grouped, Told, Compiled, Completed, DistinctNames, NoBranchBlocked, StepsAreOwn,
         SearchIsWhole
  PROVE  WitnessesAreReal
<1>. SUFFICES ASSUME pc = "done", NoSnapshots, NothingBlocked, NEW k \in DOMAIN props,
                     ~(props[k].kind = "leads" /\ Observing(k)), verdicts[k] = Shown(props[k])
              PROVE  Verdict(props[k], FullModel) = Shown(props[k])
  BY DEF WitnessesAreReal, Shown
<1>. DEFINE p == props[k]
<1>1. Smooth
  BY DEF Smooth
<1>2. IsProperty(p) /\ p.kind \in {"AG", "EF", "step", "leads"}
  BY RequestTyped DEF IsProperty
<1>3. k \in 1..(at - 1) /\ 1..(at - 1) \subseteq DOMAIN props
  BY DoneTells
<1>4. PICK j \in 1..(at - 1) : Mode(props[j]) = Mode(p) /\ verdicts[k] = Verdict(p, slices[j])
  BY DoneTells
<1>5. Compiles(p, FullModel)
  BY <1>2, FullCompiles
<1>6. ~Observing(k) => /\ ObservedBy(p) \intersect Ids = {} /\ ObservesItself(p)
                       /\ verdicts[k] = Verdict(p, slices[k])
  <2>1. OwnVerdicts
    BY Owned
  <2>2. ~Observing(k) => ObservedBy(p) \intersect Ids = {}
    BY DEF Observing
  <2>3. ObservationOnly(p) \subseteq ObservedBy(p)
    BY DEF ObservationOnly, ObservedBy
  <2>. QED  BY <2>1, <2>2, <2>3 DEF OwnVerdicts, ObservesItself
<1>7. CASE Mode(p) = "full"
  <2>1. slices[j] = FullModel
    BY <1>4, <1>7 DEF Grouped, Shape
  <2>. QED  BY <1>4, <2>1
<1>8. CASE p.kind = "leads"
  <2>1. DepthSuffices /\ ValuesInDomain /\ Mode(p) = "state" /\ ~Directional(p) /\ Shown(p) = "violated"
    BY <1>8 DEF SearchIsWhole, Mode, Directional, Shown
  <2>. DEFINE m == slices[k]
  <2>2. ObservedBy(p) \intersect Ids = {} /\ ObservesItself(p) /\ Verdict(p, m) = "violated"
    BY <1>6, <1>8, <2>1
  <2>3. IsSlice(m) /\ CompilesWithReads(p, m) /\ AllCut(m)
    BY <1>3, <2>1, <2>2, SliceIs
  <2>4. Complete(p, m)
    BY <1>3 DEF Completed
  <2>. HIDE DEF p, m
  <2>5. KeepsOrHavocs(m)
    <3>. SUFFICES ASSUME NEW u \in Range(model), Cut(u, m.vars) \in m.trans
                  PROVE  /\ AtomVars(u.guard) \subseteq m.vars
                         /\ EffectReads(About(u.effect, m.vars)) \subseteq m.vars
      BY <2>1, <2>2, <2>4 DEF Complete, KeepsOrHavocs
    <3>1. Cut(u, m.vars).guard = u.guard /\ Cut(u, m.vars).effect = About(u.effect, m.vars)
      BY DEF Cut
    <3>2. AtomVars(Cut(u, m.vars).guard) \subseteq m.vars /\ EffectReads(Cut(u, m.vars).effect) \subseteq m.vars
      BY <2>3 DEF CompilesWithReads, Compiles
    <3>. QED  BY <3>1, <3>2
  <2>6. Verdict(p, FullModel) = "violated"
    BY <1>1, <1>2, <1>8, <2>1, <2>2, <2>3, <2>5, LeadsLifts
  <2>. QED  BY <2>1, <2>6 DEF p
<1>9. CASE p.kind # "leads" /\ Mode(p) # "full"
  <2>1. PICK i \in 1..(at - 1) :
          /\ Verdict(p, slices[i]) = Shown(p) /\ Mode(props[i]) # "full" /\ ObservesItself(props[i])
          /\ p.kind = "step" => OnlyChangesCount(p) \/ ObservedBy(props[i]) \intersect Ids = {}
    <3>1. CASE p.kind = "step" /\ ~Observing(k)
      BY <1>3, <1>6, <1>9, <3>1
    <3>2. CASE p.kind = "step" /\ Observing(k)
      <4>1. Mode(p) = "state" /\ OnlyChangesCount(p)
        BY <1>9, <3>2 DEF StepsAreOwn
      <4>2. ObservesItself(props[j]) /\ Mode(props[j]) # "full"
        BY <1>4, <4>1 DEF ObservesItself
      <4>. QED  BY <1>4, <4>1, <4>2
    <3>3. CASE p.kind # "step"
      <4>1. Mode(p) = "state"
        BY <3>3 DEF Mode
      <4>2. ObservesItself(props[j]) /\ Mode(props[j]) # "full"
        BY <1>4, <4>1 DEF ObservesItself
      <4>. QED  BY <1>4, <3>3, <4>2
    <3>. QED  BY <3>1, <3>2, <3>3
  <2>. DEFINE m == slices[i]
  <2>2. IsSlice(m) /\ (ObservedBy(props[i]) \intersect Ids = {} => AllCut(m))
    BY <2>1, SliceIs
  <2>3. p.kind = "step" => AllCut(m) \/ OnlyChangesCount(p)
    BY <2>1, <2>2
  <2>. HIDE DEF p, m
  <2>4. p.kind \in {"AG", "EF", "step"}
    BY <1>2, <1>9
  <2>5. Compiles(p, m) /\ Witness(p, m)
    BY <2>1, <2>4, ShownCompiles DEF m
  <2>6. Witness(p, FullModel)
    BY <1>1, <2>2, <2>3, <2>5, WitnessLifts
  <2>. QED  BY <1>5, <2>4, <2>6, ShownCompiles DEF p
<1>. QED  BY <1>7, <1>8, <1>9

\* A step property that is not about one transition asks that edges that change something do
\* not happen.
StepsChange ==
  \A k \in DOMAIN props :
     props[k].kind = "step" /\ Mode(props[k]) = "state" => OnlyChangesCount(props[k])

LEMMA ConesAgree ==
  ASSUME Typed, Grouped, Told, Compiled, Completed, DistinctNames, NoBranchBlocked, StepsChange
  PROVE  FullConeAgrees
<1>. SUFFICES ASSUME pc = "done", NoSnapshots, NothingBlocked,
                     \A i \in DOMAIN model, v \in Vars : ~OnlyHavocs(model[i].effect, v),
                     NEW k \in DOMAIN props, Mode(props[k]) # "targetedStep",
                     ~Directional(props[k]), ~Observing(k), props[k].kind # "leads"
              PROVE  verdicts[k] = Verdict(props[k], FullModel)
  BY DEF FullConeAgrees
<1>. DEFINE p == props[k]
            m == slices[k]
<1>1. Smooth
  BY DEF Smooth
<1>2. IsProperty(p) /\ p.kind \in {"AG", "EF", "step"}
  BY RequestTyped DEF IsProperty
<1>3. k \in 1..(at - 1) /\ Shape(p, m)
  BY DoneTells DEF Grouped
<1>4. ObservedBy(p) \intersect Ids = {} /\ verdicts[k] = Verdict(p, m)
  <2>1. OwnVerdicts
    BY Owned
  <2>. QED  BY <2>1 DEF OwnVerdicts, Observing
<1>5. CASE Mode(p) = "full"
  BY <1>3, <1>4, <1>5 DEF Shape
<1>6. CASE Mode(p) # "full"
  <2>1. Mode(p) = "state" /\ ObservesItself(p)
    BY <1>6 DEF Mode, ObservesItself
  <2>2. IsSlice(m) /\ CompilesWithReads(p, m) /\ AllCut(m)
    BY <1>3, <1>4, <2>1, SliceIs
  <2>3. Complete(p, m) /\ ~Directional(p)
    BY <1>3 DEF Completed
  <2>4. p.kind = "step" => OnlyChangesCount(p)
    BY <2>1 DEF StepsChange
  <2>5. p.observed \intersect Ids = {}
    BY <1>4 DEF ObservedBy
  <2>6. \A u \in Range(model), v \in Vars : ~OnlyHavocs(u.effect, v)
    BY DEF Range
  <2>7. Compiles(p, m) /\ Compiles(p, FullModel)
    BY <1>2, <2>2, FullCompiles DEF CompilesWithReads
  <2>. HIDE DEF p, m
  <2>8. KeepsWriters(m)
    <3>. SUFFICES ASSUME NEW u \in Range(model), Cut(u, m.vars) \in m.trans
                  PROVE  /\ AtomVars(u.guard) \subseteq m.vars
                         /\ EffectReads(About(u.effect, m.vars)) \subseteq m.vars
      BY <1>4, <2>1, <2>3, <2>6 DEF Complete, KeepsWriters
    <3>1. Cut(u, m.vars).guard = u.guard /\ Cut(u, m.vars).effect = About(u.effect, m.vars)
      BY DEF Cut
    <3>2. AtomVars(Cut(u, m.vars).guard) \subseteq m.vars /\ EffectReads(Cut(u, m.vars).effect) \subseteq m.vars
      BY <2>2 DEF CompilesWithReads, Compiles
    <3>. QED  BY <3>1, <3>2
  <2>9. Witness(p, m) => Witness(p, FullModel)
    BY <1>1, <2>2, <2>7, WitnessLifts
  <2>10. Witness(p, FullModel) => Witness(p, m)
    BY <1>1, <2>2, <2>4, <2>5, <2>7, <2>8, WitnessProjects
  <2>11. Verdict(p, m) = Verdict(p, FullModel)
    BY <1>2, <2>7, <2>9, <2>10, ShownCompiles
  <2>. QED  BY <1>4, <2>11 DEF p
<1>. QED  BY <1>5, <1>6

\* What a verdict shows, a state that is reached, an edge that violates or steps that miss a
\* goal, is there in the full model, for all requests with names of their own where no branch of
\* an effect is blocked half-way; a step property may share its slice with an observing one only
\* if what the observed transitions do not do, change something, is what it asks about.
THEOREM WitnessesHold ==
  Spec => [](DistinctNames /\ NoBranchBlocked /\ StepsAreOwn /\ SearchIsWhole => WitnessesAreReal)
<1>1. Typed /\ Grouped /\ Told /\ Compiled /\ Completed =>
        (DistinctNames /\ NoBranchBlocked /\ StepsAreOwn /\ SearchIsWhole => WitnessesAreReal)
  BY RealWitnesses
<1>. QED
  BY <1>1, InitTyped, NextTyped, InitCompiled, NextCompiled, InitTells, NextTells, InitSeeks, NextSeeks,
     NextCompletes, PTL DEF Spec

\* Slicing on and off agree where no shortcut is taken, for all requests with names of their
\* own where no branch of an effect is blocked half-way and step properties ask for a change.
THEOREM FullConesAgree ==
  Spec => [](DistinctNames /\ NoBranchBlocked /\ StepsChange => FullConeAgrees)
<1>1. Typed /\ Grouped /\ Told /\ Compiled /\ Completed =>
        (DistinctNames /\ NoBranchBlocked /\ StepsChange => FullConeAgrees)
  BY ConesAgree
<1>. QED
  BY <1>1, InitTyped, NextTyped, InitCompiled, NextCompiled, InitTells, NextTells, InitSeeks, NextSeeks,
     NextCompletes, PTL DEF Spec
=============================================================================
