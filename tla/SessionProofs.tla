--------------------------- MODULE SessionProofs ---------------------------
(***************************************************************************)
(* What holds of a session for any number of requests and facts and any    *)
(* length of the journal.                                                  *)
(***************************************************************************)
EXTENDS SessionStore, RecursionLemmas, SequenceTheorems

-----------------------------------------------------------------------------
(* Operations on the content of an engine                                  *)

Below(c, d) ==
    /\ c.facts \subseteq d.facts /\ c.invalid \subseteq d.invalid
    /\ c.retracted \subseteq d.retracted /\ c.verified \subseteq d.verified

LEMMA KindOfMutation ==
    \A op \in Mutation : /\ op.kind \in {"assert", "invalidate", "retract", "verify"}
                         /\ op.kind \in Kinds /\ op.fact \in FactId
BY StoreAssumption DEF Mutation

LEMMA EmptyContent == Empty \in Content
BY DEF Empty, Content

LEMMA ApplyContent ==
    ASSUME NEW c \in Content, NEW op \in Mutation
    PROVE  Apply(c, op) \in Content
BY KindOfMutation DEF Apply, Content

(* An operation takes nothing away.                                        *)
LEMMA ApplyGrows ==
    ASSUME NEW c \in Content, NEW op \in Mutation
    PROVE  Below(c, Apply(c, op))
BY KindOfMutation DEF Apply, Below, Content

(* Nor does it do less where there is more.                                *)
LEMMA ApplyMonotone ==
    ASSUME NEW c \in Content, NEW d \in Content, Below(c, d), NEW op \in Mutation
    PROVE  Below(Apply(c, op), Apply(d, op))
<1>1. CASE ~ Accepts(c, op)
  <2>1. Below(d, Apply(d, op))
    BY ApplyGrows
  <2>2. Apply(c, op) = c
    BY <1>1 DEF Apply
  <2> QED
    BY <2>1, <2>2 DEF Below
<1>2. CASE Accepts(c, op)
  <2>1. Accepts(d, op)
    BY <1>2, KindOfMutation DEF Accepts, Below
  <2> QED
    BY <1>2, <2>1, KindOfMutation DEF Apply, Below, Content
<1> QED
  BY <1>1, <1>2

LEMMA ApplyReflects ==
    ASSUME NEW c \in Content, NEW op \in Mutation, Accepts(c, op)
    PROVE  Reflects(Apply(c, op), op)
BY KindOfMutation DEF Apply, Reflects, Content

LEMMA ReflectsBelow ==
    ASSUME NEW c, NEW d, Below(c, d), NEW op \in Mutation, Reflects(c, op)
    PROVE  Reflects(d, op)
BY KindOfMutation DEF Reflects, Below

-----------------------------------------------------------------------------
(* What the replay of a history computes                                   *)

Replays(c, h, f) ==
    /\ f \in [0..Len(h) -> Content]
    /\ f[0] = c
    /\ \A n \in 1..Len(h) : f[n] = Apply(f[n-1], h[n].op)

LEMMA EntryOfHistory ==
    ASSUME NEW h \in Seq(Entry), NEW n \in 1..Len(h)
    PROVE  h[n] \in Entry /\ h[n].op \in Mutation /\ h[n].ts \in Nat
<1>1. h[n] \in Entry
  BY ElementOfSeq
<1> QED
  BY <1>1 DEF Entry

LEMMA ReplaysExists ==
    ASSUME NEW c \in Content, NEW h \in Seq(Entry)
    PROVE  \E f : Replays(c, h, f)
<1> DEFINE k == Len(h)
           step == [n \in 1..k |-> [x \in Content |-> Apply(x, h[n].op)]]
<1>1. k \in Nat
  OBVIOUS
<1>2. step \in [1..k -> [Content -> Content]]
  BY EntryOfHistory, ApplyContent
<1>3. PICK f : Chains(Content, c, step, k, f)
  <2> HIDE DEF k, step
  <2> QED
    BY <1>1, <1>2, ChainExists
<1>4. f \in [0..k -> Content] /\ f[0] = c /\ \A n \in 1..k : f[n] = step[n][f[n-1]]
  <2> HIDE DEF step
  <2> QED
    BY <1>3 DEF Chains
<1>5. ASSUME NEW n \in 1..k PROVE f[n] = Apply(f[n-1], h[n].op)
  <2>1. f[n-1] \in Content
    BY <1>1, <1>4
  <2> QED
    BY <1>4, <2>1
<1> QED
  BY <1>4, <1>5 DEF Replays

LEMMA ReplayIs ==
    ASSUME NEW c \in Content, NEW h \in Seq(Entry), NEW f, Replays(c, h, f)
    PROVE  Replay(c, h) = f[Len(h)]
<1> DEFINE k == Len(h)
<1>1. k \in Nat
  OBVIOUS
<1>2. /\ f \in [0..k -> Content] /\ f[0] = c
      /\ \A n \in 1..k : f[n] = Apply(f[n-1], h[n].op)
  BY DEF Replays
<1> HIDE DEF k
<1>3. f = [n \in 0..k |-> IF n = 0 THEN c ELSE Apply(f[n-1], h[n].op)]
  <2>1. \A n \in 0..k : f[n] = IF n = 0 THEN c ELSE Apply(f[n-1], h[n].op)
    BY <1>1, <1>2
  <2> QED
    BY <2>1, <1>2
<1> DEFINE run[n \in 0 .. k] == IF n = 0 THEN c ELSE Apply(run[n - 1], h[n].op)
<1>4. run = [n \in 0..k |-> IF n = 0 THEN c ELSE Apply(run[n-1], h[n].op)]
  BY <1>3
<1>5. Replay(c, h) = run[k]
  BY DEF Replay, k
<1> HIDE DEF run
<1>6. run[0] = c /\ \A n \in 1..k : run[n] = Apply(run[n-1], h[n].op)
  BY <1>1, <1>4
<1> DEFINE T == {n \in 0..k : run[n] # f[n]}
<1>7. T = {}
  <2> SUFFICES ASSUME T # {} PROVE FALSE
    OBVIOUS
  <2>1. T \in SUBSET Nat
    BY <1>1
  <2>2. PICK m \in T : \A n \in T : m <= n
    <3> HIDE DEF T
    <3> QED
      BY <2>1, LeastNatural
  <2>3. m \in 0..k /\ run[m] # f[m] /\ m # 0
    BY <2>2, <1>2, <1>6
  <2>4. m \in 1..k /\ m - 1 \in 0..k /\ ~ (m <= m - 1)
    BY <2>3, <1>1
  <2>5. m - 1 \notin T
    <3> HIDE DEF T
    <3> QED
      BY <2>2, <2>4
  <2>6. run[m - 1] = f[m - 1]
    BY <2>4, <2>5
  <2> QED
    BY <2>3, <2>4, <2>6, <1>2, <1>6
<1>8. k \in 0..k
  BY <1>1
<1>9. run[k] = f[k]
  BY <1>7, <1>8
<1> QED
  BY <1>5, <1>9 DEF k

LEMMA ReplayContent ==
    ASSUME NEW c \in Content, NEW h \in Seq(Entry)
    PROVE  Replay(c, h) \in Content
<1>1. PICK f : Replays(c, h, f)
  BY ReplaysExists
<1>2. Replay(c, h) = f[Len(h)] /\ Len(h) \in 0..Len(h)
  BY <1>1, ReplayIs
<1> QED
  BY <1>1, <1>2 DEF Replays

LEMMA ReplayEmpty ==
    ASSUME NEW c \in Content
    PROVE  Replay(c, <<>>) = c
<1>1. <<>> \in Seq(Entry) /\ Len(<<>>) = 0
  OBVIOUS
<1>2. PICK f : Replays(c, <<>>, f)
  BY <1>1, ReplaysExists
<1>3. Replay(c, <<>>) = f[0]
  BY <1>1, <1>2, ReplayIs
<1> QED
  BY <1>2, <1>3 DEF Replays

(* A history with its first entries only replays to an earlier content.    *)
LEMMA ReplayPrefix ==
    ASSUME NEW c \in Content, NEW h \in Seq(Entry), NEW f, Replays(c, h, f),
           NEW p \in Seq(Entry), Len(p) <= Len(h), \A n \in 1..Len(p) : p[n] = h[n]
    PROVE  Replay(c, p) = f[Len(p)]
<1> DEFINE k == Len(p)
           g == [n \in 0..k |-> f[n]]
<1>1. k \in Nat /\ Len(h) \in Nat /\ k <= Len(h)
  OBVIOUS
<1>2. /\ f \in [0..Len(h) -> Content] /\ f[0] = c
      /\ \A n \in 1..Len(h) : f[n] = Apply(f[n-1], h[n].op)
  BY DEF Replays
<1>3. g \in [0..k -> Content] /\ g[0] = c
  BY <1>1, <1>2
<1>4. ASSUME NEW n \in 1..k PROVE g[n] = Apply(g[n-1], p[n].op)
  <2>1. n \in 1..Len(h) /\ n \in 0..k /\ n - 1 \in 0..k /\ p[n] = h[n]
    BY <1>1
  <2>2. g[n] = f[n] /\ g[n-1] = f[n-1]
    BY <2>1
  <2> QED
    BY <2>1, <2>2, <1>2
<1>5. Replays(c, p, g)
  <2> HIDE DEF g
  <2> QED
    BY <1>3, <1>4 DEF Replays
<1>6. Replay(c, p) = g[k]
  BY <1>5, ReplayIs
<1>7. k \in 0..k
  BY <1>1
<1> QED
  BY <1>6, <1>7

(* An entry more is an operation more.                                     *)
LEMMA ReplayAppend ==
    ASSUME NEW c \in Content, NEW h \in Seq(Entry), NEW e \in Entry
    PROVE  Replay(c, Append(h, e)) = Apply(Replay(c, h), e.op)
<1> DEFINE a == Append(h, e)
<1>1. /\ a \in Seq(Entry) /\ Len(a) = Len(h) + 1 /\ Len(h) \in Nat
      /\ a[Len(a)] = e /\ \A n \in 1..Len(h) : a[n] = h[n]
  BY AppendProperties
<1> HIDE DEF a
<1>2. PICK f : Replays(c, a, f)
  BY <1>1, ReplaysExists
<1>3. Replay(c, a) = f[Len(a)]
  BY <1>1, <1>2, ReplayIs
<1>4. Replay(c, h) = f[Len(h)]
  BY <1>1, <1>2, ReplayPrefix
<1>5. Len(a) \in 1..Len(a) /\ Len(a) - 1 = Len(h)
  BY <1>1
<1>6. f[Len(a)] = Apply(f[Len(a) - 1], a[Len(a)].op)
  BY <1>2, <1>5 DEF Replays
<1>7. Replay(c, a) = Apply(Replay(c, h), e.op)
  BY <1>1, <1>3, <1>4, <1>5, <1>6
<1> QED
  BY <1>7 DEF a

(* A replay takes nothing away.                                            *)
LEMMA ReplayGrows ==
    ASSUME NEW c \in Content, NEW h \in Seq(Entry)
    PROVE  Below(c, Replay(c, h))
<1>1. PICK f : Replays(c, h, f)
  BY ReplaysExists
<1> DEFINE k == Len(h)
           T == {n \in 0..k : ~ Below(c, f[n])}
<1>2. /\ k \in Nat /\ f \in [0..k -> Content] /\ f[0] = c
      /\ \A n \in 1..k : f[n] = Apply(f[n-1], h[n].op) /\ h[n].op \in Mutation
  BY <1>1, EntryOfHistory DEF Replays
<1> HIDE DEF k
<1>3. T = {}
  <2> SUFFICES ASSUME T # {} PROVE FALSE
    OBVIOUS
  <2>1. T \in SUBSET Nat
    BY <1>2
  <2>2. PICK m \in T : \A n \in T : m <= n
    <3> HIDE DEF T
    <3> QED
      BY <2>1, LeastNatural
  <2>3. m \in 0..k /\ ~ Below(c, f[m])
    BY <2>2
  <2>4. m # 0
    BY <2>3, <1>2 DEF Below
  <2>5. m \in 1..k /\ m - 1 \in 0..k /\ ~ (m <= m - 1)
    BY <2>3, <2>4, <1>2
  <2>6. m - 1 \notin T
    <3> HIDE DEF T
    <3> QED
      BY <2>2, <2>5
  <2>7. Below(c, f[m - 1])
    BY <2>5, <2>6
  <2>8. Below(f[m - 1], f[m])
    <3>1. f[m - 1] \in Content /\ f[m] = Apply(f[m - 1], h[m].op) /\ h[m].op \in Mutation
      BY <2>5, <1>2
    <3> QED
      BY <3>1, ApplyGrows
  <2> QED
    BY <2>3, <2>7, <2>8 DEF Below
<1>4. Below(c, f[k])
  <2>1. k \in 0..k
    BY <1>2
  <2> QED
    BY <2>1, <1>3
<1> QED
  BY <1>1, <1>4, ReplayIs DEF k

(* A replay that starts with more ends with more.                          *)
LEMMA ReplayMonotone ==
    ASSUME NEW c \in Content, NEW d \in Content, Below(c, d), NEW h \in Seq(Entry)
    PROVE  Below(Replay(c, h), Replay(d, h))
<1>1. PICK f : Replays(c, h, f)
  BY ReplaysExists
<1>2. PICK g : Replays(d, h, g)
  BY ReplaysExists
<1> DEFINE k == Len(h)
           T == {n \in 0..k : Below(f[n], g[n])}
<1>3. /\ k \in Nat /\ f \in [0..k -> Content] /\ f[0] = c
      /\ g \in [0..k -> Content] /\ g[0] = d
      /\ \A n \in 1..k : /\ f[n] = Apply(f[n-1], h[n].op) /\ h[n].op \in Mutation
                         /\ g[n] = Apply(g[n-1], h[n].op)
  BY <1>1, <1>2, EntryOfHistory DEF Replays
<1>4. Replay(c, h) = f[k] /\ Replay(d, h) = g[k]
  BY <1>1, <1>2, ReplayIs
<1> HIDE DEF k
<1>5. 0 \in T
  BY <1>3
<1>6. ASSUME NEW n \in 1..k, n - 1 \in T PROVE n \in T
  <2>1. n - 1 \in 0..k /\ n \in 0..k /\ Below(f[n-1], g[n-1])
    BY <1>3, <1>6
  <2>2. f[n-1] \in Content /\ g[n-1] \in Content
    BY <1>3, <2>1
  <2>3. Below(f[n], g[n])
    BY <1>3, <2>1, <2>2, ApplyMonotone
  <2> QED
    BY <2>1, <2>3
<1>7. k \in T
  <2>1. k \in 0..k
    BY <1>3
  <2> HIDE DEF T
  <2> QED
    BY <1>3, <1>5, <1>6, <2>1, Climb
<1> QED
  BY <1>4, <1>7

(* The first entry of a history is applied first.                          *)
LEMMA ReplayHead ==
    ASSUME NEW c \in Content, NEW h \in Seq(Entry), h # <<>>
    PROVE  Replay(Apply(c, Head(h).op), Tail(h)) = Replay(c, h)
<1> DEFINE k == Len(h)
<1>1. /\ k \in Nat /\ k # 0 /\ Tail(h) \in Seq(Entry) /\ Len(Tail(h)) = k - 1
      /\ Head(h) = h[1] /\ \A n \in 1..k-1 : Tail(h)[n] = h[n+1]
  BY HeadTailProperties
<1>2. PICK f : Replays(c, h, f)
  BY ReplaysExists
<1>3. /\ f \in [0..k -> Content] /\ f[0] = c
      /\ \A n \in 1..k : f[n] = Apply(f[n-1], h[n].op)
  BY <1>2 DEF Replays
<1>4. Replay(c, h) = f[k]
  BY <1>2, ReplayIs
<1> DEFINE g == [n \in 0..k-1 |-> f[n+1]]
           d == Apply(c, Head(h).op)
           t == Tail(h)
<1> HIDE DEF k
<1>5. g \in [0..k-1 -> Content] /\ g[0] = d
  BY <1>1, <1>3
<1>6. ASSUME NEW n \in 1..k-1 PROVE g[n] = Apply(g[n-1], t[n].op)
  <2>1. g[n] = f[n+1] /\ g[n-1] = f[n] /\ n + 1 \in 1..k /\ t[n] = h[n+1]
    BY <1>1
  <2>2. f[n+1] = Apply(f[(n+1)-1], h[n+1].op) /\ (n+1)-1 = n
    BY <1>3, <2>1
  <2> QED
    BY <2>1, <2>2
<1>7. d \in Content
  <2>1. 0 \in 0..k-1
    BY <1>1
  <2> QED
    BY <1>5, <2>1
<1>8. t \in Seq(Entry) /\ Len(t) = k - 1
  BY <1>1
<1>9. g[k-1] = f[k]
  BY <1>1
<1> HIDE DEF g, d, t
<1>10. Replays(d, t, g)
  BY <1>5, <1>6, <1>8 DEF Replays
<1>11. Replay(d, t) = g[k-1]
  BY <1>7, <1>8, <1>10, ReplayIs
<1> QED
  BY <1>4, <1>9, <1>11 DEF d, t

-----------------------------------------------------------------------------
(* The later entries of a history                                          *)

Keeps(h, ts, f) ==
    /\ f \in [0..Len(h) -> Seq(Entry)]
    /\ f[0] = <<>>
    /\ \A n \in 1..Len(h) :
          f[n] = IF h[n].ts >= ts THEN Append(f[n-1], h[n]) ELSE f[n-1]

LEMMA KeepsExists ==
    ASSUME NEW h \in Seq(Entry), NEW ts \in Nat
    PROVE  \E f : Keeps(h, ts, f)
<1> DEFINE k == Len(h)
           step == [n \in 1..k |-> [x \in Seq(Entry) |->
                       IF h[n].ts >= ts THEN Append(x, h[n]) ELSE x]]
<1>1. k \in Nat /\ <<>> \in Seq(Entry)
  OBVIOUS
<1>2. step \in [1..k -> [Seq(Entry) -> Seq(Entry)]]
  <2>1. \A n \in 1..k, x \in Seq(Entry) : Append(x, h[n]) \in Seq(Entry)
    BY EntryOfHistory, AppendProperties
  <2> QED
    BY <2>1
<1>3. PICK f : Chains(Seq(Entry), <<>>, step, k, f)
  <2> HIDE DEF k, step
  <2> QED
    BY <1>1, <1>2, ChainExists
<1>4. f \in [0..k -> Seq(Entry)] /\ f[0] = <<>> /\ \A n \in 1..k : f[n] = step[n][f[n-1]]
  <2> HIDE DEF step
  <2> QED
    BY <1>3 DEF Chains
<1>5. ASSUME NEW n \in 1..k
      PROVE  f[n] = IF h[n].ts >= ts THEN Append(f[n-1], h[n]) ELSE f[n-1]
  <2>1. f[n-1] \in Seq(Entry)
    BY <1>1, <1>4
  <2> QED
    BY <1>4, <2>1
<1> QED
  BY <1>4, <1>5 DEF Keeps

LEMMA EntriesAre ==
    ASSUME NEW h \in Seq(Entry), NEW ts \in Nat, NEW f, Keeps(h, ts, f)
    PROVE  EntriesFrom(h, ts) = f[Len(h)]
<1> DEFINE k == Len(h)
<1>1. k \in Nat
  OBVIOUS
<1>2. /\ f \in [0..k -> Seq(Entry)] /\ f[0] = <<>>
      /\ \A n \in 1..k : f[n] = IF h[n].ts >= ts THEN Append(f[n-1], h[n]) ELSE f[n-1]
  BY DEF Keeps
<1> HIDE DEF k
<1>3. f = [n \in 0..k |-> IF n = 0 THEN <<>>
                          ELSE IF h[n].ts >= ts THEN Append(f[n-1], h[n]) ELSE f[n-1]]
  <2>1. \A n \in 0..k : f[n] = IF n = 0 THEN <<>>
                          ELSE IF h[n].ts >= ts THEN Append(f[n-1], h[n]) ELSE f[n-1]
    <3> TAKE n \in 0..k
    <3>1. n = 0 \/ n \in 1..k
      BY <1>1
    <3>2. n \in 1..k => n # 0
      OBVIOUS
    <3> QED
      BY <3>1, <3>2, <1>2, Zenon
  <2> QED
    BY <2>1, <1>2
<1> DEFINE kept[n \in 0 .. k] == IF n = 0 THEN <<>>
                                 ELSE IF h[n].ts >= ts THEN Append(kept[n-1], h[n])
                                 ELSE kept[n-1]
<1>4. kept = [n \in 0..k |-> IF n = 0 THEN <<>>
                             ELSE IF h[n].ts >= ts THEN Append(kept[n-1], h[n]) ELSE kept[n-1]]
  BY <1>3
<1>5. EntriesFrom(h, ts) = kept[k]
  BY DEF EntriesFrom, k
<1> HIDE DEF kept
<1>6. /\ kept[0] = <<>>
      /\ \A n \in 1..k : kept[n] = IF h[n].ts >= ts THEN Append(kept[n-1], h[n]) ELSE kept[n-1]
  <2>1. 0 \in 0..k /\ \A n \in 1..k : n \in 0..k /\ n # 0
    BY <1>1
  <2>2. \A n \in 0..k : kept[n] = IF n = 0 THEN <<>>
                             ELSE IF h[n].ts >= ts THEN Append(kept[n-1], h[n]) ELSE kept[n-1]
    BY <1>4, Zenon
  <2> QED
    BY <2>1, <2>2, Zenon
<1> DEFINE T == {n \in 0..k : kept[n] # f[n]}
<1>7. T = {}
  <2> SUFFICES ASSUME T # {} PROVE FALSE
    OBVIOUS
  <2>1. T \in SUBSET Nat
    BY <1>1
  <2>2. PICK m \in T : \A n \in T : m <= n
    <3> HIDE DEF T
    <3> QED
      BY <2>1, LeastNatural
  <2>3. m \in 0..k /\ kept[m] # f[m] /\ m # 0
    BY <2>2, <1>2, <1>6
  <2>4. m \in 1..k /\ m - 1 \in 0..k /\ ~ (m <= m - 1)
    BY <2>3, <1>1
  <2>5. m - 1 \notin T
    <3> HIDE DEF T
    <3> QED
      BY <2>2, <2>4
  <2>6. kept[m - 1] = f[m - 1]
    BY <2>4, <2>5
  <2> QED
    BY <2>3, <2>4, <2>6, <1>2, <1>6
<1>8. kept[k] = f[k]
  <2>1. k \in 0..k
    BY <1>1
  <2> QED
    BY <1>7, <2>1
<1> QED
  BY <1>5, <1>8 DEF k

LEMMA EntriesType ==
    ASSUME NEW h \in Seq(Entry), NEW ts \in Nat
    PROVE  EntriesFrom(h, ts) \in Seq(Entry)
<1>1. PICK f : Keeps(h, ts, f)
  BY KeepsExists
<1>2. EntriesFrom(h, ts) = f[Len(h)] /\ Len(h) \in 0..Len(h)
  BY <1>1, EntriesAre
<1> QED
  BY <1>1, <1>2 DEF Keeps

LEMMA EntriesOfEmpty ==
    ASSUME NEW ts \in Nat
    PROVE  EntriesFrom(<<>>, ts) = <<>>
<1>1. <<>> \in Seq(Entry) /\ Len(<<>>) = 0
  OBVIOUS
<1>2. PICK f : Keeps(<<>>, ts, f)
  BY <1>1, KeepsExists
<1>3. EntriesFrom(<<>>, ts) = f[0]
  BY <1>1, <1>2, EntriesAre
<1> QED
  BY <1>2, <1>3 DEF Keeps

LEMMA EntriesOfPrefix ==
    ASSUME NEW h \in Seq(Entry), NEW ts \in Nat, NEW f, Keeps(h, ts, f),
           NEW p \in Seq(Entry), Len(p) <= Len(h), \A n \in 1..Len(p) : p[n] = h[n]
    PROVE  EntriesFrom(p, ts) = f[Len(p)]
<1> DEFINE k == Len(p)
           g == [n \in 0..k |-> f[n]]
<1>1. k \in Nat /\ Len(h) \in Nat /\ k <= Len(h)
  OBVIOUS
<1>2. /\ f \in [0..Len(h) -> Seq(Entry)] /\ f[0] = <<>>
      /\ \A n \in 1..Len(h) :
            f[n] = IF h[n].ts >= ts THEN Append(f[n-1], h[n]) ELSE f[n-1]
  BY DEF Keeps
<1>3. g \in [0..k -> Seq(Entry)] /\ g[0] = <<>>
  BY <1>1, <1>2
<1>4. ASSUME NEW n \in 1..k
      PROVE  g[n] = IF p[n].ts >= ts THEN Append(g[n-1], p[n]) ELSE g[n-1]
  <2>1. n \in 1..Len(h) /\ n \in 0..k /\ n - 1 \in 0..k /\ p[n] = h[n]
    BY <1>1
  <2>2. g[n] = f[n] /\ g[n-1] = f[n-1]
    BY <2>1
  <2> HIDE DEF g
  <2> QED
    BY <2>1, <2>2, <1>2
<1>5. Keeps(p, ts, g)
  <2> HIDE DEF g
  <2> QED
    BY <1>3, <1>4 DEF Keeps
<1>6. EntriesFrom(p, ts) = g[k]
  BY <1>5, EntriesAre
<1>7. k \in 0..k
  BY <1>1
<1> QED
  BY <1>6, <1>7

LEMMA EntriesAppend ==
    ASSUME NEW h \in Seq(Entry), NEW e \in Entry, NEW ts \in Nat
    PROVE  EntriesFrom(Append(h, e), ts)
              = IF e.ts >= ts THEN Append(EntriesFrom(h, ts), e) ELSE EntriesFrom(h, ts)
<1> DEFINE a == Append(h, e)
<1>1. /\ a \in Seq(Entry) /\ Len(a) = Len(h) + 1 /\ Len(h) \in Nat
      /\ a[Len(a)] = e /\ \A n \in 1..Len(h) : a[n] = h[n]
  BY AppendProperties
<1> HIDE DEF a
<1>2. PICK f : Keeps(a, ts, f)
  BY <1>1, KeepsExists
<1>3. EntriesFrom(a, ts) = f[Len(a)]
  BY <1>1, <1>2, EntriesAre
<1>4. EntriesFrom(h, ts) = f[Len(h)]
  BY <1>1, <1>2, EntriesOfPrefix
<1>5. Len(a) \in 1..Len(a) /\ Len(a) - 1 = Len(h)
  BY <1>1
<1>6. f[Len(a)] = IF e.ts >= ts THEN Append(f[Len(a) - 1], e) ELSE f[Len(a) - 1]
  BY <1>1, <1>2, <1>5 DEF Keeps
<1>7. EntriesFrom(a, ts)
         = IF e.ts >= ts THEN Append(EntriesFrom(h, ts), e) ELSE EntriesFrom(h, ts)
  BY <1>3, <1>4, <1>5, <1>6
<1> QED
  BY <1>7 DEF a

(* What was dropped before s is not missed after t.                        *)
LEMMA EntriesTwice ==
    ASSUME NEW h \in Seq(Entry), NEW s \in Nat, NEW t \in Nat, s <= t
    PROVE  EntriesFrom(EntriesFrom(h, s), t) = EntriesFrom(h, t)
<1>1. PICK f : Keeps(h, s, f)
  BY KeepsExists
<1>2. PICK g : Keeps(h, t, g)
  BY KeepsExists
<1> DEFINE k == Len(h)
           T == {n \in 0..k : EntriesFrom(f[n], t) # g[n]}
<1>3. /\ k \in Nat /\ f \in [0..k -> Seq(Entry)] /\ f[0] = <<>> /\ g[0] = <<>>
      /\ \A n \in 1..k : /\ h[n] \in Entry /\ h[n].ts \in Nat
                         /\ f[n] = IF h[n].ts >= s THEN Append(f[n-1], h[n]) ELSE f[n-1]
                         /\ g[n] = IF h[n].ts >= t THEN Append(g[n-1], h[n]) ELSE g[n-1]
  BY <1>1, <1>2, EntryOfHistory DEF Keeps
<1> HIDE DEF k
<1>4. T = {}
  <2> SUFFICES ASSUME T # {} PROVE FALSE
    OBVIOUS
  <2>1. T \in SUBSET Nat
    BY <1>3
  <2>2. PICK m \in T : \A n \in T : m <= n
    <3> HIDE DEF T
    <3> QED
      BY <2>1, LeastNatural
  <2>3. m \in 0..k /\ EntriesFrom(f[m], t) # g[m]
    BY <2>2
  <2>4. m # 0
    BY <2>3, <1>3, EntriesOfEmpty
  <2>5. m \in 1..k /\ m - 1 \in 0..k /\ ~ (m <= m - 1)
    BY <2>3, <2>4, <1>3
  <2>6. m - 1 \notin T
    <3> HIDE DEF T
    <3> QED
      BY <2>2, <2>5
  <2>7. EntriesFrom(f[m - 1], t) = g[m - 1]
    BY <2>5, <2>6
  <2>8. f[m - 1] \in Seq(Entry) /\ h[m] \in Entry /\ h[m].ts \in Nat
    BY <2>5, <1>3
  <2>9. EntriesFrom(Append(f[m-1], h[m]), t)
           = IF h[m].ts >= t THEN Append(g[m-1], h[m]) ELSE g[m-1]
    BY <2>7, <2>8, EntriesAppend
  <2>10. CASE h[m].ts >= s
    BY <2>10, <2>3, <2>5, <2>9, <1>3
  <2>11. CASE ~ (h[m].ts >= s)
    <3>1. ~ (h[m].ts >= t)
      BY <2>11, <2>8
    <3> QED
      BY <2>11, <3>1, <2>3, <2>5, <2>7, <1>3
  <2> QED
    BY <2>10, <2>11
<1>5. EntriesFrom(f[k], t) = g[k]
  <2>1. k \in 0..k
    BY <1>3
  <2> QED
    BY <2>1, <1>4
<1> QED
  BY <1>1, <1>2, <1>5, EntriesAre DEF k

-----------------------------------------------------------------------------
(* Type correctness                                                        *)

(* The local variables of a handler at each of its steps.                  *)
Shape(h) ==
    /\ h.pc = "idle" => h = Idle
    /\ h.pc # "idle" => h.op \in Op
    /\ h.pc \in {"idle", "loading"} <=> h.eng = None
    /\ h.pc \in {"applied", "journaled", "acked"} => h.op \in Mutation
    /\ h.pc = "applied" => h.op.kind \in {"assert", "verify"}
    /\ h.pc = "journaled" => h.op.kind \in {"invalidate", "retract"}
    /\ h.pc \in {"cleared", "replaying"} => h.op.kind = "revalidate"

TypeInv == TypeOK /\ \A r \in Request : Shape(req[r])

LEMMA OpsAndMutations ==
    /\ Mutation \subseteq Op
    /\ \A op \in Op : op.kind # "revalidate" => op \in Mutation
    /\ \A op \in Op : op.kind \in Kinds
    /\ \A op \in Mutation : op.kind # "revalidate"
BY KindOfMutation DEF Op, Mutation

LEMMA IdleHandler == Idle \in Handler /\ Shape(Idle)
BY EmptySeq DEF Idle, Handler, Shape

(* One handler moves on.                                                   *)
LEMMA HandlerMoves ==
    ASSUME req \in [Request -> Handler], \A q \in Request : Shape(req[q]),
           NEW r \in Request, NEW h \in Handler, Shape(h),
           req' = [req EXCEPT ![r] = h]
    PROVE  req' \in [Request -> Handler] /\ \A q \in Request : Shape(req'[q])
BY DEF TypeOK

(* The steps that change one handler's program counter and nothing else.   *)
LEMMA PcMoves ==
    ASSUME NEW h \in Handler, Shape(h), h.pc # "idle",
           NEW pc \in {"loaded", "applied", "journaled", "acked", "cleared"},
           pc \in {"applied", "journaled", "acked"} => h.op \in Mutation,
           pc = "applied" => h.op.kind \in {"assert", "verify"},
           pc = "journaled" => h.op.kind \in {"invalidate", "retract"},
           pc = "cleared" => h.op.kind = "revalidate",
           h.eng # None
    PROVE  [h EXCEPT !.pc = pc] \in Handler /\ Shape([h EXCEPT !.pc = pc])
BY DEF Handler, Shape

(* A finite set has no more images than elements.                          *)
LEMMA ImageBound ==
    ASSUME NEW S, IsFiniteSet(S), NEW f, DOMAIN f = S, f = [x \in S |-> f[x]]
    PROVE  /\ IsFiniteSet({f[x] : x \in S})
           /\ Cardinality({f[x] : x \in S}) <= Cardinality(S)
<1>1. f \in Surjection(S, {f[x] : x \in S})
  BY DEF Surjection
<1> QED
  BY <1>1, FS_Surjection

(* There are engines enough: one for the cache, one for every other        *)
(* request and one for every goroutine.                                    *)
LEMMA FreeEngine ==
    ASSUME TypeInv, NEW r \in Request, req[r].pc = "loading"
    PROVE  \E e \in EngineId : e \notin InUse
<1> DEFINE n == Cardinality(Request)
           A == {req[q].eng : q \in Request \ {r}}
           C == {cache.eng : x \in {cache} \ {None}}
           W == {writer[q].eng : q \in {p \in Request : writer[p] # None}}
<1> SUFFICES ASSUME EngineId \subseteq InUse PROVE FALSE
  OBVIOUS
<1>1. IsFiniteSet(Request) /\ n \in Nat
  BY StoreAssumption, FS_CardinalityType
<1>2. IsFiniteSet(Request \ {r}) /\ Cardinality(Request \ {r}) = n - 1
  BY <1>1, FS_RemoveElement
<1>3. IsFiniteSet(A) /\ Cardinality(A) <= n - 1
  <2> DEFINE R == Request \ {r}
             f == [q \in R |-> req[q].eng]
  <2>1. DOMAIN f = R /\ f = [x \in R |-> f[x]] /\ A = {f[x] : x \in R}
    OBVIOUS
  <2> HIDE DEF f, A
  <2>2. IsFiniteSet(A) /\ Cardinality(A) <= Cardinality(R)
    BY <1>2, <2>1, ImageBound
  <2> QED
    BY <1>2, <2>2
<1>4. IsFiniteSet(C) /\ Cardinality(C) <= 1
  <2>1. IsFiniteSet({cache.eng}) /\ Cardinality({cache.eng}) = 1
    BY FS_Singleton
  <2>2. C \subseteq {cache.eng}
    OBVIOUS
  <2> QED
    BY <2>1, <2>2, FS_Subset
<1>5. IsFiniteSet(W) /\ Cardinality(W) <= n
  <2> DEFINE P == {p \in Request : writer[p] # None}
  <2>1. IsFiniteSet(P) /\ Cardinality(P) <= n
    <3>1. P \subseteq Request
      OBVIOUS
    <3> HIDE DEF P
    <3> QED
      BY <3>1, <1>1, FS_Subset
  <2>2. IsFiniteSet(W) /\ Cardinality(W) <= Cardinality(P)
    <3> DEFINE f == [q \in P |-> writer[q].eng]
    <3>1. DOMAIN f = P /\ f = [x \in P |-> f[x]] /\ W = {f[x] : x \in P}
      OBVIOUS
    <3> HIDE DEF f, W, P
    <3> QED
      BY <2>1, <3>1, ImageBound
  <2>3. Cardinality(W) \in Nat /\ Cardinality(P) \in Nat
    BY <2>1, <2>2, FS_CardinalityType
  <2> HIDE DEF P, W
  <2> QED
    BY <2>1, <2>2, <2>3, <1>1
<1>6. EngineId \subseteq (A \cup C) \cup W
  <2>1. req[r].eng = None
    BY DEF TypeInv, Shape
  <2>2. InUse \subseteq {None} \cup (A \cup C) \cup W
    BY <2>1 DEF InUse
  <2> HIDE DEF A, C, W
  <2> QED
    BY <2>2, NoneAssumption
<1> HIDE DEF A, C, W
<1>7. IsFiniteSet(A \cup C) /\ Cardinality(A \cup C) <= n
  <2>1. /\ IsFiniteSet(A \cup C) /\ IsFiniteSet(A \cap C)
        /\ Cardinality(A \cup C) = Cardinality(A) + Cardinality(C) - Cardinality(A \cap C)
    BY <1>3, <1>4, FS_Union, FS_Intersection
  <2>2. Cardinality(A) \in Nat /\ Cardinality(C) \in Nat /\ Cardinality(A \cap C) \in Nat
    BY <1>3, <1>4, <2>1, FS_CardinalityType
  <2> QED
    BY <2>1, <2>2, <1>1, <1>3, <1>4
<1>8. IsFiniteSet((A \cup C) \cup W) /\ Cardinality((A \cup C) \cup W) <= 2 * n
  <2> DEFINE D == A \cup C
  <2> HIDE DEF D
  <2>1. /\ IsFiniteSet(D \cup W) /\ IsFiniteSet(D \cap W)
        /\ Cardinality(D \cup W) = Cardinality(D) + Cardinality(W) - Cardinality(D \cap W)
    BY <1>5, <1>7, FS_Union, FS_Intersection DEF D
  <2>2. Cardinality(D) \in Nat /\ Cardinality(W) \in Nat /\ Cardinality(D \cap W) \in Nat
    BY <1>5, <1>7, <2>1, FS_CardinalityType DEF D
  <2>3. Cardinality(D) <= n
    BY <1>7 DEF D
  <2>4. Cardinality(D \cup W) <= 2 * n
    BY <2>1, <2>2, <2>3, <1>1, <1>5
  <2> QED
    BY <2>1, <2>4 DEF D
<1>9. Cardinality(EngineId) = 2 * n + 1
  BY <1>1, FS_Interval DEF EngineId
<1>10. Cardinality(EngineId) <= Cardinality((A \cup C) \cup W)
  BY <1>6, <1>8, FS_Subset
<1>11. Cardinality((A \cup C) \cup W) \in Nat
  BY <1>8, FS_CardinalityType
<1> QED
  BY <1>1, <1>8, <1>9, <1>10, <1>11

(* getEngine builds a well-formed engine.                                  *)
LEMMA RebuiltContent == TypeOK => Rebuilt \in Content
<1> SUFFICES ASSUME TypeOK PROVE Rebuilt \in Content
  OBVIOUS
<1>1. journal \in Seq(Entry)
  BY DEF TypeOK
<1>2. CASE snap = None
  BY <1>1, <1>2, EmptyContent, ReplayContent DEF Rebuilt
<1>3. CASE snap # None
  <2>1. snap.content \in Content /\ snap.ts + 1 \in Nat
    BY <1>3 DEF TypeOK, Image
  <2>2. HistoryAfter(snap.ts) \in Seq(Entry)
    BY <1>1, <2>1, EntriesType DEF HistoryAfter
  <2> QED
    BY <1>3, <2>1, <2>2, ReplayContent DEF Rebuilt
<1> QED
  BY <1>2, <1>3

(* An entry is written at the current time.                                *)
LEMMA JournaledType ==
    ASSUME TypeOK, NEW op \in Mutation, Journaled(op)
    PROVE  journal' \in Seq(Entry) /\ version' \in Nat /\ snap' \in Image \cup {None}
<1>1. [op |-> op, ts |-> clock] \in Entry
  BY DEF TypeOK, Entry
<1> QED
  BY <1>1, AppendProperties DEF TypeOK, Journaled

LEMMA FinishType ==
    ASSUME TypeInv, NEW r \in Request, Finish(r)
    PROVE  req' \in [Request -> Handler] /\ \A q \in Request : Shape(req'[q])
BY IdleHandler, HandlerMoves DEF Finish, TypeInv, TypeOK

LEMMA PcType ==
    ASSUME TypeInv, NEW r \in Request, req[r].pc # "idle", req[r].eng # None,
           NEW pc \in {"loaded", "applied", "journaled", "acked", "cleared"},
           pc \in {"applied", "journaled", "acked"} => req[r].op \in Mutation,
           pc = "applied" => req[r].op.kind \in {"assert", "verify"},
           pc = "journaled" => req[r].op.kind \in {"invalidate", "retract"},
           pc = "cleared" => req[r].op.kind = "revalidate",
           req' = [req EXCEPT ![r].pc = pc]
    PROVE  req' \in [Request -> Handler] /\ \A q \in Request : Shape(req'[q])
<1>1. req[r] \in Handler /\ Shape(req[r])
  BY DEF TypeInv, TypeOK
<1>2. [req[r] EXCEPT !.pc = pc] \in Handler /\ Shape([req[r] EXCEPT !.pc = pc])
  BY <1>1, PcMoves
<1>3. req' = [req EXCEPT ![r] = [req[r] EXCEPT !.pc = pc]]
  OBVIOUS
<1> QED
  BY <1>2, <1>3, HandlerMoves DEF TypeInv, TypeOK

(* The operation of a handler that is past getEngine.                      *)
LEMMA HandlerAt ==
    ASSUME TypeInv, NEW r \in Request
    PROVE  /\ req[r] \in Handler
           /\ req[r].pc \notin {"idle", "loading"} => req[r].eng \in EngineId /\ req[r].eng # None
           /\ req[r].pc # "idle" => req[r].op \in Op
           /\ req[r].pc # "idle" /\ req[r].op.kind # "revalidate" => req[r].op \in Mutation
           /\ req[r].pc \in {"applied", "journaled", "acked"} => req[r].op \in Mutation
           /\ req[r].pc = "applied" => req[r].op.kind \in {"assert", "verify"}
           /\ req[r].pc = "journaled" => req[r].op.kind \in {"invalidate", "retract"}
<1>1. req[r] \in Handler /\ Shape(req[r])
  BY DEF TypeInv, TypeOK
<1> QED
  BY <1>1, OpsAndMutations, NoneAssumption DEF Shape, Handler

LEMMA HeapApplyType ==
    ASSUME TypeOK, NEW e \in EngineId, NEW op \in Mutation,
           heap' = [heap EXCEPT ![e] = Apply(@, op)]
    PROVE  heap' \in [EngineId -> Content]
BY ApplyContent DEF TypeOK

LEMMA TypeStep == TypeInv /\ [Next]_vars => TypeInv'
<1> SUFFICES ASSUME TypeInv, [Next]_vars PROVE TypeInv'
  OBVIOUS
<1> USE DEF TypeInv
<1>1. ASSUME NEW r \in Request, NEW op \in Op, GetEngine(r, op) PROVE TypeInv'
  <2> DEFINE h == IF cache # None /\ cache.version = version
                  THEN [Idle EXCEPT !.pc = "loaded", !.op = op, !.eng = cache.eng]
                  ELSE [Idle EXCEPT !.pc = "loading", !.op = op, !.ver = version]
  <2>1. h \in Handler /\ Shape(h)
    BY EmptySeq, NoneAssumption DEF TypeOK, Idle, Handler, Shape
  <2>2. req' = [req EXCEPT ![r] = h]
    BY <1>1 DEF GetEngine
  <2> HIDE DEF h
  <2>3. req' \in [Request -> Handler] /\ \A q \in Request : Shape(req'[q])
    BY <2>1, <2>2, HandlerMoves DEF TypeOK
  <2> QED
    BY <1>1, <2>3 DEF GetEngine, TypeOK, storeVars
<1>2. ASSUME NEW r \in Request, LoadEngine(r) PROVE TypeInv'
  <2> DEFINE new == CHOOSE e \in EngineId : e \notin InUse
             h == [req[r] EXCEPT !.pc = "built", !.eng = new]
  <2>1. new \in EngineId /\ new # None /\ req[r].pc = "loading"
    BY <1>2, FreeEngine, NoneAssumption DEF LoadEngine
  <2> HIDE DEF new
  <2>2. h \in Handler /\ Shape(h)
    BY <2>1, HandlerAt DEF Handler, Shape
  <2>3. req' = [req EXCEPT ![r] = h]
    <3>1. req' = [req EXCEPT ![r].pc = "built", ![r].eng = new]
      BY <1>2 DEF LoadEngine, new
    <3> QED
      BY <3>1
  <2> HIDE DEF h
  <2>4. req' \in [Request -> Handler] /\ \A q \in Request : Shape(req'[q])
    BY <2>2, <2>3, HandlerMoves DEF TypeOK
  <2>5. heap' \in [EngineId -> Content]
    BY <1>2, RebuiltContent, EmptyContent DEF LoadEngine, TypeOK
  <2> QED
    BY <1>2, <2>4, <2>5 DEF LoadEngine, TypeOK, storeVars
<1>3. ASSUME NEW r \in Request, CacheEngine(r) PROVE TypeInv'
  <2> DEFINE h == [req[r] EXCEPT !.pc = "loaded", !.ver = 0]
  <2>1. req[r].pc = "built" /\ req[r].eng \in EngineId /\ req[r].eng # None /\ req[r].op \in Op
    BY <1>3, HandlerAt DEF CacheEngine
  <2>2. h \in Handler /\ Shape(h)
    BY <2>1, HandlerAt DEF Handler, Shape
  <2>3. req' = [req EXCEPT ![r] = h]
    BY <1>3 DEF CacheEngine
  <2> HIDE DEF h
  <2>4. req' \in [Request -> Handler] /\ \A q \in Request : Shape(req'[q])
    BY <2>2, <2>3, HandlerMoves DEF TypeOK
  <2>5. cache' \in [eng : EngineId, version : Nat]
    BY <1>3, <2>1, HandlerAt DEF CacheEngine, Handler
  <2> QED
    BY <1>3, <2>4, <2>5 DEF CacheEngine, TypeOK, storeVars
<1>4. ASSUME NEW r \in Request, ChangeEngineFirst(r) PROVE TypeInv'
  <2>1. /\ req[r].pc = "loaded" /\ req[r].op \in Mutation /\ req[r].eng \in EngineId
        /\ req[r].eng # None /\ req[r].op.kind \in {"assert", "verify"}
    BY <1>4, HandlerAt DEF ChangeEngineFirst
  <2>2. heap' \in [EngineId -> Content]
    BY <1>4, <2>1, HeapApplyType DEF ChangeEngineFirst
  <2>3. Finish(r) \/ req' = [req EXCEPT ![r].pc = "applied"]
    BY <1>4 DEF ChangeEngineFirst
  <2>4. req' \in [Request -> Handler] /\ \A q \in Request : Shape(req'[q])
    BY <2>1, <2>3, FinishType, PcType
  <2> QED
    BY <1>4, <2>2, <2>4 DEF ChangeEngineFirst, TypeOK, storeVars
<1>5. ASSUME NEW r \in Request, JournalAfterwards(r) PROVE TypeInv'
  <2>1. req[r].pc = "applied" /\ req[r].op \in Mutation /\ req[r].eng # None
    BY <1>5, HandlerAt DEF JournalAfterwards
  <2>2. Finish(r) \/ req' = [req EXCEPT ![r].pc = "acked"]
    BY <1>5 DEF JournalAfterwards
  <2>3. req' \in [Request -> Handler] /\ \A q \in Request : Shape(req'[q])
    BY <2>1, <2>2, FinishType, PcType
  <2>4. Journaled(req[r].op) \/ UNCHANGED storeVars
    BY <1>5 DEF JournalAfterwards, AppendFails
  <2>5. journal' \in Seq(Entry) /\ version' \in Nat /\ snap' \in Image \cup {None}
    BY <2>1, <2>4, JournaledType DEF TypeOK, storeVars
  <2>6. acked' \subseteq Mutation
    BY <1>5, <2>1 DEF JournalAfterwards, TypeOK
  <2> QED
    BY <1>5, <2>3, <2>5, <2>6 DEF JournalAfterwards, TypeOK
<1>6. ASSUME NEW r \in Request, JournalFirst(r) PROVE TypeInv'
  <2>1. /\ req[r].pc = "loaded" /\ req[r].op \in Mutation /\ req[r].eng # None
        /\ req[r].op.kind \in {"invalidate", "retract"}
    BY <1>6, HandlerAt DEF JournalFirst
  <2>2. Finish(r) \/ req' = [req EXCEPT ![r].pc = "journaled"]
    BY <1>6 DEF JournalFirst
  <2>3. req' \in [Request -> Handler] /\ \A q \in Request : Shape(req'[q])
    BY <2>1, <2>2, FinishType, PcType
  <2>4. Journaled(req[r].op) \/ UNCHANGED storeVars
    BY <1>6 DEF JournalFirst, AppendFails
  <2>5. journal' \in Seq(Entry) /\ version' \in Nat /\ snap' \in Image \cup {None}
    BY <2>1, <2>4, JournaledType DEF TypeOK, storeVars
  <2> QED
    BY <1>6, <2>3, <2>5 DEF JournalFirst, TypeOK
<1>7. ASSUME NEW r \in Request, ChangeEngineAfterwards(r) PROVE TypeInv'
  <2>1. req[r].pc = "journaled" /\ req[r].op \in Mutation /\ req[r].eng \in EngineId /\ req[r].eng # None
    BY <1>7, HandlerAt DEF ChangeEngineAfterwards
  <2>2. heap' \in [EngineId -> Content]
    BY <1>7, <2>1, HeapApplyType DEF ChangeEngineAfterwards
  <2>3. Finish(r) \/ req' = [req EXCEPT ![r].pc = "acked"]
    BY <1>7 DEF ChangeEngineAfterwards
  <2>4. req' \in [Request -> Handler] /\ \A q \in Request : Shape(req'[q])
    BY <2>1, <2>3, FinishType, PcType
  <2>5. acked' \subseteq Mutation
    BY <1>7, <2>1 DEF ChangeEngineAfterwards, TypeOK
  <2> QED
    BY <1>7, <2>2, <2>4, <2>5 DEF ChangeEngineAfterwards, TypeOK, storeVars
<1>8. ASSUME NEW r \in Request, RevalidateClear(r) PROVE TypeInv'
  <2>1. req[r].pc = "loaded" /\ req[r].eng \in EngineId /\ req[r].eng # None
    BY <1>8, HandlerAt DEF RevalidateClear
  <2>2. heap' \in [EngineId -> Content]
    BY <1>8, <2>1 DEF RevalidateClear, TypeOK, Empty, Content
  <2>3. req' \in [Request -> Handler] /\ \A q \in Request : Shape(req'[q])
    BY <1>8, <2>1, PcType DEF RevalidateClear
  <2> QED
    BY <1>8, <2>2, <2>3 DEF RevalidateClear, TypeOK, storeVars
<1>9. ASSUME NEW r \in Request, RevalidateRead(r) PROVE TypeInv'
  <2> DEFINE h == [req[r] EXCEPT !.pc = "replaying", !.todo = journal]
  <2>1. req[r].pc = "cleared" /\ req[r].eng \in EngineId /\ req[r].eng # None /\ req[r].op \in Op
    BY <1>9, HandlerAt DEF RevalidateRead
  <2>2. h \in Handler /\ Shape(h)
    <3>1. req[r] \in Handler /\ Shape(req[r]) /\ journal \in Seq(Entry)
      BY HandlerAt DEF TypeOK
    <3> QED
      BY <2>1, <3>1 DEF Handler, Shape
  <2>3. req' = [req EXCEPT ![r] = h]
    BY <1>9 DEF RevalidateRead
  <2> HIDE DEF h
  <2>4. req' \in [Request -> Handler] /\ \A q \in Request : Shape(req'[q])
    BY <2>2, <2>3, HandlerMoves DEF TypeOK
  <2> QED
    BY <1>9, <2>4 DEF RevalidateRead, TypeOK, storeVars
<1>10. ASSUME NEW r \in Request, RevalidateReplay(r) PROVE TypeInv'
  <2>1. req[r].pc = "replaying" /\ req[r].eng \in EngineId /\ req[r].eng # None /\ req[r].op \in Op
    BY <1>10, HandlerAt DEF RevalidateReplay
  <2>2. CASE req[r].todo = <<>>
    <3>1. heap' = heap /\ Finish(r)
      BY <1>10, <2>2 DEF RevalidateReplay
    <3>2. req' \in [Request -> Handler] /\ \A q \in Request : Shape(req'[q])
      BY <3>1, FinishType
    <3> QED
      BY <1>10, <3>1, <3>2 DEF RevalidateReplay, TypeOK, storeVars
  <2>3. CASE req[r].todo # <<>>
    <3> DEFINE t == req[r].todo
               h == [req[r] EXCEPT !.todo = Tail(t)]
    <3>1. req[r] \in Handler /\ Shape(req[r]) /\ t \in Seq(Entry)
      BY HandlerAt DEF Handler
    <3>2. Tail(t) \in Seq(Entry) /\ Head(t) \in Entry
      BY <2>3, <3>1, HeadTailProperties
    <3>3. Head(t).op \in Mutation
      BY <3>2 DEF Entry
    <3>4. heap' = [heap EXCEPT ![req[r].eng] = Apply(@, Head(t).op)]
      BY <1>10, <2>3 DEF RevalidateReplay
    <3>5. heap' \in [EngineId -> Content]
      BY <2>1, <3>3, <3>4, HeapApplyType
    <3>6. req' = [req EXCEPT ![r] = h]
      BY <1>10, <2>3 DEF RevalidateReplay
    <3>7. h \in Handler /\ Shape(h)
      BY <2>1, <3>1, <3>2 DEF Handler, Shape
    <3> HIDE DEF h, t
    <3>8. req' \in [Request -> Handler] /\ \A q \in Request : Shape(req'[q])
      BY <3>6, <3>7, HandlerMoves DEF TypeOK
    <3> QED
      BY <1>10, <3>5, <3>8 DEF RevalidateReplay, TypeOK, storeVars
  <2> QED
    BY <2>2, <2>3
<1>11. ASSUME NEW r \in Request, CheckSnapshotTrigger(r) PROVE TypeInv'
  <2>1. req[r].pc = "acked" /\ req[r].eng \in EngineId
    BY <1>11, HandlerAt DEF CheckSnapshotTrigger
  <2>2. req' \in [Request -> Handler] /\ \A q \in Request : Shape(req'[q])
    BY <1>11, FinishType DEF CheckSnapshotTrigger
  <2>3. writer' \in [Request -> [eng : EngineId, image : Image \cup {None}] \cup {None}]
    BY <1>11, <2>1 DEF CheckSnapshotTrigger, TypeOK
  <2> QED
    BY <1>11, <2>2, <2>3 DEF CheckSnapshotTrigger, TypeOK, storeVars
<1>12. ASSUME NEW r \in Request, ToSnapshot(r) PROVE TypeInv'
  <2>1. writer[r] \in [eng : EngineId, image : Image \cup {None}]
    BY <1>12 DEF ToSnapshot, TypeOK
  <2>2. [ts |-> clock, content |-> heap[writer[r].eng]] \in Image
    BY <2>1 DEF TypeOK, Image
  <2>3. writer' \in [Request -> [eng : EngineId, image : Image \cup {None}] \cup {None}]
    BY <1>12, <2>1, <2>2 DEF ToSnapshot, TypeOK
  <2> QED
    BY <1>12, <2>3 DEF ToSnapshot, TypeOK, storeVars
<1>13. ASSUME NEW r \in Request, SaveSnapshot(r) PROVE TypeInv'
  <2>1. writer[r].image \in Image
    BY <1>13 DEF SaveSnapshot, TypeOK
  <2>2. writer' \in [Request -> [eng : EngineId, image : Image \cup {None}] \cup {None}]
    BY <1>13 DEF SaveSnapshot, TypeOK
  <2> QED
    BY <1>13, <2>1, <2>2 DEF SaveSnapshot, TypeOK
<1>14. ASSUME PurgeJournalBeforeSnapshot PROVE TypeInv'
  <2>1. snap.ts \in Nat
    BY <1>14 DEF PurgeJournalBeforeSnapshot, TypeOK, Image
  <2>2. journal' \in Seq(Entry)
    BY <1>14, <2>1, EntriesType DEF PurgeJournalBeforeSnapshot, TypeOK
  <2> QED
    BY <1>14, <2>2 DEF PurgeJournalBeforeSnapshot, TypeOK
<1>15. ASSUME Tick PROVE TypeInv'
  BY <1>15 DEF Tick, TypeOK, storeVars
<1>16. ASSUME Evict PROVE TypeInv'
  BY <1>16 DEF Evict, TypeOK, storeVars
<1>17. ASSUME Crash PROVE TypeInv'
  BY <1>17, EmptyContent, IdleHandler DEF Crash, TypeOK, storeVars
<1>18. CASE UNCHANGED vars
  BY <1>18 DEF vars, TypeOK
<1> QED
  BY <1>1, <1>2, <1>3, <1>4, <1>5, <1>6, <1>7, <1>8, <1>9, <1>10, <1>11, <1>12, <1>13,
     <1>14, <1>15, <1>16, <1>17, <1>18 DEF Next

LEMMA TypeInit == Init => TypeInv
BY EmptyContent, IdleHandler, EmptySeq DEF Init, TypeInv, TypeOK

(* Journal, snapshot, cache, engines, handlers and goroutines keep their   *)
(* types: the handlers never use an engine they were not given, and        *)
(* getEngine always finds an engine that nobody uses to build in.          *)
THEOREM SessionTypeCorrect == Spec => []TypeOK
<1>1. TypeInv => TypeOK
  BY DEF TypeInv
<1> QED
  BY <1>1, TypeInit, TypeStep, PTL DEF Spec

-----------------------------------------------------------------------------
(* The journal replays                                                     *)

AckedFacts == {done.fact : done \in Asserted}

(* Handlers keep to facts whose assertion was acknowledged.                *)
Ready == \A r \in Request :
            req[r].pc # "idle" => Refers(req[r].op) \subseteq AckedFacts

(* What a step leaves alone: a running handler keeps its operation, and    *)
(* nothing that was acknowledged is taken back.                            *)
LEMMA Frame ==
    ASSUME TypeInv, [Next]_vars
    PROVE  /\ acked \subseteq acked'
           /\ \A q \in Request :
                 \/ req'[q].pc = "idle"
                 \/ req[q].pc # "idle" /\ req'[q].op = req[q].op
                 \/ GetEngine(q, req'[q].op)
<1> DEFINE Keeps1(q) == \/ req'[q].pc = "idle"
                        \/ req[q].pc # "idle" /\ req'[q].op = req[q].op
                        \/ GetEngine(q, req'[q].op)
           Goal == acked \subseteq acked' /\ \A q \in Request : Keeps1(q)
<1>0. req \in [Request -> Handler] /\ Idle.pc = "idle" /\ \A q \in Request : req[q].op = req[q].op
  BY DEF TypeInv, TypeOK, Idle
<1>a. ASSUME req' = req PROVE \A q \in Request : Keeps1(q)
  BY <1>a
<1>b. ASSUME NEW r \in Request, Finish(r) PROVE \A q \in Request : Keeps1(q)
  BY <1>b, <1>0 DEF Finish
<1>c. ASSUME NEW r \in Request, NEW pc, req[r].pc # "idle", req' = [req EXCEPT ![r].pc = pc]
      PROVE  \A q \in Request : Keeps1(q)
  BY <1>c, <1>0 DEF Handler
<1>1. ASSUME NEW r \in Request, NEW op \in Op, GetEngine(r, op) PROVE Goal
  <2>1. req'[r].op = op /\ \A q \in Request \ {r} : req'[q] = req[q]
    BY <1>0, <1>1 DEF GetEngine, Idle
  <2>2. ASSUME NEW q \in Request PROVE Keeps1(q)
    <3>1. CASE q = r
      BY <2>1, <3>1, <1>1
    <3>2. CASE q # r
      BY <2>1, <3>2
    <3> QED
      BY <3>1, <3>2
  <2> QED
    BY <1>1, <2>2 DEF GetEngine
<1>2. ASSUME NEW r \in Request, LoadEngine(r) PROVE Goal
  <2>1. \A q \in Request : req'[q].op = req[q].op /\ (req'[q].pc # "idle" => req[q].pc # "idle")
    <3>1. \E new : req' = [req EXCEPT ![r].pc = "built", ![r].eng = new]
      BY <1>2 DEF LoadEngine
    <3> QED
      BY <1>0, <1>2, <3>1 DEF Handler, LoadEngine
  <2> QED
    BY <1>2, <2>1 DEF LoadEngine
<1>3. ASSUME NEW r \in Request, CacheEngine(r) PROVE Goal
  <2>1. \A q \in Request : req'[q].op = req[q].op /\ (req'[q].pc # "idle" => req[q].pc # "idle")
    BY <1>0, <1>3 DEF Handler, CacheEngine
  <2> QED
    BY <1>3, <2>1 DEF CacheEngine
<1>4. ASSUME NEW r \in Request, ChangeEngineFirst(r) PROVE Goal
  <2>1. req[r].pc # "idle" /\ (Finish(r) \/ req' = [req EXCEPT ![r].pc = "applied"])
    BY <1>4 DEF ChangeEngineFirst
  <2> QED
    BY <1>4, <2>1, <1>b, <1>c DEF ChangeEngineFirst
<1>5. ASSUME NEW r \in Request, JournalAfterwards(r) PROVE Goal
  <2>1. req[r].pc # "idle" /\ (Finish(r) \/ req' = [req EXCEPT ![r].pc = "acked"])
    BY <1>5 DEF JournalAfterwards
  <2>2. acked \subseteq acked'
    BY <1>5 DEF JournalAfterwards
  <2> QED
    BY <2>1, <2>2, <1>b, <1>c
<1>6. ASSUME NEW r \in Request, JournalFirst(r) PROVE Goal
  <2>1. req[r].pc # "idle" /\ (Finish(r) \/ req' = [req EXCEPT ![r].pc = "journaled"])
    BY <1>6 DEF JournalFirst
  <2> QED
    BY <1>6, <2>1, <1>b, <1>c DEF JournalFirst
<1>7. ASSUME NEW r \in Request, ChangeEngineAfterwards(r) PROVE Goal
  <2>1. req[r].pc # "idle" /\ (Finish(r) \/ req' = [req EXCEPT ![r].pc = "acked"])
    BY <1>7 DEF ChangeEngineAfterwards
  <2>2. acked \subseteq acked'
    BY <1>7 DEF ChangeEngineAfterwards
  <2> QED
    BY <2>1, <2>2, <1>b, <1>c
<1>8. ASSUME NEW r \in Request, RevalidateClear(r) PROVE Goal
  BY <1>8, <1>c DEF RevalidateClear
<1>9. ASSUME NEW r \in Request, RevalidateRead(r) PROVE Goal
  <2>1. \A q \in Request : req'[q].op = req[q].op /\ (req'[q].pc # "idle" => req[q].pc # "idle")
    BY <1>0, <1>9 DEF Handler, RevalidateRead
  <2> QED
    BY <1>9, <2>1 DEF RevalidateRead
<1>10. ASSUME NEW r \in Request, RevalidateReplay(r) PROVE Goal
  <2>1. CASE Finish(r)
    BY <1>10, <2>1, <1>b DEF RevalidateReplay
  <2>2. CASE req' = [req EXCEPT ![r].todo = Tail(@)]
    <3>1. \A q \in Request : req'[q].op = req[q].op /\ req'[q].pc = req[q].pc
      BY <1>0, <2>2 DEF Handler
    <3> QED
      BY <1>10, <3>1 DEF RevalidateReplay
  <2> QED
    BY <1>10, <2>1, <2>2 DEF RevalidateReplay
<1>11. ASSUME NEW r \in Request, CheckSnapshotTrigger(r) PROVE Goal
  BY <1>11, <1>b DEF CheckSnapshotTrigger
<1>12. ASSUME NEW r \in Request, ToSnapshot(r) \/ SaveSnapshot(r) PROVE Goal
  BY <1>12, <1>a DEF ToSnapshot, SaveSnapshot
<1>13. ASSUME PurgeJournalBeforeSnapshot \/ Tick \/ Evict \/ UNCHANGED vars PROVE Goal
  BY <1>13, <1>a DEF PurgeJournalBeforeSnapshot, Tick, Evict, vars
<1>14. ASSUME Crash PROVE Goal
  BY <1>14, <1>0 DEF Crash
<1> HIDE DEF Goal
<1>15. Goal
  BY <1>1, <1>2, <1>3, <1>4, <1>5, <1>6, <1>7, <1>8, <1>9, <1>10, <1>11, <1>12, <1>13,
     <1>14 DEF Next
<1> QED
  BY <1>15 DEF Goal

LEMMA ReadyStep ==
    ASSUME Patient, TypeInv, Ready, [Next]_vars
    PROVE  Ready'
<1>1. AckedFacts \subseteq AckedFacts'
  BY Frame DEF AckedFacts, Asserted
<1>2. ASSUME NEW q \in Request, req'[q].pc # "idle"
      PROVE  Refers(req'[q].op) \subseteq AckedFacts
  <2>1. CASE req[q].pc # "idle" /\ req'[q].op = req[q].op
    BY <2>1 DEF Ready
  <2>2. CASE GetEngine(q, req'[q].op)
    BY <2>2 DEF GetEngine, AckedFacts
  <2> QED
    BY <1>2, <2>1, <2>2, Frame
<1> QED
  BY <1>1, <1>2 DEF Ready, Refers

(* The steps that write the journal or acknowledge an operation.           *)
LEMMA JournalSteps ==
    ASSUME [Next]_vars
    PROVE  \/ UNCHANGED <<journal, acked>>
           \/ PurgeJournalBeforeSnapshot
           \/ \E r \in Request : JournalAfterwards(r) \/ JournalFirst(r) \/ ChangeEngineAfterwards(r)
BY DEF Next, vars, storeVars, GetEngine, LoadEngine, CacheEngine, ChangeEngineFirst,
   RevalidateClear, RevalidateRead, RevalidateReplay, CheckSnapshotTrigger, ToSnapshot,
   SaveSnapshot, Tick, Evict, Crash

Journal == Replay(Empty, journal)

(* The facts a client was told of are in the journal.                      *)
JournalInv ==
    /\ Ready
    /\ AckedFacts \subseteq Journal.facts
    /\ JournalReplays

LEMMA JournalKept ==
    ASSUME journal' = journal
    PROVE  Journal' = Journal /\ (JournalReplays => JournalReplays')
BY DEF Journal, JournalReplays

(* A new entry is applied to what the entries before it replay to.         *)
LEMMA JournalGrows ==
    ASSUME TypeOK, NEW op \in Mutation, Journaled(op)
    PROVE  Journal \in Content /\ Journal' = Apply(Journal, op)
<1>1. [op |-> op, ts |-> clock] \in Entry /\ journal \in Seq(Entry)
  BY DEF TypeOK, Entry
<1>2. Replay(Empty, Append(journal, [op |-> op, ts |-> clock])) = Apply(Journal, op)
  BY <1>1, EmptyContent, ReplayAppend DEF Journal
<1>3. journal' = Append(journal, [op |-> op, ts |-> clock])
  BY DEF Journaled
<1>4. Journal \in Content
  BY <1>1, EmptyContent, ReplayContent DEF Journal
<1>5. Journal' = Replay(Empty, journal')
  BY DEF Journal, Replay, Empty, Apply, Accepts
<1> QED
  BY <1>2, <1>3, <1>4, <1>5

LEMMA PrefixKept ==
    ASSUME NEW h \in Seq(Entry), NEW e \in Entry, NEW i \in 1..Len(h)
    PROVE  /\ SubSeq(Append(h, e), 1, i - 1) = SubSeq(h, 1, i - 1)
           /\ Append(h, e)[i] = h[i]
BY AppendProperties, SubSeqProperties

LEMMA PrefixWhole ==
    ASSUME NEW h \in Seq(Entry), NEW e \in Entry
    PROVE  /\ SubSeq(Append(h, e), 1, Len(h)) = h
           /\ Append(h, e)[Len(h) + 1] = e
           /\ Len(Append(h, e)) = Len(h) + 1
BY AppendProperties, SubSeqProperties

(* The journal still replays when the new entry is accepted at its end.    *)
LEMMA JournalReplaysOn ==
    ASSUME TypeOK, JournalReplays, NEW op \in Mutation, Journaled(op), Accepts(Journal, op)
    PROVE  JournalReplays'
<1> DEFINE e == [op |-> op, ts |-> clock]
           h == journal
<1>1. e \in Entry /\ e.op = op /\ h \in Seq(Entry) /\ journal' = Append(h, e)
  BY DEF TypeOK, Entry, Journaled
<1> HIDE DEF e
<1>2. Len(h) \in Nat /\ Len(Append(h, e)) = Len(h) + 1
  BY <1>1, PrefixWhole
<1>3. ASSUME NEW i \in 1..Len(Append(h, e))
      PROVE  Accepts(Replay(Empty, SubSeq(Append(h, e), 1, i - 1)), Append(h, e)[i].op)
  <2>1. CASE i \in 1..Len(h)
    <3>1. Accepts(Replay(Empty, SubSeq(h, 1, i - 1)), h[i].op)
      BY <2>1 DEF JournalReplays
    <3> QED
      BY <1>1, <2>1, <3>1, PrefixKept
  <2>2. CASE i = Len(h) + 1
    <3>1. i - 1 = Len(h)
      BY <2>2, <1>2
    <3> QED
      BY <1>1, <2>2, <3>1, PrefixWhole DEF Journal
  <2> QED
    BY <1>2, <2>1, <2>2
<1>4. \A i \in 1..Len(journal') :
         Accepts(Replay(Empty, SubSeq(journal', 1, i - 1)), journal'[i].op)
  BY <1>1, <1>3
<1> QED
  BY <1>4 DEF JournalReplays, Replay, Empty, Apply, Accepts

LEMMA JournalInvStep ==
    ASSUME Patient, ~ Purging, "invalidate" \notin Kinds, TypeInv, JournalInv, [Next]_vars
    PROVE  JournalInv'
<1>1. Ready' /\ TypeOK
  BY ReadyStep DEF JournalInv, TypeInv
<1>2. CASE UNCHANGED <<journal, acked>>
  BY <1>1, <1>2, JournalKept DEF JournalInv, AckedFacts, Asserted
<1>3. ASSUME NEW r \in Request, req[r].pc # "idle", req[r].op \in Mutation, Journaled(req[r].op)
      PROVE  /\ JournalReplays'
             /\ Journal.facts \subseteq Journal'.facts
             /\ req[r].op.kind = "assert" => req[r].op.fact \in Journal'.facts
  <2> DEFINE op == req[r].op
  <2>1. Refers(op) \subseteq Journal.facts
    BY <1>3 DEF JournalInv, Ready
  <2>2. op.kind \in {"assert", "retract", "verify"} /\ op.fact \in FactId
    BY <1>3, KindOfMutation
  <2>3. Accepts(Journal, op)
    BY <2>1, <2>2 DEF Accepts, Refers
  <2>4. Journal \in Content /\ Journal' = Apply(Journal, op)
    BY <1>1, <1>3, JournalGrows
  <2>5. Below(Journal, Journal') /\ Reflects(Journal', op)
    BY <1>3, <2>3, <2>4, ApplyGrows, ApplyReflects
  <2>6. JournalReplays'
    BY <1>1, <1>3, <2>3, JournalReplaysOn DEF JournalInv
  <2> QED
    BY <2>5, <2>6 DEF Below, Reflects
<1>4. ASSUME NEW r \in Request, JournalAfterwards(r) PROVE JournalInv'
  <2>1. req[r].pc # "idle" /\ req[r].op \in Mutation /\ req[r].op.kind \in {"assert", "verify"}
    BY <1>4, HandlerAt DEF JournalAfterwards
  <2>2. CASE Journaled(req[r].op) /\ acked' = acked \cup {req[r].op}
    BY <1>1, <1>3, <2>1, <2>2 DEF JournalInv, AckedFacts, Asserted
  <2>3. CASE AppendFails
    <3>1. journal' = journal /\ Journal' = Journal /\ JournalReplays'
      BY <2>3, JournalKept DEF AppendFails, storeVars, JournalInv
    <3>2. Asserted' = Asserted
      BY <1>4, <2>1, <2>3 DEF JournalAfterwards, Asserted, AppendFails, storeVars, Journaled
    <3> QED
      BY <1>1, <3>1, <3>2 DEF JournalInv, AckedFacts
  <2> QED
    BY <1>4, <2>2, <2>3 DEF JournalAfterwards
<1>5. ASSUME NEW r \in Request, JournalFirst(r) PROVE JournalInv'
  <2>1. req[r].pc # "idle" /\ req[r].op \in Mutation /\ acked' = acked
    BY <1>5, HandlerAt DEF JournalFirst
  <2>2. CASE Journaled(req[r].op)
    BY <1>1, <1>3, <2>1, <2>2 DEF JournalInv, AckedFacts, Asserted
  <2>3. CASE UNCHANGED storeVars
    BY <1>2, <2>1, <2>3 DEF storeVars
  <2> QED
    BY <1>5, <2>2, <2>3 DEF JournalFirst, AppendFails
<1>6. ASSUME NEW r \in Request, ChangeEngineAfterwards(r) PROVE JournalInv'
  <2>1. req[r].op.kind \in {"invalidate", "retract"} /\ UNCHANGED journal
    BY <1>6, HandlerAt DEF ChangeEngineAfterwards, storeVars
  <2>2. Asserted' = Asserted
    BY <1>6, <2>1 DEF ChangeEngineAfterwards, Asserted
  <2>3. Journal' = Journal /\ JournalReplays'
    BY <2>1, JournalKept DEF JournalInv
  <2> QED
    BY <1>1, <2>2, <2>3 DEF JournalInv, AckedFacts
<1>7. ~ PurgeJournalBeforeSnapshot
  BY DEF PurgeJournalBeforeSnapshot
<1> QED
  BY <1>2, <1>4, <1>5, <1>6, <1>7, JournalSteps

(* The engine accepts every entry of the journal in the order of the       *)
(* history, however handlers overlap, fail and crash and whatever          *)
(* snapshots are written, if clients refer to acknowledged facts only, as  *)
(* long as nothing is purged.  Invalidations are left out: their handler   *)
(* writes the entry before the engine has looked at it.                    *)
THEOREM JournalAlwaysReplays ==
    ASSUME Patient, ~ Purging, "invalidate" \notin Kinds
    PROVE  Spec => []JournalReplays
<1>1. Init => TypeInv /\ JournalInv
  <2> SUFFICES ASSUME Init PROVE JournalInv
    BY TypeInit
  <2>1. Len(journal) = 0 /\ acked = {} /\ \A r \in Request : req[r].pc = "idle"
    BY DEF Init, Idle
  <2> QED
    BY <2>1 DEF JournalInv, Ready, AckedFacts, Asserted, JournalReplays
<1>2. (TypeInv /\ JournalInv) /\ [Next]_vars => (TypeInv /\ JournalInv)'
  BY TypeStep, JournalInvStep
<1>3. TypeInv /\ JournalInv => JournalReplays
  BY DEF JournalInv
<1> QED
  BY <1>1, <1>2, <1>3, PTL DEF Spec

-----------------------------------------------------------------------------
(* What the store rebuilds                                                 *)

LEMMA RebuiltKept ==
    ASSUME UNCHANGED <<journal, snap>>
    PROVE  Rebuilt' = Rebuilt
BY DEF Rebuilt, HistoryAfter

(* A new entry is applied to the rebuilt engine, unless it falls into the  *)
(* millisecond of the snapshot.                                            *)
LEMMA RebuiltGrows ==
    ASSUME TypeOK, NEW op \in Mutation, Journaled(op), snap # None => clock > snap.ts
    PROVE  Rebuilt' = Apply(Rebuilt, op)
<1> DEFINE e == [op |-> op, ts |-> clock]
<1>1. e \in Entry /\ e.op = op /\ e.ts = clock /\ journal \in Seq(Entry) /\ clock \in Nat
  BY DEF TypeOK, Entry
<1>2. journal' = Append(journal, e) /\ snap' = snap
  BY DEF Journaled
<1> HIDE DEF e
<1>3. CASE snap = None
  <2>1. Rebuilt = Replay(Empty, journal) /\ Rebuilt' = Replay(Empty, Append(journal, e))
    BY <1>2, <1>3 DEF Rebuilt
  <2> QED
    BY <1>1, <2>1, EmptyContent, ReplayAppend
<1>4. CASE snap # None
  <2> DEFINE h == EntriesFrom(journal, snap.ts + 1)
  <2>1. snap.content \in Content /\ snap.ts \in Nat
    BY <1>4 DEF TypeOK, Image
  <2>2. h \in Seq(Entry) /\ EntriesFrom(Append(journal, e), snap.ts + 1) = Append(h, e)
    <3>1. e.ts >= snap.ts + 1 /\ snap.ts + 1 \in Nat
      BY <1>1, <1>4, <2>1
    <3> QED
      BY <1>1, <3>1, EntriesType, EntriesAppend
  <2>3. Rebuilt = Replay(snap.content, h) /\ Rebuilt' = Replay(snap.content, Append(h, e))
    BY <1>2, <1>4, <2>2 DEF Rebuilt, HistoryAfter
  <2> HIDE DEF h
  <2> QED
    BY <1>1, <2>1, <2>2, <2>3, ReplayAppend
<1> QED
  BY <1>3, <1>4

(* A purge takes nothing away from the rebuilt engine.                     *)
LEMMA RebuiltPurged ==
    ASSUME TypeOK, PurgeJournalBeforeSnapshot
    PROVE  Rebuilt' = Rebuilt
<1>1. journal \in Seq(Entry) /\ snap # None /\ snap.ts \in Nat
  BY DEF TypeOK, PurgeJournalBeforeSnapshot, Image
<1>2. journal' = EntriesFrom(journal, snap.ts) /\ snap' = snap
  BY DEF PurgeJournalBeforeSnapshot
<1>3. EntriesFrom(EntriesFrom(journal, snap.ts), snap.ts + 1) = EntriesFrom(journal, snap.ts + 1)
  BY <1>1, EntriesTwice
<1> QED
  BY <1>1, <1>2, <1>3 DEF Rebuilt, HistoryAfter

(* An engine rebuilt from a new snapshot has what the snapshot has.        *)
LEMMA RebuiltSaved ==
    ASSUME TypeOK, NEW r \in Request, SaveSnapshot(r)
    PROVE  Below(writer[r].image.content, Rebuilt')
<1> DEFINE m == writer[r].image
<1>1. m \in Image /\ m # None /\ snap' = m /\ journal' = journal /\ journal \in Seq(Entry)
  BY DEF TypeOK, SaveSnapshot
<1>2. m.content \in Content /\ m.ts + 1 \in Nat
  BY <1>1 DEF Image
<1>3. Rebuilt' = Replay(m.content, EntriesFrom(journal, m.ts + 1))
  BY <1>1 DEF Rebuilt, HistoryAfter
<1> QED
  BY <1>1, <1>2, <1>3, EntriesType, ReplayGrows

-----------------------------------------------------------------------------
(* The cached engine is current                                            *)

(* Versions read are not ahead of the store.                               *)
NoneAhead ==
    /\ cache # None => cache.version <= version
    /\ \A r \in Request : req[r].pc \in {"loading", "built"} => req[r].ver <= version

(* An engine that is not cached yet has one user.                          *)
Private ==
    \A r \in Request : req[r].pc = "built" =>
        /\ cache # None => cache.eng # req[r].eng
        /\ \A q \in Request \ {r} : req[q].eng # req[r].eng

BuiltCurrent ==
    \A r \in Request :
        req[r].pc = "built" /\ req[r].ver = version => heap[req[r].eng] = Rebuilt

(* A handler that has written the journal works on an outdated engine.     *)
Outdated ==
    \A r \in Request :
        req[r].pc \in {"journaled", "acked"} /\ cache # None /\ req[r].eng = cache.eng
           => cache.version < version

CacheInv == NoneAhead /\ Private /\ BuiltCurrent /\ Outdated /\ CacheCurrent

(* A step that bumps the version leaves no engine that claims to be        *)
(* current.                                                                *)
LEMMA Bumped ==
    ASSUME TypeInv, CacheInv, version' = version + 1, UNCHANGED <<cache, heap>>,
           \A q \in Request : \/ req'[q] = req[q]
                              \/ /\ req'[q].pc \notin {"loading", "built"}
                                 /\ req'[q].eng \in {req[q].eng, None}
    PROVE  CacheInv'
<1>1. \A r \in Request : req[r].pc = "built" => req[r].eng # None
  BY HandlerAt
<1>2. version \in Nat /\ cache \in [eng : EngineId, version : Nat] \cup {None}
      /\ \A r \in Request : req[r].ver \in Nat
  BY HandlerAt DEF TypeInv, TypeOK, Handler
<1>3. cache # None => cache.version < version'
  BY <1>2 DEF CacheInv, NoneAhead
<1>4. \A r \in Request : req'[r].pc \in {"loading", "built"} => req'[r].ver < version'
  BY <1>2 DEF CacheInv, NoneAhead
<1>5. NoneAhead' /\ Outdated' /\ BuiltCurrent' /\ CacheCurrent'
  BY <1>2, <1>3, <1>4 DEF NoneAhead, Outdated, BuiltCurrent, CacheCurrent
<1>6. Private'
  BY <1>1 DEF CacheInv, Private
<1> QED
  BY <1>5, <1>6 DEF CacheInv

(* A step that leaves store, cache and engines alone, and only takes       *)
(* handlers that are past getEngine on.                                    *)
LEMMA CacheUntouched ==
    ASSUME TypeInv, CacheInv, UNCHANGED <<journal, snap, version, heap, cache>>,
           \A q \in Request :
              \/ req'[q] = req[q]
              \/ req[q].pc \in {"loaded", "acked"} /\ req'[q].pc = "idle" /\ req'[q].eng = None
    PROVE  CacheInv'
<1>1. \A r \in Request : req[r].pc = "built" => req[r].eng # None
  BY HandlerAt
<1>2. Rebuilt' = Rebuilt
  BY RebuiltKept
<1>3. cache # None => cache.eng # None
  BY NoneAssumption DEF TypeInv, TypeOK
<1>4. NoneAhead' /\ Outdated' /\ BuiltCurrent'
  BY <1>2 DEF NoneAhead, Outdated, BuiltCurrent, CacheInv
<1>5. Private'
  BY <1>1 DEF CacheInv, Private
<1>6. CacheCurrent'
  <2> SUFFICES ASSUME cache # None, cache.version = version,
                      \A r \in Request : req'[r].eng = cache.eng => req'[r].pc \in {"loaded", "acked"}
               PROVE  heap[cache.eng] = Rebuilt
    BY <1>2 DEF CacheCurrent
  <2>1. \A r \in Request : req[r].eng = cache.eng => req[r].pc \in {"loaded", "acked"}
    OBVIOUS
  <2> QED
    BY <2>1 DEF CacheInv, CacheCurrent
<1> QED
  BY <1>4, <1>5, <1>6 DEF CacheInv

LEMMA CacheInvStep ==
    ASSUME ~ Failures, "revalidate" \notin Kinds, TypeInv, CacheInv, [Next]_vars
    PROVE  CacheInv'
<1>0. /\ req \in [Request -> Handler] /\ heap \in [EngineId -> Content]
      /\ version \in Nat /\ cache \in [eng : EngineId, version : Nat] \cup {None}
      /\ Idle.pc = "idle" /\ Idle.eng = None /\ TypeOK
      /\ cache # None => cache.eng # None
  BY NoneAssumption DEF TypeInv, TypeOK, Idle
<1>a. ASSUME NEW r \in Request, Finish(r)
      PROVE  req'[r].pc = "idle" /\ req'[r].eng = None /\ \A q \in Request \ {r} : req'[q] = req[q]
  BY <1>a, <1>0 DEF Finish
<1>b. ASSUME NEW r \in Request, NEW pc, req' = [req EXCEPT ![r].pc = pc]
      PROVE  /\ req'[r].pc = pc /\ req'[r].eng = req[r].eng /\ req'[r].ver = req[r].ver
             /\ \A q \in Request \ {r} : req'[q] = req[q]
  BY <1>b, <1>0 DEF Handler
<1>1. ASSUME NEW r \in Request, NEW op \in Op, GetEngine(r, op) PROVE CacheInv'
  <2>1. /\ UNCHANGED <<journal, snap, version, heap, cache>> /\ ~ ServerLocked
        /\ \A q \in Request \ {r} : req'[q] = req[q]
        /\ \/ /\ cache # None /\ cache.version = version
              /\ req'[r].pc = "loaded" /\ req'[r].eng = cache.eng
           \/ req'[r].pc = "loading" /\ req'[r].eng = None /\ req'[r].ver = version
    BY <1>0, <1>1 DEF GetEngine, storeVars, Idle
  <2>2. \A q \in Request : req'[q].pc # "built" /\ req[q].pc \notin {"loading", "built"}
    BY <2>1 DEF ServerLocked
  <2>3. Rebuilt' = Rebuilt
    BY <2>1, RebuiltKept
  <2>4. req[r].eng = None
    BY <1>1 DEF GetEngine, Idle
  <2>5. NoneAhead' /\ Private' /\ BuiltCurrent' /\ Outdated'
    BY <1>0, <2>1, <2>2 DEF CacheInv, NoneAhead, Private, BuiltCurrent, Outdated
  <2>6. CacheCurrent'
    BY <1>0, <2>1, <2>3, <2>4 DEF CacheInv, CacheCurrent
  <2> QED
    BY <2>5, <2>6 DEF CacheInv
<1>2. ASSUME NEW r \in Request, LoadEngine(r) PROVE CacheInv'
  <2>1. PICK new : /\ new = CHOOSE e \in EngineId : e \notin InUse
                   /\ req' = [req EXCEPT ![r].pc = "built", ![r].eng = new]
                   /\ heap' = [e \in EngineId |-> IF e = new THEN Rebuilt
                                                 ELSE IF e \in InUse THEN heap[e]
                                                 ELSE Empty]
                   /\ UNCHANGED <<journal, snap, version, cache>> /\ req[r].pc = "loading"
    BY <1>2 DEF LoadEngine, storeVars
  <2>2. new \in EngineId /\ new \notin InUse
    BY <2>1, FreeEngine
  <2>3. /\ req'[r].pc = "built" /\ req'[r].eng = new /\ req'[r].ver = req[r].ver
        /\ \A q \in Request \ {r} : req'[q] = req[q]
    BY <1>0, <2>1 DEF Handler
  <2>4. \A q \in Request : req[q].eng \in InUse
    BY DEF InUse
  <2>5. cache # None => cache.eng \in InUse
    BY DEF InUse
  <2>6. Rebuilt' = Rebuilt
    BY <2>1, RebuiltKept
  <2>7. heap'[new] = Rebuilt /\ \A e \in EngineId : e \in InUse => heap'[e] = heap[e]
    BY <2>1, <2>2
  <2>8. \A q \in Request : req[q].pc = "built" => req[q].eng \in EngineId
    BY HandlerAt
  <2>9. NoneAhead'
    BY <2>1, <2>3 DEF CacheInv, NoneAhead
  <2>10. Private'
    <3>1. ASSUME NEW q \in Request \ {r}, req[q].pc = "built"
          PROVE  /\ cache # None => cache.eng # req[q].eng
                 /\ \A p \in Request \ {q} : req'[p].eng # req[q].eng
      <4>1. new # req[q].eng
        BY <2>2, <2>4
      <4> QED
        BY <2>3, <3>1, <4>1 DEF CacheInv, Private
    <3>2. /\ cache # None => cache.eng # new
          /\ \A p \in Request \ {r} : req'[p].eng # new
      BY <2>2, <2>3, <2>4, <2>5
    <3>3. ASSUME NEW q \in Request, req'[q].pc = "built"
          PROVE  /\ cache # None => cache.eng # req'[q].eng
                 /\ \A p \in Request \ {q} : req'[p].eng # req'[q].eng
      <4>1. CASE q = r
        BY <2>3, <3>2, <4>1
      <4>2. CASE q # r
        BY <2>3, <3>1, <3>3, <4>2
      <4> QED
        BY <4>1, <4>2
    <3> QED
      BY <2>1, <3>3 DEF Private
  <2>11. BuiltCurrent'
    <3>1. ASSUME NEW q \in Request \ {r}, req[q].pc = "built", req[q].ver = version
          PROVE  heap'[req[q].eng] = Rebuilt
      BY <2>4, <2>7, <2>8, <3>1 DEF CacheInv, BuiltCurrent
    <3>2. \A q \in Request : req'[q].pc = "built" /\ req'[q].ver = version
             => heap'[req'[q].eng] = Rebuilt
      BY <2>3, <2>7, <3>1
    <3> QED
      BY <2>1, <2>6, <3>2 DEF BuiltCurrent
  <2>12. Outdated'
    BY <2>1, <2>2, <2>3, <2>5 DEF CacheInv, Outdated
  <2>13. CacheCurrent'
    <3>1. req[r].eng = None
      BY <2>1 DEF TypeInv, Shape
    <3> QED
      BY <1>0, <2>1, <2>2, <2>3, <2>5, <2>6, <2>7, <3>1 DEF CacheInv, CacheCurrent
  <2> QED
    BY <2>9, <2>10, <2>11, <2>12, <2>13 DEF CacheInv
<1>3. ASSUME NEW r \in Request, CacheEngine(r) PROVE CacheInv'
  <2>1. /\ req[r].pc = "built" /\ UNCHANGED <<journal, snap, version, heap>>
        /\ cache' = [eng |-> req[r].eng, version |-> req[r].ver]
        /\ req'[r].pc = "loaded" /\ req'[r].eng = req[r].eng
        /\ \A q \in Request \ {r} : req'[q] = req[q]
    BY <1>0, <1>3 DEF CacheEngine, storeVars, Handler
  <2>2. cache' # None => cache'.eng = req[r].eng /\ cache'.version = req[r].ver /\ req[r].ver <= version
    BY <2>1 DEF CacheInv, NoneAhead
  <2>3. Rebuilt' = Rebuilt
    BY <2>1, RebuiltKept
  <2>4. \A q \in Request \ {r} : req[q].eng # req[r].eng
    BY <2>1 DEF CacheInv, Private
  <2>5. NoneAhead' /\ Outdated'
    BY <2>1, <2>2, <2>4 DEF CacheInv, NoneAhead, Outdated
  <2>6. Private' /\ BuiltCurrent'
    BY <2>1, <2>2, <2>3, <2>4 DEF CacheInv, Private, BuiltCurrent
  <2>7. CacheCurrent'
    BY <2>1, <2>2, <2>3 DEF CacheInv, BuiltCurrent, CacheCurrent
  <2> QED
    BY <2>5, <2>6, <2>7 DEF CacheInv
<1>4. ASSUME NEW r \in Request, ChangeEngineFirst(r) PROVE CacheInv'
  <2>1. /\ req[r].pc = "loaded" /\ req[r].eng \in EngineId
        /\ UNCHANGED <<journal, snap, version, cache>>
        /\ heap' = [heap EXCEPT ![req[r].eng] = Apply(@, req[r].op)]
    BY <1>4, HandlerAt DEF ChangeEngineFirst, storeVars
  <2>2. CASE ~ Accepts(heap[req[r].eng], req[r].op)
    <3>1. Finish(r) /\ Apply(heap[req[r].eng], req[r].op) = heap[req[r].eng]
      BY <1>4, <2>2 DEF ChangeEngineFirst, Apply
    <3>2. heap' = heap
      BY <1>0, <2>1, <3>1
    <3> QED
      BY <1>a, <2>1, <3>1, <3>2, CacheUntouched
  <2>3. CASE Accepts(heap[req[r].eng], req[r].op)
    <3>1. /\ req'[r].pc = "applied" /\ req'[r].eng = req[r].eng
          /\ \A q \in Request \ {r} : req'[q] = req[q]
      BY <1>4, <1>b, <2>3 DEF ChangeEngineFirst
    <3>2. Rebuilt' = Rebuilt
      BY <2>1, RebuiltKept
    <3>3. \A e \in EngineId \ {req[r].eng} : heap'[e] = heap[e]
      BY <1>0, <2>1
    <3>4. \A q \in Request : req[q].pc = "built" => req[q].eng \in EngineId \ {req[r].eng}
      BY <2>1, HandlerAt DEF CacheInv, Private
    <3>5. NoneAhead' /\ Outdated' /\ Private' /\ BuiltCurrent'
      BY <2>1, <3>1, <3>2, <3>3, <3>4 DEF CacheInv, NoneAhead, Outdated, Private, BuiltCurrent
    <3>6. CacheCurrent'
      BY <1>0, <2>1, <3>1, <3>2, <3>3 DEF CacheInv, CacheCurrent
    <3> QED
      BY <3>5, <3>6 DEF CacheInv
  <2> QED
    BY <2>2, <2>3
<1>5. ASSUME NEW r \in Request, JournalAfterwards(r) PROVE CacheInv'
  <2>1. Journaled(req[r].op) /\ req' = [req EXCEPT ![r].pc = "acked"] /\ UNCHANGED <<cache, heap>>
    BY <1>5 DEF JournalAfterwards, AppendFails
  <2> QED
    BY <1>b, <2>1, Bumped DEF Journaled
<1>6. ASSUME NEW r \in Request, JournalFirst(r) PROVE CacheInv'
  <2>1. UNCHANGED <<cache, heap>> /\ req[r].pc = "loaded"
    BY <1>6 DEF JournalFirst
  <2>2. CASE UNCHANGED storeVars /\ Finish(r)
    BY <1>a, <2>1, <2>2, CacheUntouched DEF storeVars
  <2>3. CASE Journaled(req[r].op) /\ req' = [req EXCEPT ![r].pc = "journaled"]
    BY <1>b, <2>1, <2>3, Bumped DEF Journaled
  <2> QED
    BY <1>6, <2>2, <2>3 DEF JournalFirst, AppendFails
<1>7. ASSUME NEW r \in Request, ChangeEngineAfterwards(r) PROVE CacheInv'
  <2>1. /\ req[r].pc = "journaled" /\ req[r].eng \in EngineId
        /\ UNCHANGED <<journal, snap, version, cache>>
        /\ heap' = [heap EXCEPT ![req[r].eng] = Apply(@, req[r].op)]
    BY <1>7, HandlerAt DEF ChangeEngineAfterwards, storeVars
  <2>2. /\ \/ req'[r].pc = "idle" /\ req'[r].eng = None
           \/ req'[r].pc = "acked" /\ req'[r].eng = req[r].eng
        /\ \A q \in Request \ {r} : req'[q] = req[q]
    BY <1>7, <1>a, <1>b DEF ChangeEngineAfterwards
  <2>3. Rebuilt' = Rebuilt
    BY <2>1, RebuiltKept
  <2>4. \A e \in EngineId \ {req[r].eng} : heap'[e] = heap[e]
    BY <1>0, <2>1
  <2>5. \A q \in Request : req[q].pc = "built" => req[q].eng \in EngineId \ {req[r].eng}
    BY <2>1, HandlerAt DEF CacheInv, Private
  <2>6. NoneAhead' /\ Outdated' /\ Private' /\ BuiltCurrent'
    <3>1. \A q \in Request : req[q].pc = "built" => req[q].eng # None
      BY HandlerAt
    <3> QED
      BY <1>0, <2>1, <2>2, <2>3, <2>4, <2>5, <3>1
         DEF CacheInv, NoneAhead, Outdated, Private, BuiltCurrent
  <2>7. CacheCurrent'
    <3>1. cache # None /\ cache.version = version => cache.eng # req[r].eng
      BY <1>0, <2>1 DEF CacheInv, Outdated
    <3> QED
      BY <1>0, <2>1, <2>2, <2>3, <2>4, <3>1 DEF CacheInv, CacheCurrent
  <2> QED
    BY <2>6, <2>7 DEF CacheInv
<1>8. ASSUME NEW r \in Request,
             RevalidateClear(r) \/ RevalidateRead(r) \/ RevalidateReplay(r)
      PROVE  FALSE
  <2>1. req[r].pc # "idle" /\ req[r].op.kind = "revalidate"
    BY <1>8 DEF TypeInv, Shape, RevalidateClear, RevalidateRead, RevalidateReplay
  <2> QED
    BY <2>1, HandlerAt, OpsAndMutations
<1>9. ASSUME NEW r \in Request, CheckSnapshotTrigger(r) PROVE CacheInv'
  <2>1. Finish(r) /\ req[r].pc = "acked" /\ UNCHANGED <<journal, snap, version, heap, cache>>
    BY <1>9 DEF CheckSnapshotTrigger, storeVars
  <2> QED
    BY <1>a, <2>1, CacheUntouched
<1>10. ASSUME NEW r \in Request, ToSnapshot(r) PROVE CacheInv'
  BY <1>10, CacheUntouched DEF ToSnapshot, storeVars
<1>11. ASSUME NEW r \in Request, SaveSnapshot(r) PROVE CacheInv'
  BY <1>11, Bumped DEF SaveSnapshot
<1>12. ASSUME PurgeJournalBeforeSnapshot PROVE CacheInv'
  <2>1. Rebuilt' = Rebuilt
    BY <1>0, <1>12, RebuiltPurged
  <2>2. UNCHANGED <<version, cache, heap, req>>
    BY <1>12 DEF PurgeJournalBeforeSnapshot
  <2> QED
    BY <2>1, <2>2 DEF CacheInv, NoneAhead, Outdated, Private, BuiltCurrent, CacheCurrent
<1>13. ASSUME Tick \/ UNCHANGED vars PROVE CacheInv'
  BY <1>13, CacheUntouched DEF Tick, vars, storeVars
<1>14. ASSUME Evict PROVE CacheInv'
  <2>1. UNCHANGED <<journal, snap, version, heap, req>> /\ cache' = None
    BY <1>14 DEF Evict, storeVars
  <2>2. Rebuilt' = Rebuilt
    BY <2>1, RebuiltKept
  <2> QED
    BY <2>1, <2>2 DEF CacheInv, NoneAhead, Outdated, Private, BuiltCurrent, CacheCurrent
<1>15. ASSUME Crash PROVE CacheInv'
  <2>1. cache' = None /\ \A q \in Request : req'[q].pc = "idle"
    BY <1>0, <1>15 DEF Crash
  <2> QED
    BY <2>1 DEF CacheInv, NoneAhead, Outdated, Private, BuiltCurrent, CacheCurrent
<1> QED
  BY <1>1, <1>2, <1>3, <1>4, <1>5, <1>6, <1>7, <1>8, <1>9, <1>10, <1>11, <1>12, <1>13,
     <1>14, <1>15 DEF Next

(* An engine cached under the session's version is the engine the store    *)
(* would give, except while a handler that has changed it is still to      *)
(* write the journal: for every number of overlapping requests, snapshot   *)
(* goroutines, evictions, purges and crashes, when no Append fails and     *)
(* nothing is revalidated.                                                 *)
THEOREM CacheAlwaysCurrent ==
    ASSUME ~ Failures, "revalidate" \notin Kinds
    PROVE  Spec => []CacheCurrent
<1>1. Init => TypeInv /\ CacheInv
  <2> SUFFICES ASSUME Init PROVE CacheInv
    BY TypeInit
  <2>1. cache = None /\ \A r \in Request : req[r].pc = "idle"
    BY DEF Init, Idle
  <2> QED
    BY <2>1 DEF CacheInv, NoneAhead, Outdated, Private, BuiltCurrent, CacheCurrent
<1>2. (TypeInv /\ CacheInv) /\ [Next]_vars => (TypeInv /\ CacheInv)'
  BY TypeStep, CacheInvStep
<1>3. TypeInv /\ CacheInv => CacheCurrent
  BY DEF CacheInv
<1> QED
  BY <1>1, <1>2, <1>3, PTL DEF Spec

-----------------------------------------------------------------------------
(* What was acknowledged is durable                                        *)

(* The content has all that was acknowledged.                              *)
Holds(c) == \A op \in acked : Reflects(c, op)

LEMMA HoldsBelow ==
    ASSUME TypeOK, NEW c, NEW d, Below(c, d), Holds(c)
    PROVE  Holds(d)
BY ReflectsBelow DEF Holds, TypeOK

(* A handler that wrote the journal first has its entry in the store,      *)
(* except for an invalidation that every engine rejects.                   *)
Entered ==
    \A r \in Request :
        req[r].pc = "journaled" =>
            \/ Reflects(Rebuilt, req[r].op)
            \/ req[r].op.kind = "invalidate" /\ Parents[req[r].op.fact] # {}

(* An entry written after the millisecond of the snapshot is not lost, and *)
(* loses nothing.                                                          *)
LEMMA EntryReflected ==
    ASSUME TypeInv, Ready, Durable, NEW r \in Request, req[r].pc # "idle",
           req[r].op \in Mutation, Journaled(req[r].op), snap # None => clock > snap.ts
    PROVE  /\ Below(Rebuilt, Rebuilt')
           /\ \/ Reflects(Rebuilt', req[r].op)
              \/ req[r].op.kind = "invalidate" /\ Parents[req[r].op.fact] # {}
<1> DEFINE op == req[r].op
<1>1. TypeOK /\ Rebuilt \in Content
  BY RebuiltContent DEF TypeInv
<1>2. Rebuilt' = Apply(Rebuilt, op)
  BY <1>1, RebuiltGrows
<1>3. AckedFacts \subseteq Rebuilt.facts
  BY DEF Durable, AckedFacts, Asserted, Reflects
<1>4. Refers(op) \subseteq Rebuilt.facts
  BY <1>3 DEF Ready
<1>5. op.kind \in {"assert", "invalidate", "retract", "verify"}
  BY KindOfMutation
<1>6. Accepts(Rebuilt, op) \/ (op.kind = "invalidate" /\ Parents[op.fact] # {})
  BY <1>4, <1>5 DEF Accepts, Refers
<1>7. Below(Rebuilt, Apply(Rebuilt, op))
  BY <1>1, ApplyGrows
<1>8. Accepts(Rebuilt, op) => Reflects(Apply(Rebuilt, op), op)
  BY <1>1, ApplyReflects
<1> QED
  BY <1>2, <1>6, <1>7, <1>8

(* Steps that leave the engine the store rebuilds no smaller.              *)
LEMMA DurableKept ==
    ASSUME TypeInv, Durable, Entered, Below(Rebuilt, Rebuilt'), acked' = acked,
           \A q \in Request : req'[q].pc = "journaled" => req[q].pc = "journaled" /\ req'[q].op = req[q].op
    PROVE  Durable' /\ Entered'
<1>1. Durable'
  BY ReflectsBelow DEF Durable, TypeInv, TypeOK
<1>2. ASSUME NEW q \in Request, req'[q].pc = "journaled"
      PROVE  \/ Reflects(Rebuilt', req'[q].op)
             \/ req'[q].op.kind = "invalidate" /\ Parents[req'[q].op.fact] # {}
  <2>1. req[q].pc = "journaled" /\ req'[q].op = req[q].op /\ req[q].op \in Mutation
    BY <1>2, HandlerAt
  <2> QED
    BY <2>1, ReflectsBelow DEF Entered
<1> QED
  BY <1>1, <1>2 DEF Entered

LEMMA BelowItself == ASSUME NEW c PROVE Below(c, c)
BY DEF Below

(* The three steps that write the journal or acknowledge, if the snapshot  *)
(* is older than the entry.                                                *)
LEMMA DurableWritten ==
    ASSUME Failures => "verify" \notin Kinds, TypeInv, Ready, Durable, Entered,
           NEW r \in Request, snap # None => clock > snap.ts,
           JournalAfterwards(r) \/ JournalFirst(r) \/ ChangeEngineAfterwards(r)
    PROVE  Durable' /\ Entered'
<1>0. req \in [Request -> Handler] /\ Idle.pc = "idle" /\ TypeOK /\ acked \subseteq Mutation
  BY DEF TypeInv, TypeOK, Idle
<1>a. ASSUME Finish(r)
      PROVE  req'[r].pc = "idle" /\ \A q \in Request \ {r} : req'[q] = req[q]
  BY <1>a, <1>0 DEF Finish
<1>b. ASSUME NEW pc, req' = [req EXCEPT ![r].pc = pc]
      PROVE  /\ req'[r].pc = pc /\ req'[r].op = req[r].op
             /\ \A q \in Request \ {r} : req'[q] = req[q]
  BY <1>b, <1>0 DEF Handler
<1>1. CASE JournalAfterwards(r)
  <2>1. /\ req[r].pc = "applied" /\ req[r].op \in Mutation
        /\ req[r].op.kind \in {"assert", "verify"} /\ req[r].op.kind \in Kinds
    BY <1>1, HandlerAt, KindOfMutation DEF JournalAfterwards
  <2>2. CASE /\ Journaled(req[r].op) /\ acked' = acked \cup {req[r].op}
             /\ req' = [req EXCEPT ![r].pc = "acked"]
    <3>1. Below(Rebuilt, Rebuilt') /\ Reflects(Rebuilt', req[r].op)
      BY <2>1, <2>2, EntryReflected
    <3>2. Durable'
      BY <1>0, <2>2, <3>1, ReflectsBelow DEF Durable
    <3>3. Entered'
      <4> SUFFICES ASSUME NEW q \in Request, req'[q].pc = "journaled"
                   PROVE  \/ Reflects(Rebuilt', req'[q].op)
                          \/ req'[q].op.kind = "invalidate" /\ Parents[req'[q].op.fact] # {}
        BY DEF Entered
      <4>1. req'[q] = req[q] /\ req[q].pc = "journaled"
        BY <1>b, <2>2
      <4>2. req[q].op \in Mutation
        BY <4>1, HandlerAt
      <4> QED
        BY <3>1, <4>1, <4>2, ReflectsBelow DEF Entered
    <3> QED
      BY <3>2, <3>3
  <2>3. CASE Failures /\ UNCHANGED storeVars /\ acked' = acked /\ Finish(r)
    <3>1. Rebuilt' = Rebuilt
      BY <2>3, RebuiltKept DEF storeVars
    <3> QED
      BY <1>a, <2>3, <3>1, BelowItself, DurableKept
  <2> QED
    BY <1>1, <2>1, <2>2, <2>3 DEF JournalAfterwards, AppendFails
<1>2. CASE JournalFirst(r)
  <2>1. req[r].pc = "loaded" /\ req[r].op \in Mutation /\ acked' = acked
    BY <1>2, HandlerAt DEF JournalFirst
  <2>2. CASE Journaled(req[r].op) /\ req' = [req EXCEPT ![r].pc = "journaled"]
    <3>1. /\ Below(Rebuilt, Rebuilt')
          /\ \/ Reflects(Rebuilt', req[r].op)
             \/ req[r].op.kind = "invalidate" /\ Parents[req[r].op.fact] # {}
      BY <2>1, <2>2, EntryReflected
    <3>2. Durable'
      BY <1>0, <2>1, <3>1, ReflectsBelow DEF Durable
    <3>3. Entered'
      <4> SUFFICES ASSUME NEW q \in Request, req'[q].pc = "journaled"
                   PROVE  \/ Reflects(Rebuilt', req'[q].op)
                          \/ req'[q].op.kind = "invalidate" /\ Parents[req'[q].op.fact] # {}
        BY DEF Entered
      <4>1. CASE q = r
        BY <1>b, <2>2, <3>1, <4>1
      <4>2. CASE q # r
        <5>1. req'[q] = req[q] /\ req[q].pc = "journaled"
          BY <1>b, <2>2, <4>2
        <5>2. req[q].op \in Mutation
          BY <5>1, HandlerAt
        <5> QED
          BY <3>1, <5>1, <5>2, ReflectsBelow DEF Entered
      <4> QED
        BY <4>1, <4>2
    <3> QED
      BY <3>2, <3>3
  <2>3. CASE UNCHANGED storeVars /\ Finish(r)
    <3>1. Rebuilt' = Rebuilt
      BY <2>3, RebuiltKept DEF storeVars
    <3> QED
      BY <1>a, <2>1, <2>3, <3>1, BelowItself, DurableKept
  <2> QED
    BY <1>2, <2>2, <2>3 DEF JournalFirst, AppendFails
<1>3. CASE ChangeEngineAfterwards(r)
  <2>1. /\ req[r].pc = "journaled" /\ req[r].op \in Mutation
        /\ req[r].op.kind \in {"invalidate", "retract"} /\ UNCHANGED <<journal, snap>>
    BY <1>3, HandlerAt DEF ChangeEngineAfterwards, storeVars
  <2>2. Rebuilt' = Rebuilt
    BY <2>1, RebuiltKept
  <2>3. CASE Accepts(heap[req[r].eng], req[r].op)
    <3>1. acked' = acked \cup {req[r].op} /\ req' = [req EXCEPT ![r].pc = "acked"]
      BY <1>3, <2>3 DEF ChangeEngineAfterwards
    <3>2. ~ (req[r].op.kind = "invalidate" /\ Parents[req[r].op.fact] # {})
      BY <2>3 DEF Accepts
    <3>3. Reflects(Rebuilt, req[r].op)
      BY <2>1, <3>2 DEF Entered
    <3>4. Durable'
      BY <2>2, <3>1, <3>3 DEF Durable
    <3>5. \A q \in Request : req'[q].pc = "journaled" => req'[q] = req[q]
      BY <1>b, <3>1
    <3> QED
      BY <2>2, <3>4, <3>5 DEF Entered
  <2>4. CASE ~ Accepts(heap[req[r].eng], req[r].op)
    <3>1. acked' = acked /\ Finish(r)
      BY <1>3, <2>4 DEF ChangeEngineAfterwards
    <3> QED
      BY <1>a, <2>2, <3>1, BelowItself, DurableKept
  <2> QED
    BY <2>3, <2>4
<1> QED
  BY <1>1, <1>2, <1>3

(* The steps after which a handler has just written the journal.           *)
LEMMA JournaledSteps ==
    ASSUME TypeInv, [Next]_vars
    PROVE  \/ \E r \in Request : JournalAfterwards(r) \/ JournalFirst(r) \/ ChangeEngineAfterwards(r)
           \/ \A q \in Request :
                 req'[q].pc = "journaled" => req[q].pc = "journaled" /\ req'[q].op = req[q].op
<1> DEFINE Same == \A q \in Request :
                      req'[q].pc = "journaled" => req[q].pc = "journaled" /\ req'[q].op = req[q].op
<1>0. req \in [Request -> Handler] /\ Idle.pc = "idle"
  BY DEF TypeInv, TypeOK, Idle
<1>2. ASSUME NEW r \in Request, Finish(r) PROVE Same
  BY <1>0, <1>2 DEF Finish
<1>3. ASSUME NEW r \in Request, NEW op \in Op, GetEngine(r, op) PROVE Same
  BY <1>0, <1>3 DEF GetEngine, Idle
<1>4. ASSUME NEW r \in Request, LoadEngine(r) PROVE Same
  <2>1. \E new : req' = [req EXCEPT ![r].pc = "built", ![r].eng = new]
    BY <1>4 DEF LoadEngine
  <2> QED
    BY <1>0, <2>1 DEF Handler
<1>5. ASSUME NEW r \in Request, CacheEngine(r) \/ RevalidateRead(r) \/ RevalidateClear(r) PROVE Same
  BY <1>0, <1>5 DEF Handler, CacheEngine, RevalidateRead, RevalidateClear
<1>6. ASSUME NEW r \in Request, ChangeEngineFirst(r) PROVE Same
  <2>1. Finish(r) \/ req' = [req EXCEPT ![r].pc = "applied"]
    BY <1>6 DEF ChangeEngineFirst
  <2> QED
    BY <1>0, <1>2, <2>1 DEF Handler
<1>7. ASSUME NEW r \in Request, RevalidateReplay(r) PROVE Same
  <2>1. Finish(r) \/ req' = [req EXCEPT ![r].todo = Tail(@)]
    BY <1>7 DEF RevalidateReplay
  <2>2. ASSUME req' = [req EXCEPT ![r].todo = Tail(@)] PROVE Same
    <3>1. \A q \in Request : req'[q].pc = req[q].pc /\ req'[q].op = req[q].op
      BY <1>0, <2>2 DEF Handler
    <3> QED
      BY <3>1
  <2> QED
    BY <1>2, <2>1, <2>2
<1>8. ASSUME NEW r \in Request, CheckSnapshotTrigger(r) PROVE Same
  BY <1>8, <1>2 DEF CheckSnapshotTrigger
<1>9. ASSUME UNCHANGED req PROVE Same
  BY <1>9
<1>10. ASSUME Crash PROVE Same
  BY <1>0, <1>10 DEF Crash
<1> HIDE DEF Same
<1>11. Same \/ \E r \in Request : JournalAfterwards(r) \/ JournalFirst(r) \/ ChangeEngineAfterwards(r)
  BY <1>3, <1>4, <1>5, <1>6, <1>7, <1>8, <1>9, <1>10
     DEF Next, vars, ToSnapshot, SaveSnapshot, PurgeJournalBeforeSnapshot, Tick, Evict
<1> QED
  BY <1>11 DEF Same

NoSnapshot == snap = None /\ \A r \in Request : writer[r] = None

LEMMA NoSnapshotStep ==
    ASSUME ~ Snapshots, TypeInv, NoSnapshot, [Next]_vars
    PROVE  NoSnapshot'
<1>1. ASSUME NEW r \in Request, ToSnapshot(r) \/ SaveSnapshot(r) PROVE FALSE
  BY <1>1 DEF NoSnapshot, ToSnapshot, SaveSnapshot
<1>2. ASSUME NEW r \in Request, CheckSnapshotTrigger(r) PROVE UNCHANGED <<snap, writer>>
  BY <1>2 DEF CheckSnapshotTrigger, storeVars
<1>3. ASSUME NEW r \in Request, JournalAfterwards(r) PROVE UNCHANGED <<snap, writer>>
  BY <1>3 DEF JournalAfterwards, Journaled, AppendFails, storeVars
<1>4. ASSUME NEW r \in Request, JournalFirst(r) PROVE UNCHANGED <<snap, writer>>
  BY <1>4 DEF JournalFirst, Journaled, AppendFails, storeVars
<1>5. ASSUME Crash PROVE NoSnapshot'
  BY <1>5 DEF Crash, NoSnapshot, storeVars
<1>6. UNCHANGED <<snap, writer>> \/ Crash
  BY <1>1, <1>2, <1>3, <1>4 DEF Next, vars, storeVars, GetEngine, LoadEngine, CacheEngine,
     ChangeEngineFirst, ChangeEngineAfterwards, RevalidateClear, RevalidateRead,
     RevalidateReplay, PurgeJournalBeforeSnapshot, Tick, Evict
<1> QED
  BY <1>5, <1>6 DEF NoSnapshot

(* What a client was told has succeeded is in the engine rebuilt from the  *)
(* store, whatever requests overlap, whatever is evicted and revalidated   *)
(* and wherever the process dies, as long as no snapshot is written.       *)
(* Clients refer to acknowledged facts, and where Append may fail nothing  *)
(* is verified: handleVerifyFact does not look at the error.               *)
THEOREM DurableWithoutSnapshots ==
    ASSUME Patient, ~ Snapshots, Failures => "verify" \notin Kinds
    PROVE  Spec => []Durable
<1> DEFINE I == TypeInv /\ Ready /\ NoSnapshot /\ Durable /\ Entered
<1>1. Init => I
  <2> SUFFICES ASSUME Init PROVE I
    OBVIOUS
  <2>1. acked = {} /\ snap = None /\ \A r \in Request : req[r].pc = "idle" /\ writer[r] = None
    BY DEF Init, Idle
  <2> QED
    BY <2>1, TypeInit DEF Ready, NoSnapshot, Durable, Entered
<1>2. I /\ [Next]_vars => I'
  <2> SUFFICES ASSUME I, [Next]_vars PROVE I'
    OBVIOUS
  <2>1. TypeInv' /\ Ready' /\ NoSnapshot'
    BY TypeStep, ReadyStep, NoSnapshotStep
  <2>2. ASSUME NEW r \in Request,
               JournalAfterwards(r) \/ JournalFirst(r) \/ ChangeEngineAfterwards(r)
        PROVE  Durable' /\ Entered'
    BY <2>2, DurableWritten DEF NoSnapshot
  <2>3. ASSUME ~ \E r \in Request :
                    JournalAfterwards(r) \/ JournalFirst(r) \/ ChangeEngineAfterwards(r)
        PROVE  Durable' /\ Entered'
    <3>1. UNCHANGED <<journal, acked>>
      BY <2>3, JournalSteps DEF PurgeJournalBeforeSnapshot, NoSnapshot
    <3>2. Rebuilt' = Rebuilt
      BY <2>1, <3>1, RebuiltKept DEF NoSnapshot
    <3> QED
      BY <2>3, <3>1, <3>2, BelowItself, DurableKept, JournaledSteps
  <2> QED
    BY <2>1, <2>2, <2>3
<1>3. I => Durable
  OBVIOUS
<1> QED
  BY <1>1, <1>2, <1>3, PTL DEF Spec

-----------------------------------------------------------------------------
(* One request at a time, with snapshots                                   *)

(* While a handler runs, no other one does and no snapshot is written, and *)
(* the snapshot there is lies in an earlier millisecond.                   *)
Alone ==
    /\ \A r \in Request : req[r].pc # "idle" =>
          /\ \A q \in Request \ {r} : req[q].pc = "idle"
          /\ \A q \in Request : writer[q] = None
          /\ snap # None => clock > snap.ts
    /\ \A r, q \in Request : writer[r] # None /\ writer[q] # None => r = q

(* The engine a handler works on has what was acknowledged, or will have   *)
(* it when the journal has been replayed.                                  *)
GivenTo(r) ==
    /\ req[r].pc \in {"built", "loaded", "applied", "journaled", "acked"}
          => Holds(heap[req[r].eng])
    /\ req[r].pc = "applied" => Reflects(heap[req[r].eng], req[r].op)
    /\ req[r].pc = "replaying" => Holds(Replay(heap[req[r].eng], req[r].todo))
    /\ req[r].pc # "idle" /\ req[r].op.kind = "revalidate" => JournalComplete

Given == \A r \in Request : GivenTo(r)

(* So has the snapshot being written,                                      *)
Written ==
    \A r \in Request : writer[r] # None =>
        Holds(IF writer[r].image = None THEN heap[writer[r].eng] ELSE writer[r].image.content)

(* and the cached engine, unless it is being emptied and filled again.     *)
Cached ==
    /\ NoneAhead
    /\ \A r \in Request : req[r].pc = "journaled" /\ cache # None => cache.version < version
    /\ ( /\ cache # None /\ cache.version = version
         /\ \A r \in Request :
               req[r].eng = cache.eng => req[r].pc \notin {"cleared", "replaying"} )
       => Holds(heap[cache.eng])

SeqInv == Ready /\ Durable /\ Entered /\ Alone /\ Given /\ Written /\ Cached

LEMMA Sole ==
    ASSUME TypeInv, Alone, NEW r \in Request, req[r].pc # "idle"
    PROVE  /\ \A q \in Request \ {r} : req[q].pc = "idle" /\ req[q].eng = None
           /\ \A q \in Request : writer[q] = None
           /\ snap # None => clock > snap.ts
BY DEF Alone, TypeInv, Shape

(* The running handler takes a step.                                       *)
LEMMA OneRuns ==
    ASSUME TypeInv, Alone, NEW r \in Request, req[r].pc # "idle",
           UNCHANGED <<clock, writer, snap>>, \A q \in Request \ {r} : req'[q] = req[q],
           GivenTo(r)'
    PROVE  Alone' /\ Given' /\ Written'
<1>1. /\ \A q \in Request \ {r} : req'[q].pc = "idle"
      /\ \A q \in Request : writer'[q] = None
  BY Sole
<1>2. Alone' /\ Written'
  BY <1>1, Sole DEF Alone, Written
<1>3. ASSUME NEW q \in Request \ {r} PROVE GivenTo(q)'
  BY <1>1 DEF GivenTo
<1> QED
  BY <1>2, <1>3 DEF Given

LEMMA CompleteKept ==
    ASSUME UNCHANGED <<journal, acked>>
    PROVE  JournalComplete' = JournalComplete
BY DEF JournalComplete

(* The steps of getEngine.                                                 *)
LEMMA SeqGetEngine ==
    ASSUME ~ Overlap, Complete \/ "revalidate" \notin Kinds,
           TypeInv, SeqInv, NEW r \in Request, NEW op \in Op, GetEngine(r, op)
    PROVE  Durable' /\ Entered' /\ Alone' /\ Given' /\ Written' /\ Cached'
<1>1. /\ UNCHANGED <<journal, snap, version, clock, cache, heap, writer, acked>>
      /\ Quiet /\ \A q \in Request \ {r} : req'[q] = req[q]
      /\ op.kind = "revalidate" => JournalComplete
      /\ req'[r].op = op
      /\ \/ /\ cache # None /\ cache.version = version
            /\ req'[r].pc = "loaded" /\ req'[r].eng = cache.eng
         \/ req'[r].pc = "loading" /\ req'[r].eng = None /\ req'[r].ver = version
  BY OpsAndMutations DEF GetEngine, storeVars, Idle, TypeInv, TypeOK
<1>2. \A q \in Request : req[q].pc = "idle" /\ req[q].eng = None /\ writer[q] = None
  BY <1>1 DEF Quiet, Idle
<1>3. \A q \in Request \ {r} : req'[q].pc = "idle"
  BY <1>1, <1>2
<1>4. Rebuilt' = Rebuilt /\ JournalComplete' = JournalComplete
  BY <1>1, RebuiltKept, CompleteKept
<1>5. Alone' /\ Written'
  BY <1>1, <1>2, <1>3 DEF Alone, Written, Quiet
<1>6. cache # None => cache.eng # None
  BY NoneAssumption DEF TypeInv, TypeOK
<1>7. cache # None /\ cache.version = version => Holds(heap[cache.eng])
  BY <1>2, <1>6 DEF SeqInv, Cached
<1>8. GivenTo(r)'
  BY <1>1, <1>4, <1>7 DEF GivenTo, Holds
<1>9. Given'
  <2>1. ASSUME NEW q \in Request \ {r} PROVE GivenTo(q)'
    BY <1>3 DEF GivenTo
  <2> QED
    BY <1>8, <2>1 DEF Given
<1>10. Cached'
  <2>1. NoneAhead'
    BY <1>1, <1>3 DEF SeqInv, Cached, NoneAhead, TypeInv, TypeOK
  <2> QED
    BY <1>1, <1>3, <1>7, <2>1 DEF Cached, Holds
<1>11. Durable' /\ Entered'
  BY <1>1, <1>3, <1>4, BelowItself, DurableKept DEF SeqInv
<1> QED
  BY <1>5, <1>9, <1>10, <1>11

LEMMA SeqLoadEngine ==
    ASSUME TypeInv, SeqInv, NEW r \in Request, LoadEngine(r)
    PROVE  Durable' /\ Entered' /\ Alone' /\ Given' /\ Written' /\ Cached'
<1>1. PICK new : /\ new = CHOOSE e \in EngineId : e \notin InUse
                 /\ req' = [req EXCEPT ![r].pc = "built", ![r].eng = new]
                 /\ heap' = [e \in EngineId |-> IF e = new THEN Rebuilt
                                               ELSE IF e \in InUse THEN heap[e]
                                               ELSE Empty]
                 /\ UNCHANGED <<journal, snap, version, clock, cache, writer, acked>>
                 /\ req[r].pc = "loading"
  BY DEF LoadEngine, storeVars
<1>2. new \in EngineId /\ new \notin InUse
  BY <1>1, FreeEngine
<1>3. /\ req'[r].pc = "built" /\ req'[r].eng = new /\ req'[r].ver = req[r].ver /\ req'[r].op = req[r].op
      /\ \A q \in Request \ {r} : req'[q] = req[q]
  BY <1>1 DEF Handler, TypeInv, TypeOK
<1>4. Rebuilt' = Rebuilt /\ JournalComplete' = JournalComplete
  BY <1>1, RebuiltKept, CompleteKept
<1>5. heap'[new] = Rebuilt /\ (cache # None => cache.eng # new /\ heap'[cache.eng] = heap[cache.eng])
  <2>1. cache # None => cache.eng \in InUse /\ cache.eng \in EngineId
    BY DEF InUse, TypeInv, TypeOK
  <2> QED
    BY <1>1, <1>2, <2>1
<1>6. Holds(Rebuilt)
  BY DEF SeqInv, Durable, Holds
<1>7. GivenTo(r)'
  BY <1>1, <1>3, <1>4, <1>5, <1>6 DEF SeqInv, Given, GivenTo, Holds
<1>8. Alone' /\ Given' /\ Written'
  BY <1>1, <1>3, <1>7, OneRuns DEF SeqInv
<1>9. Cached'
  <2>1. NoneAhead'
    BY <1>1, <1>3 DEF SeqInv, Cached, NoneAhead
  <2>2. \A q \in Request \ {r} : req[q].pc = "idle"
    BY <1>1, Sole DEF SeqInv
  <2>3. \A q \in Request : req[q].pc \notin {"cleared", "replaying", "journaled"}
    BY <1>1, <2>2
  <2> QED
    BY <1>1, <1>3, <1>5, <2>1, <2>2, <2>3 DEF SeqInv, Cached, Holds
<1>10. Durable' /\ Entered'
  BY <1>1, <1>3, <1>4, BelowItself, DurableKept DEF SeqInv
<1> QED
  BY <1>8, <1>9, <1>10

LEMMA SeqCacheEngine ==
    ASSUME TypeInv, SeqInv, NEW r \in Request, CacheEngine(r)
    PROVE  Durable' /\ Entered' /\ Alone' /\ Given' /\ Written' /\ Cached'
<1>1. /\ req[r].pc = "built" /\ UNCHANGED <<journal, snap, version, clock, heap, writer, acked>>
      /\ cache' = [eng |-> req[r].eng, version |-> req[r].ver]
      /\ req'[r].pc = "loaded" /\ req'[r].eng = req[r].eng /\ req'[r].op = req[r].op
      /\ \A q \in Request \ {r} : req'[q] = req[q]
  BY DEF CacheEngine, storeVars, Handler, TypeInv, TypeOK
<1>2. Rebuilt' = Rebuilt /\ JournalComplete' = JournalComplete
  BY <1>1, RebuiltKept, CompleteKept
<1>3. Holds(heap[req[r].eng])
  BY <1>1 DEF SeqInv, Given, GivenTo
<1>4. GivenTo(r)'
  BY <1>1, <1>2, <1>3 DEF SeqInv, Given, GivenTo, Holds
<1>5. Alone' /\ Given' /\ Written'
  BY <1>1, <1>4, OneRuns DEF SeqInv
<1>6. cache'.eng = req[r].eng /\ cache'.version = req[r].ver /\ req[r].ver <= version
  BY <1>1 DEF SeqInv, Cached, NoneAhead
<1>7. Cached'
  <2>1. \A q \in Request \ {r} : req'[q].pc = "idle"
    BY <1>1, Sole DEF SeqInv
  <2>2. NoneAhead'
    BY <1>1, <1>6, <2>1 DEF NoneAhead
  <2> QED
    BY <1>1, <1>3, <1>6, <2>1, <2>2 DEF Cached, Holds
<1>8. Durable' /\ Entered'
  BY <1>1, <1>2, BelowItself, DurableKept DEF SeqInv
<1> QED
  BY <1>5, <1>7, <1>8

(* The engine of the running handler grows.                                *)
LEMMA EngineGrows ==
    ASSUME TypeInv, NEW e \in EngineId, NEW op \in Mutation,
           heap' = [heap EXCEPT ![e] = Apply(@, op)]
    PROVE  /\ heap[e] \in Content /\ heap'[e] = Apply(heap[e], op)
           /\ Below(heap[e], heap'[e]) /\ (Accepts(heap[e], op) => Reflects(heap'[e], op))
           /\ \A d \in EngineId : Below(heap[d], heap'[d])
<1>1. heap[e] \in Content /\ heap'[e] = Apply(heap[e], op)
      /\ \A d \in EngineId \ {e} : heap'[d] = heap[d]
  BY DEF TypeInv, TypeOK
<1>2. Below(heap[e], heap'[e]) /\ (Accepts(heap[e], op) => Reflects(heap'[e], op))
  BY <1>1, ApplyGrows, ApplyReflects
<1>3. \A d \in EngineId : Below(heap[d], heap'[d])
  BY <1>1, <1>2, BelowItself
<1> QED
  BY <1>1, <1>2, <1>3

(* handleAssertFact and handleVerifyFact.                                  *)
LEMMA SeqChangeEngineFirst ==
    ASSUME TypeInv, SeqInv, NEW r \in Request, ChangeEngineFirst(r)
    PROVE  Durable' /\ Entered' /\ Alone' /\ Given' /\ Written' /\ Cached'
<1>1. /\ req[r].pc = "loaded" /\ req[r].eng \in EngineId /\ req[r].op \in Mutation
      /\ UNCHANGED <<journal, snap, version, clock, cache, writer, acked>>
      /\ heap' = [heap EXCEPT ![req[r].eng] = Apply(@, req[r].op)]
  BY HandlerAt DEF ChangeEngineFirst, storeVars
<1>2. /\ \/ req'[r].pc = "idle" /\ req'[r].eng = None
         \/ /\ req'[r].pc = "applied" /\ req'[r].eng = req[r].eng /\ req'[r].op = req[r].op
            /\ Accepts(heap[req[r].eng], req[r].op)
      /\ \A q \in Request \ {r} : req'[q] = req[q]
  BY DEF ChangeEngineFirst, Finish, Idle, Handler, TypeInv, TypeOK
<1>3. Rebuilt' = Rebuilt
  BY <1>1, RebuiltKept
<1>4. /\ Below(heap[req[r].eng], heap'[req[r].eng])
      /\ Accepts(heap[req[r].eng], req[r].op) => Reflects(heap'[req[r].eng], req[r].op)
      /\ \A d \in EngineId : Below(heap[d], heap'[d])
  BY <1>1, EngineGrows
<1>5. Holds(heap[req[r].eng]) /\ TypeOK /\ req[r].op.kind # "revalidate"
  BY <1>1, OpsAndMutations DEF SeqInv, Given, GivenTo, TypeInv
<1>6. Holds(heap'[req[r].eng])
  BY <1>4, <1>5, HoldsBelow
<1>7. GivenTo(r)'
  BY <1>1, <1>2, <1>4, <1>5, <1>6 DEF GivenTo, Holds
<1>8. Alone' /\ Given' /\ Written'
  BY <1>1, <1>2, <1>7, OneRuns DEF SeqInv
<1>9. Cached'
  <2>1. \A q \in Request \ {r} : req[q].pc = "idle"
    BY <1>1, Sole DEF SeqInv
  <2>2. \A q \in Request : /\ req'[q].pc \notin {"journaled", "loading", "built"}
                           /\ req[q].pc \notin {"cleared", "replaying"}
    BY <1>1, <1>2, <2>1
  <2>3. NoneAhead'
    BY <1>1, <2>2 DEF SeqInv, Cached, NoneAhead
  <2>4. cache # None /\ cache.version = version => Holds(heap'[cache.eng])
    <3>1. ASSUME cache # None, cache.version = version PROVE Holds(heap'[cache.eng])
      <4>1. Holds(heap[cache.eng]) /\ cache.eng \in EngineId
        BY <2>2, <3>1 DEF SeqInv, Cached, TypeInv, TypeOK
      <4> QED
        BY <1>4, <1>5, <4>1, HoldsBelow
    <3> QED
      BY <3>1
  <2> QED
    BY <1>1, <2>2, <2>3, <2>4 DEF Cached, Holds
<1>10. Durable' /\ Entered'
  BY <1>1, <1>2, <1>3, BelowItself, DurableKept DEF SeqInv
<1> QED
  BY <1>8, <1>9, <1>10

LEMMA SeqJournalAfterwards ==
    ASSUME Failures => "verify" \notin Kinds,
           TypeInv, SeqInv, NEW r \in Request, JournalAfterwards(r)
    PROVE  Durable' /\ Entered' /\ Alone' /\ Given' /\ Written' /\ Cached'
<1>1. /\ req[r].pc = "applied" /\ req[r].op \in Mutation /\ req[r].op.kind \in Kinds
      /\ req[r].op.kind # "revalidate" /\ UNCHANGED <<clock, cache, heap, writer>>
      /\ req[r].op.kind \in {"assert", "verify"}
  BY HandlerAt, KindOfMutation, OpsAndMutations DEF JournalAfterwards
<1>2. /\ \/ /\ Failures /\ UNCHANGED storeVars /\ acked' = acked
            /\ req'[r].pc = "idle" /\ req'[r].eng = None
         \/ /\ Journaled(req[r].op) /\ acked' = acked \cup {req[r].op}
            /\ req'[r].pc = "acked" /\ req'[r].eng = req[r].eng /\ req'[r].op = req[r].op
      /\ \A q \in Request \ {r} : req'[q] = req[q]
  BY <1>1 DEF JournalAfterwards, AppendFails, Finish, Idle, Handler, TypeInv, TypeOK
<1>3. snap' = snap /\ version' \in {version, version + 1} /\ version \in Nat
  BY <1>2 DEF Journaled, storeVars, TypeInv, TypeOK
<1>4. Holds(heap[req[r].eng]) /\ Reflects(heap[req[r].eng], req[r].op)
  BY <1>1 DEF SeqInv, Given, GivenTo
<1>5. GivenTo(r)'
  BY <1>1, <1>2, <1>4 DEF GivenTo, Holds
<1>6. Alone' /\ Given' /\ Written'
  BY <1>1, <1>2, <1>3, <1>5, OneRuns DEF SeqInv
<1>7. Durable' /\ Entered'
  BY <1>1, Sole, DurableWritten DEF SeqInv
<1>8. Cached'
  <2>1. \A q \in Request \ {r} : req[q].pc = "idle"
    BY <1>1, Sole DEF SeqInv
  <2>2. \A q \in Request : /\ req'[q].pc \notin {"journaled", "loading", "built"}
                           /\ req[q].pc \notin {"cleared", "replaying"}
    BY <1>1, <1>2, <2>1
  <2>3. cache # None => cache.version \in Nat /\ cache.version <= version
    BY DEF SeqInv, Cached, NoneAhead, TypeInv, TypeOK
  <2>4. NoneAhead'
    BY <1>1, <1>3, <2>2, <2>3 DEF NoneAhead
  <2>5. CASE UNCHANGED storeVars /\ acked' = acked
    BY <1>1, <2>2, <2>4, <2>5 DEF SeqInv, Cached, Holds, storeVars
  <2>6. CASE version' = version + 1
    BY <1>1, <1>3, <2>2, <2>3, <2>4, <2>6 DEF Cached
  <2> QED
    BY <1>2, <2>5, <2>6 DEF Journaled
<1> QED
  BY <1>6, <1>7, <1>8

(* handleInvalidateRoot and handleRetractFact.                             *)
LEMMA SeqJournalFirst ==
    ASSUME Failures => "verify" \notin Kinds,
           TypeInv, SeqInv, NEW r \in Request, JournalFirst(r)
    PROVE  Durable' /\ Entered' /\ Alone' /\ Given' /\ Written' /\ Cached'
<1>1. /\ req[r].pc = "loaded" /\ req[r].op \in Mutation
      /\ req[r].op.kind # "revalidate" /\ UNCHANGED <<clock, cache, heap, writer, acked>>
  BY HandlerAt DEF JournalFirst
<1>2. /\ \/ /\ UNCHANGED storeVars /\ req'[r].pc = "idle" /\ req'[r].eng = None
         \/ /\ Journaled(req[r].op) /\ req'[r].pc = "journaled"
            /\ req'[r].eng = req[r].eng /\ req'[r].op = req[r].op
      /\ \A q \in Request \ {r} : req'[q] = req[q]
  BY DEF JournalFirst, AppendFails, Finish, Idle, Handler, TypeInv, TypeOK
<1>3. snap' = snap /\ version' \in {version, version + 1} /\ version \in Nat
  BY <1>2 DEF Journaled, storeVars, TypeInv, TypeOK
<1>4. Holds(heap[req[r].eng])
  BY <1>1 DEF SeqInv, Given, GivenTo
<1>5. GivenTo(r)'
  BY <1>1, <1>2, <1>4 DEF GivenTo, Holds
<1>6. Alone' /\ Given' /\ Written'
  BY <1>1, <1>2, <1>3, <1>5, OneRuns DEF SeqInv
<1>7. Durable' /\ Entered'
  BY <1>1, Sole, DurableWritten DEF SeqInv
<1>8. Cached'
  <2>1. \A q \in Request \ {r} : req[q].pc = "idle"
    BY <1>1, Sole DEF SeqInv
  <2>2. \A q \in Request : /\ req'[q].pc \notin {"loading", "built"}
                           /\ req[q].pc \notin {"cleared", "replaying", "journaled"}
    BY <1>1, <1>2, <2>1
  <2>3. cache # None => cache.version \in Nat /\ cache.version <= version
    BY DEF SeqInv, Cached, NoneAhead, TypeInv, TypeOK
  <2>4. NoneAhead'
    BY <1>1, <1>3, <2>2, <2>3 DEF NoneAhead
  <2>5. CASE UNCHANGED storeVars /\ req'[r].pc = "idle"
    BY <1>1, <1>2, <2>2, <2>4, <2>5 DEF SeqInv, Cached, Holds, storeVars
  <2>6. CASE version' = version + 1
    BY <1>1, <1>3, <2>2, <2>3, <2>4, <2>6 DEF Cached
  <2> QED
    BY <1>2, <2>5, <2>6 DEF Journaled
<1> QED
  BY <1>6, <1>7, <1>8

LEMMA SeqChangeEngineAfterwards ==
    ASSUME Failures => "verify" \notin Kinds,
           TypeInv, SeqInv, NEW r \in Request, ChangeEngineAfterwards(r)
    PROVE  Durable' /\ Entered' /\ Alone' /\ Given' /\ Written' /\ Cached'
<1>1. /\ req[r].pc = "journaled" /\ req[r].op \in Mutation /\ req[r].eng \in EngineId
      /\ req[r].op.kind # "revalidate"
      /\ UNCHANGED <<journal, snap, version, clock, cache, writer>>
      /\ heap' = [heap EXCEPT ![req[r].eng] = Apply(@, req[r].op)]
  BY HandlerAt DEF ChangeEngineAfterwards, storeVars
<1>2. /\ \/ acked' = acked /\ req'[r].pc = "idle" /\ req'[r].eng = None
         \/ /\ acked' = acked \cup {req[r].op} /\ Accepts(heap[req[r].eng], req[r].op)
            /\ req'[r].pc = "acked" /\ req'[r].eng = req[r].eng /\ req'[r].op = req[r].op
      /\ \A q \in Request \ {r} : req'[q] = req[q]
  BY DEF ChangeEngineAfterwards, Finish, Idle, Handler, TypeInv, TypeOK
<1>3. /\ Below(heap[req[r].eng], heap'[req[r].eng])
      /\ Accepts(heap[req[r].eng], req[r].op) => Reflects(heap'[req[r].eng], req[r].op)
  BY <1>1, EngineGrows
<1>4. Holds(heap[req[r].eng]) /\ TypeOK
  BY <1>1 DEF SeqInv, Given, GivenTo, TypeInv
<1>5. Holds(heap'[req[r].eng])
  BY <1>3, <1>4, HoldsBelow
<1>6. GivenTo(r)'
  BY <1>1, <1>2, <1>3, <1>5 DEF GivenTo, Holds
<1>7. Alone' /\ Given' /\ Written'
  BY <1>1, <1>2, <1>6, OneRuns DEF SeqInv
<1>8. Durable' /\ Entered'
  BY <1>1, Sole, DurableWritten DEF SeqInv
<1>9. Cached'
  <2>1. \A q \in Request \ {r} : req[q].pc = "idle"
    BY <1>1, Sole DEF SeqInv
  <2>2. \A q \in Request : req'[q].pc \notin {"journaled", "loading", "built"}
    BY <1>1, <1>2, <2>1
  <2>3. cache # None => cache.version # version
    BY <1>1 DEF SeqInv, Cached, TypeInv, TypeOK
  <2>4. NoneAhead'
    BY <1>1, <2>2 DEF SeqInv, Cached, NoneAhead
  <2> QED
    BY <1>1, <2>2, <2>3, <2>4 DEF Cached
<1> QED
  BY <1>7, <1>8, <1>9

(* handleRevalidate.                                                       *)
LEMMA SeqRevalidateClear ==
    ASSUME TypeInv, SeqInv, NEW r \in Request, RevalidateClear(r)
    PROVE  Durable' /\ Entered' /\ Alone' /\ Given' /\ Written' /\ Cached'
<1>1. /\ req[r].pc = "loaded" /\ req[r].eng \in EngineId /\ req[r].op.kind = "revalidate"
      /\ UNCHANGED <<journal, snap, version, clock, cache, writer, acked>>
      /\ \A e \in EngineId \ {req[r].eng} : heap'[e] = heap[e]
      /\ req'[r].pc = "cleared" /\ req'[r].eng = req[r].eng /\ req'[r].op = req[r].op
      /\ \A q \in Request \ {r} : req'[q] = req[q]
  BY HandlerAt DEF RevalidateClear, storeVars, Handler, TypeInv, TypeOK
<1>2. Rebuilt' = Rebuilt /\ JournalComplete' = JournalComplete
  BY <1>1, RebuiltKept, CompleteKept
<1>3. GivenTo(r)'
  BY <1>1, <1>2 DEF SeqInv, Given, GivenTo
<1>4. Alone' /\ Given' /\ Written'
  BY <1>1, <1>3, OneRuns DEF SeqInv
<1>5. Cached'
  <2>1. \A q \in Request \ {r} : req[q].pc = "idle"
    BY <1>1, Sole DEF SeqInv
  <2>2. \A q \in Request : /\ req'[q].pc \notin {"journaled", "loading", "built"}
                           /\ req[q].pc \notin {"cleared", "replaying"}
    BY <1>1, <2>1
  <2>3. NoneAhead'
    BY <1>1, <2>2 DEF SeqInv, Cached, NoneAhead
  <2>4. cache # None /\ cache.version = version => Holds(heap[cache.eng])
    BY <2>2 DEF SeqInv, Cached
  <2>5. cache # None => cache.eng \in EngineId
    BY DEF TypeInv, TypeOK
  <2> QED
    BY <1>1, <2>2, <2>3, <2>4, <2>5 DEF Cached, Holds
<1>6. Durable' /\ Entered'
  BY <1>1, <1>2, BelowItself, DurableKept DEF SeqInv
<1> QED
  BY <1>4, <1>5, <1>6

LEMMA SeqRevalidateRead ==
    ASSUME TypeInv, SeqInv, NEW r \in Request, RevalidateRead(r)
    PROVE  Durable' /\ Entered' /\ Alone' /\ Given' /\ Written' /\ Cached'
<1>1. /\ req[r].pc = "cleared" /\ req[r].eng \in EngineId /\ req[r].op.kind = "revalidate"
      /\ UNCHANGED <<journal, snap, version, clock, cache, heap, writer, acked>>
      /\ req'[r].pc = "replaying" /\ req'[r].eng = req[r].eng /\ req'[r].op = req[r].op
      /\ req'[r].todo = journal
      /\ \A q \in Request \ {r} : req'[q] = req[q]
  BY HandlerAt DEF RevalidateRead, storeVars, Handler, TypeInv, TypeOK, Shape
<1>2. Rebuilt' = Rebuilt /\ JournalComplete' = JournalComplete
  BY <1>1, RebuiltKept, CompleteKept
<1>3. JournalComplete /\ TypeOK
  BY <1>1 DEF SeqInv, Given, GivenTo, TypeInv
<1>4. Holds(Replay(heap[req[r].eng], journal))
  <2>1. heap[req[r].eng] \in Content /\ journal \in Seq(Entry)
    BY <1>1, <1>3 DEF TypeOK
  <2>2. Below(Empty, heap[req[r].eng])
    BY DEF Empty, Below
  <2>3. Below(Replay(Empty, journal), Replay(heap[req[r].eng], journal))
    BY <2>1, <2>2, EmptyContent, ReplayMonotone
  <2>4. Holds(Replay(Empty, journal))
    BY <1>3 DEF JournalComplete, Holds
  <2> QED
    BY <1>3, <2>3, <2>4, HoldsBelow
<1>5. GivenTo(r)'
  BY <1>1, <1>2, <1>3, <1>4 DEF GivenTo, Holds
<1>6. Alone' /\ Given' /\ Written'
  BY <1>1, <1>5, OneRuns DEF SeqInv
<1>7. Cached'
  <2>1. \A q \in Request \ {r} : req[q].pc = "idle"
    BY <1>1, Sole DEF SeqInv
  <2>2. \A q \in Request : req'[q].pc \notin {"journaled", "loading", "built"}
    BY <1>1, <2>1
  <2>3. NoneAhead'
    BY <1>1, <2>2 DEF SeqInv, Cached, NoneAhead
  <2> QED
    BY <1>1, <2>1, <2>2, <2>3 DEF SeqInv, Cached, Holds
<1>8. Durable' /\ Entered'
  BY <1>1, <1>2, BelowItself, DurableKept DEF SeqInv
<1> QED
  BY <1>6, <1>7, <1>8

LEMMA SeqRevalidateReplay ==
    ASSUME TypeInv, SeqInv, NEW r \in Request, RevalidateReplay(r)
    PROVE  Durable' /\ Entered' /\ Alone' /\ Given' /\ Written' /\ Cached'
<1> DEFINE e == req[r].eng
           t == req[r].todo
<1>1. /\ req[r].pc = "replaying" /\ e \in EngineId /\ t \in Seq(Entry)
      /\ UNCHANGED <<journal, snap, version, clock, cache, writer, acked>>
      /\ heap[e] \in Content /\ TypeOK
  BY HandlerAt DEF RevalidateReplay, storeVars, Handler, TypeInv, TypeOK
<1>2. Rebuilt' = Rebuilt /\ JournalComplete' = JournalComplete
  BY <1>1, RebuiltKept, CompleteKept
<1>3. Holds(Replay(heap[e], t)) /\ (req[r].op.kind = "revalidate" => JournalComplete)
  BY <1>1 DEF SeqInv, Given, GivenTo
<1>4. \A q \in Request \ {r} : req[q].pc = "idle" /\ req[q].eng = None
  BY <1>1, Sole DEF SeqInv
<1>5. CASE t = <<>>
  <2>1. /\ heap' = heap /\ req'[r].pc = "idle"
        /\ \A q \in Request \ {r} : req'[q] = req[q]
    BY <1>5 DEF RevalidateReplay, Finish, Idle, TypeInv, TypeOK
  <2>2. Holds(heap[e])
    BY <1>1, <1>3, <1>5, ReplayEmpty
  <2>3. GivenTo(r)'
    BY <2>1 DEF GivenTo
  <2>4. Alone' /\ Given' /\ Written'
    BY <1>1, <2>1, <2>3, OneRuns DEF SeqInv
  <2>5. Cached'
    <3>1. \A q \in Request : req'[q].pc = "idle"
      BY <1>4, <2>1
    <3>2. NoneAhead'
      BY <1>1, <3>1 DEF SeqInv, Cached, NoneAhead
    <3>3. cache # None /\ cache.version = version => Holds(heap[cache.eng])
      <4>1. CASE cache # None /\ cache.eng = e
        BY <2>2, <4>1
      <4>2. CASE cache # None /\ cache.eng # e
        BY <1>4, <4>2, NoneAssumption DEF SeqInv, Cached, TypeInv, TypeOK
      <4> QED
        BY <4>1, <4>2
    <3> QED
      BY <1>1, <2>1, <3>1, <3>2, <3>3 DEF Cached, Holds
  <2>6. Durable' /\ Entered'
    BY <1>1, <1>2, <2>1, BelowItself, DurableKept DEF SeqInv
  <2> QED
    BY <2>4, <2>5, <2>6
<1>6. CASE t # <<>>
  <2>1. /\ heap' = [heap EXCEPT ![e] = Apply(@, Head(t).op)]
        /\ req'[r].pc = "replaying" /\ req'[r].eng = e /\ req'[r].todo = Tail(t)
        /\ req'[r].op = req[r].op
        /\ \A q \in Request \ {r} : req'[q] = req[q]
    <3>1. /\ heap' = [heap EXCEPT ![e] = Apply(@, Head(t).op)]
          /\ req' = [req EXCEPT ![r].todo = Tail(@)]
      BY <1>6 DEF RevalidateReplay
    <3>2. req \in [Request -> Handler]
      BY <1>1 DEF TypeOK
    <3> QED
      BY <1>1, <3>1, <3>2 DEF Handler
  <2>2. heap'[e] = Apply(heap[e], Head(t).op) /\ \A d \in EngineId \ {e} : heap'[d] = heap[d]
    BY <1>1, <2>1 DEF TypeOK
  <2>3. Holds(Replay(heap'[e], Tail(t)))
    BY <1>1, <1>3, <1>6, <2>2, ReplayHead
  <2> HIDE DEF e, t
  <2>4. GivenTo(r)'
    BY <1>1, <1>2, <1>3, <2>1, <2>3 DEF GivenTo, Holds
  <2>5. Alone' /\ Given' /\ Written'
    BY <1>1, <2>1, <2>4, OneRuns DEF SeqInv
  <2>6. Cached'
    <3>1. \A q \in Request : req'[q].pc \notin {"journaled", "loading", "built"}
      BY <1>4, <2>1
    <3>2. NoneAhead'
      BY <1>1, <3>1 DEF SeqInv, Cached, NoneAhead
    <3>3. cache # None /\ cache.version = version /\ cache.eng # e => Holds(heap[cache.eng])
      BY <1>4, NoneAssumption DEF SeqInv, Cached, TypeInv, TypeOK, e
    <3>4. cache # None => cache.eng \in EngineId
      BY DEF TypeInv, TypeOK
    <3> QED
      BY <1>1, <2>1, <2>2, <3>1, <3>2, <3>3, <3>4 DEF Cached, Holds
  <2>7. Durable' /\ Entered'
    BY <1>1, <1>2, <2>1, BelowItself, DurableKept DEF SeqInv
  <2> QED
    BY <2>5, <2>6, <2>7
<1> QED
  BY <1>5, <1>6

(* The end of a handler, and the goroutine it may leave behind.            *)
LEMMA SeqCheckSnapshotTrigger ==
    ASSUME TypeInv, SeqInv, NEW r \in Request, CheckSnapshotTrigger(r)
    PROVE  Durable' /\ Entered' /\ Alone' /\ Given' /\ Written' /\ Cached'
<1>1. /\ req[r].pc = "acked" /\ UNCHANGED <<journal, snap, version, clock, cache, heap, acked>>
      /\ req'[r].pc = "idle" /\ req'[r].eng = None /\ \A q \in Request \ {r} : req'[q] = req[q]
      /\ writer' = writer \/ writer' = [writer EXCEPT ![r] = [eng |-> req[r].eng, image |-> None]]
  BY DEF CheckSnapshotTrigger, Finish, Idle, storeVars, TypeInv, TypeOK
<1>2. Rebuilt' = Rebuilt
  BY <1>1, RebuiltKept
<1>3. \A q \in Request : req'[q].pc = "idle" /\ req[q].pc \notin {"cleared", "replaying"}
  BY <1>1, Sole DEF SeqInv
<1>4. \A q \in Request : writer[q] = None
  BY <1>1, Sole DEF SeqInv
<1>5. Holds(heap[req[r].eng])
  BY <1>1 DEF SeqInv, Given, GivenTo
<1>6. \A q \in Request : writer'[q] # None =>
         q = r /\ writer'[q].eng = req[r].eng /\ writer'[q].image = None
  BY <1>1, <1>4 DEF TypeInv, TypeOK
<1>7. Alone' /\ Given'
  BY <1>3, <1>6 DEF Alone, Given, GivenTo
<1>8. Written'
  BY <1>1, <1>5, <1>6 DEF Written, Holds
<1>9. Cached'
  <2>1. NoneAhead'
    BY <1>1, <1>3 DEF SeqInv, Cached, NoneAhead
  <2> QED
    BY <1>1, <1>3, <2>1 DEF SeqInv, Cached, Holds
<1>10. Durable' /\ Entered'
  BY <1>1, <1>2, <1>3, BelowItself, DurableKept DEF SeqInv
<1> QED
  BY <1>7, <1>8, <1>9, <1>10

LEMMA SeqToSnapshot ==
    ASSUME TypeInv, SeqInv, NEW r \in Request, ToSnapshot(r)
    PROVE  Durable' /\ Entered' /\ Alone' /\ Given' /\ Written' /\ Cached'
<1>1. /\ writer[r] # None /\ writer[r].image = None
      /\ UNCHANGED <<journal, snap, version, clock, cache, heap, req, acked>>
      /\ writer[r] \in [eng : EngineId, image : Image \cup {None}]
  BY DEF ToSnapshot, storeVars, TypeInv, TypeOK
<1>2. /\ writer'[r].image = [ts |-> clock, content |-> heap[writer[r].eng]]
      /\ writer'[r].eng = writer[r].eng
      /\ \A q \in Request \ {r} : writer'[q] = writer[q]
  BY <1>1 DEF ToSnapshot, TypeInv, TypeOK
<1>3. \A q \in Request : req[q].pc = "idle"
  BY <1>1 DEF SeqInv, Alone
<1>4. \A q \in Request \ {r} : writer[q] = None
  BY <1>1 DEF SeqInv, Alone
<1>5. Rebuilt' = Rebuilt
  BY <1>1, RebuiltKept
<1>6. Alone' /\ Given'
  BY <1>1, <1>2, <1>3, <1>4 DEF Alone, Given, GivenTo
<1>7. Written'
  <2>1. Holds(heap[writer[r].eng])
    BY <1>1 DEF SeqInv, Written
  <2>2. writer'[r].image.content = heap[writer[r].eng]
    BY <1>2
  <2> QED
    BY <1>1, <1>2, <1>4, <2>1, <2>2 DEF Written, Holds
<1>8. Cached'
  BY <1>1 DEF SeqInv, Cached, NoneAhead, Holds
<1>9. Durable' /\ Entered'
  BY <1>1, <1>5, BelowItself, DurableKept DEF SeqInv
<1> QED
  BY <1>6, <1>7, <1>8, <1>9

LEMMA SeqSaveSnapshot ==
    ASSUME TypeInv, SeqInv, NEW r \in Request, SaveSnapshot(r)
    PROVE  Durable' /\ Entered' /\ Alone' /\ Given' /\ Written' /\ Cached'
<1>1. /\ writer[r] # None /\ writer[r].image # None /\ version' = version + 1
      /\ UNCHANGED <<journal, clock, cache, heap, req, acked>>
      /\ writer'[r] = None /\ \A q \in Request \ {r} : writer'[q] = writer[q]
      /\ version \in Nat /\ TypeOK
  BY DEF SaveSnapshot, TypeInv, TypeOK
<1>2. \A q \in Request : req'[q].pc = "idle"
  BY <1>1 DEF SeqInv, Alone
<1>3. \A q \in Request : writer'[q] = None
  BY <1>1 DEF SeqInv, Alone
<1>4. Alone' /\ Given' /\ Written' /\ Entered'
  BY <1>2, <1>3 DEF Alone, Given, GivenTo, Written, Entered
<1>5. Durable'
  <2>1. Holds(writer[r].image.content)
    BY <1>1 DEF SeqInv, Written
  <2>2. Holds(Rebuilt')
    BY <1>1, <2>1, RebuiltSaved, HoldsBelow
  <2> QED
    BY <1>1, <2>2 DEF Durable, Holds
<1>6. Cached'
  <2>1. cache # None => cache.version \in Nat /\ cache.version <= version
    BY DEF SeqInv, Cached, NoneAhead, TypeInv, TypeOK
  <2>2. cache # None => cache.version < version'
    BY <1>1, <2>1
  <2> QED
    BY <1>1, <1>2, <2>1, <2>2 DEF Cached, NoneAhead
<1> QED
  BY <1>4, <1>5, <1>6

(* The steps no handler and no goroutine takes.                            *)
LEMMA SeqOthers ==
    ASSUME ~ Overlap, TypeInv, SeqInv,
           PurgeJournalBeforeSnapshot \/ Tick \/ Evict \/ Crash \/ UNCHANGED vars
    PROVE  Durable' /\ Entered' /\ Alone' /\ Given' /\ Written' /\ Cached'
<1>0. TypeOK
  BY DEF TypeInv
<1>1. Rebuilt' = Rebuilt /\ acked' = acked
  <2>1. CASE PurgeJournalBeforeSnapshot
    BY <1>0, <2>1, RebuiltPurged DEF PurgeJournalBeforeSnapshot
  <2>2. CASE ~ PurgeJournalBeforeSnapshot
    BY <2>2, RebuiltKept DEF Tick, Evict, Crash, vars, storeVars
  <2> QED
    BY <2>1, <2>2
<1>2. (\A q \in Request : req'[q].pc = "idle") \/ UNCHANGED <<req, heap, journal>>
  BY DEF PurgeJournalBeforeSnapshot, Tick, Evict, Crash, vars, storeVars, Quiet, Idle
<1>3. Durable' /\ Entered'
  <2>1. \A q \in Request : req'[q].pc = "journaled" => req[q].pc = "journaled" /\ req'[q].op = req[q].op
    BY <1>2
  <2> QED
    BY <1>1, <2>1, BelowItself, DurableKept DEF SeqInv
<1>4. Given'
  <2>1. CASE \A q \in Request : req'[q].pc = "idle"
    BY <2>1 DEF Given, GivenTo
  <2>2. CASE UNCHANGED <<req, heap, journal>>
    <3>1. JournalComplete' = JournalComplete
      BY <1>1, <2>2, CompleteKept
    <3> QED
      BY <1>1, <2>2, <3>1 DEF SeqInv, Given, GivenTo, Holds
  <2> QED
    BY <1>2, <2>1, <2>2
<1>5. CASE Crash
  <2>1. cache' = None /\ \A q \in Request : req'[q].pc = "idle" /\ writer'[q] = None
    BY <1>5 DEF Crash, Idle
  <2> QED
    BY <1>3, <1>4, <2>1 DEF Alone, Written, Cached, NoneAhead
<1>6. CASE ~ Crash
  <2>1. /\ UNCHANGED <<snap, version, heap, req, writer, acked>> /\ clock' \in {clock, clock + 1}
        /\ cache' \in {cache, None}
    BY <1>6 DEF PurgeJournalBeforeSnapshot, Tick, Evict, vars, storeVars
  <2>2. clock \in Nat /\ (snap # None => snap.ts \in Nat)
    BY <1>0 DEF TypeOK, Image
  <2>3. Alone'
    BY <2>1, <2>2 DEF SeqInv, Alone
  <2>4. Written' /\ Cached'
    BY <2>1 DEF SeqInv, Written, Cached, NoneAhead, Holds
  <2> QED
    BY <1>3, <1>4, <2>3, <2>4
<1> QED
  BY <1>5, <1>6

LEMMA SeqInvStep ==
    ASSUME ~ Overlap, Patient, Complete \/ "revalidate" \notin Kinds,
           Failures => "verify" \notin Kinds, TypeInv, SeqInv, [Next]_vars
    PROVE  SeqInv'
<1> DEFINE Rest == Durable' /\ Entered' /\ Alone' /\ Given' /\ Written' /\ Cached'
<1>1. Ready'
  BY ReadyStep DEF SeqInv
<1>2. ASSUME NEW r \in Request, NEW op \in Op, GetEngine(r, op) PROVE Rest
  BY <1>2, SeqGetEngine
<1>3. ASSUME NEW r \in Request, LoadEngine(r) PROVE Rest
  BY <1>3, SeqLoadEngine
<1>4. ASSUME NEW r \in Request, CacheEngine(r) PROVE Rest
  BY <1>4, SeqCacheEngine
<1>5. ASSUME NEW r \in Request, ChangeEngineFirst(r) PROVE Rest
  BY <1>5, SeqChangeEngineFirst
<1>6. ASSUME NEW r \in Request, JournalAfterwards(r) PROVE Rest
  BY <1>6, SeqJournalAfterwards
<1>7. ASSUME NEW r \in Request, JournalFirst(r) PROVE Rest
  BY <1>7, SeqJournalFirst
<1>8. ASSUME NEW r \in Request, ChangeEngineAfterwards(r) PROVE Rest
  BY <1>8, SeqChangeEngineAfterwards
<1>9. ASSUME NEW r \in Request, RevalidateClear(r) PROVE Rest
  BY <1>9, SeqRevalidateClear
<1>10. ASSUME NEW r \in Request, RevalidateRead(r) PROVE Rest
  BY <1>10, SeqRevalidateRead
<1>11. ASSUME NEW r \in Request, RevalidateReplay(r) PROVE Rest
  BY <1>11, SeqRevalidateReplay
<1>12. ASSUME NEW r \in Request, CheckSnapshotTrigger(r) PROVE Rest
  BY <1>12, SeqCheckSnapshotTrigger
<1>13. ASSUME NEW r \in Request, ToSnapshot(r) PROVE Rest
  BY <1>13, SeqToSnapshot
<1>14. ASSUME NEW r \in Request, SaveSnapshot(r) PROVE Rest
  BY <1>14, SeqSaveSnapshot
<1>15. ASSUME PurgeJournalBeforeSnapshot \/ Tick \/ Evict \/ Crash \/ UNCHANGED vars PROVE Rest
  BY <1>15, SeqOthers
<1> HIDE DEF Rest
<1>16. Rest
  BY <1>2, <1>3, <1>4, <1>5, <1>6, <1>7, <1>8, <1>9, <1>10, <1>11, <1>12, <1>13, <1>14,
     <1>15 DEF Next
<1> QED
  BY <1>1, <1>16 DEF SeqInv, Rest

LEMMA SeqInvInit == Init => SeqInv
<1> SUFFICES ASSUME Init PROVE SeqInv
  OBVIOUS
<1>1. /\ acked = {} /\ snap = None /\ cache = None
      /\ \A r \in Request : req[r].pc = "idle" /\ writer[r] = None
  BY DEF Init, Idle
<1> QED
  BY <1>1 DEF SeqInv, Ready, Durable, Entered, Alone, Given, GivenTo, Written, Cached, NoneAhead

(* When a request starts only after the one before it, and the snapshot it *)
(* caused, are done, what a client was told has succeeded survives crashes *)
(* and evictions at any point, failed appends, snapshots and purges of the *)
(* journal: the engine the store rebuilds has it.  Clients refer to        *)
(* acknowledged facts, and revalidate only while the journal is complete.  *)
THEOREM DurableInSequence ==
    ASSUME ~ Overlap, Patient, Complete \/ "revalidate" \notin Kinds,
           Failures => "verify" \notin Kinds
    PROVE  Spec => []Durable
<1>1. Init => TypeInv /\ SeqInv
  BY TypeInit, SeqInvInit
<1>2. (TypeInv /\ SeqInv) /\ [Next]_vars => (TypeInv /\ SeqInv)'
  BY TypeStep, SeqInvStep
<1>3. TypeInv /\ SeqInv => Durable
  BY DEF SeqInv
<1> QED
  BY <1>1, <1>2, <1>3, PTL DEF Spec

(* Under the same conditions the engine that the next request is given,    *)
(* from the cache or rebuilt, has everything that was acknowledged, also   *)
(* after a revalidation has emptied the cached engine and replayed the     *)
(* journal into it.                                                        *)
THEOREM AlwaysReadYourWrites ==
    ASSUME ~ Overlap, Patient, Complete \/ "revalidate" \notin Kinds,
           Failures => "verify" \notin Kinds
    PROVE  Spec => []ReadYourWrites
<1>1. Init => TypeInv /\ SeqInv
  BY TypeInit, SeqInvInit
<1>2. (TypeInv /\ SeqInv) /\ [Next]_vars => (TypeInv /\ SeqInv)'
  BY TypeStep, SeqInvStep
<1>3. TypeInv /\ SeqInv => ReadYourWrites
  <2> SUFFICES ASSUME TypeInv, SeqInv, Quiet PROVE ReadYourWrites
    BY DEF ReadYourWrites
  <2>1. \A r \in Request : req[r].pc = "idle"
    BY DEF Quiet, Idle
  <2>2. cache # None /\ cache.version = version => Holds(heap[cache.eng])
    BY <2>1 DEF SeqInv, Cached
  <2>3. Holds(Rebuilt)
    BY DEF SeqInv, Durable, Holds
  <2> QED
    BY <2>2, <2>3 DEF ReadYourWrites, Holds
<1> QED
  BY <1>1, <1>2, <1>3, PTL DEF Spec
=============================================================================
