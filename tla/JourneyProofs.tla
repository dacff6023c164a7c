--------------------------- MODULE JourneyProofs ---------------------------
(***************************************************************************)
(* Theorems about Journey, proved with TLAPS for any deployment, header    *)
(* keys, middleware chains and length of the journey: what becomes of the  *)
(* trace, the message ID and the header.                                   *)
(***************************************************************************)
EXTENDS Journey, FiniteSetTheorems, TLAPS

USE JourneyAssumption

-----------------------------------------------------------------------------
(* Types *)

Wires == [on : Publishes \cup Requests \cup {None}, id : Values \cup {None},
          header : Headers, span : {"same", "linked", "none"}]

\* A message that is not with a sender has travelled over the transport whose
\* frame the receiver was given.
TypeOK ==
  /\ at \in {"sender", "wire", "middleware", "handler"}
  /\ ctx \in Contexts
  /\ header \in Headers
  /\ chain \in Seq(Middlewares)
  /\ wire \in Wires
  /\ sent \in Contexts
  /\ at # "sender" => wire.on \in used \cap (Publishes \cup Requests)

-----------------------------------------------------------------------------
(* Headers *)

\* What a header holds under a key is a sequence of values.
LEMMA ValuesTyped ==
  ASSUME NEW h \in Headers, NEW k \in Keys
  PROVE  ValuesOf(h, k) \in Seq(Values)
  BY DEF Headers, ValuesOf

\* The ID a header names is a value.
LEMMA IDTyped ==
  ASSUME NEW h \in Headers, Has(h, IDKey)
  PROVE  Get(h, IDKey) \in Values
  <1>1. ValuesOf(h, IDKey) \in Seq(Values)
    BY ValuesTyped
  <1> QED
    BY <1>1 DEF Get, Has

\* A slot is a key of the canonical form and an index of one of its values.
LEMMA SlotsTyped ==
  ASSUME NEW h \in Headers, NEW k
  PROVE  /\ \A j \in Keys : \A i \in DOMAIN ValuesOf(h, j) :
              Canon[j] = k => <<j, i>> \in Slots(h, k)
         /\ \A s \in Slots(h, k) : /\ s[1] \in Keys /\ Canon[s[1]] = k
                                   /\ s[2] \in DOMAIN ValuesOf(h, s[1])
                                   /\ s = <<s[1], s[2]>>
                                   /\ At(h, s) \in Values
  <1>1. \A j \in Keys : \A i \in DOMAIN ValuesOf(h, j) :
          Canon[j] = k => <<j, i>> \in Slots(h, k)
    BY DEF Slots
  <1>2. ASSUME NEW s \in Slots(h, k)
        PROVE  /\ s[1] \in Keys /\ Canon[s[1]] = k
               /\ s[2] \in DOMAIN ValuesOf(h, s[1])
               /\ s = <<s[1], s[2]>>
    BY <1>2 DEF Slots
  <1>3. ASSUME NEW s \in Slots(h, k)
        PROVE  At(h, s) \in Values
    <2>1. ValuesOf(h, s[1]) \in Seq(Values)
      BY <1>2, <1>3, ValuesTyped
    <2> QED
      BY <1>2, <1>3, <2>1 DEF At
  <1> QED
    BY <1>1, <1>2, <1>3

\* There are finitely many of them.
LEMMA SlotsFinite ==
  ASSUME NEW h \in Headers, NEW k
  PROVE  IsFiniteSet(Slots(h, k)) /\ Cardinality(Slots(h, k)) \in Nat
  <1> DEFINE J == {j \in Keys : Canon[j] = k}
             block == [j \in J |-> {j} \X DOMAIN ValuesOf(h, j)]
             B == {block[j] : j \in J}
  <1>1. IsFiniteSet(J)
    BY FS_Subset
  <1>2. block \in Surjection(J, B)
    BY DEF Surjection
  <1>3. IsFiniteSet(B)
    BY <1>1, <1>2, FS_Surjection
  <1>4. ASSUME NEW T \in B
        PROVE  IsFiniteSet(T)
    <2>1. PICK j \in J : T = {j} \X DOMAIN ValuesOf(h, j)
      BY <1>4
    <2>2. ValuesOf(h, j) \in Seq(Values)
      BY <2>1, ValuesTyped
    <2>3. IsFiniteSet(DOMAIN ValuesOf(h, j))
      <3>1. DOMAIN ValuesOf(h, j) = 1 .. Len(ValuesOf(h, j)) /\ Len(ValuesOf(h, j)) \in Int
        BY <2>2
      <3> QED
        BY <3>1, FS_Interval
    <2>4. IsFiniteSet({j})
      BY FS_Singleton
    <2> QED
      BY <2>1, <2>3, <2>4, FS_Product
  <1>5. UNION B = Slots(h, k)
    BY DEF Slots
  <1> HIDE DEF B
  <1> QED
    BY <1>3, <1>4, <1>5, FS_UNION, FS_CardinalityType

\* An order visits every slot once.
LEMMA OrderIsBijection ==
  ASSUME NEW h \in Headers, NEW k, NEW order \in Appended(h, k)
  PROVE  LET n == Cardinality(Slots(h, k))
         IN  n \in Nat /\ order \in Bijection(1 .. n, Slots(h, k))
  <1> DEFINE S == Slots(h, k)
             n == Cardinality(S)
  <1>1. IsFiniteSet(S) /\ n \in Nat
    BY SlotsFinite
  <1>2. order \in Injection(1 .. n, S)
    BY DEF Appended, SetToSeqs, Injection, IsInjective
  <1> HIDE DEF S
  <1>3. IsFiniteSet(1 .. n) /\ Cardinality(1 .. n) = n
    BY <1>1, FS_Interval
  <1>4. order \in Surjection(1 .. n, S)
    BY <1>1, <1>2, <1>3, FS_Injection
  <1> QED
    BY <1>1, <1>2, <1>4 DEF Bijection, S

\* What is merged is a sequence of values.
LEMMA MergedTyped ==
  ASSUME NEW h \in Headers, NEW k, NEW s \in Merged(h, k)
  PROVE  s \in Seq(Values)
  <1>1. PICK order \in Appended(h, k) : s = [n \in DOMAIN order |-> At(h, order[n])]
    BY DEF Merged
  <1>2. PICK n \in Nat : order \in [1 .. n -> Slots(h, k)]
    BY OrderIsBijection DEF Bijection, Injection
  <1>3. DOMAIN order = 1 .. n /\ \A i \in 1 .. n : At(h, order[i]) \in Values
    BY <1>2, SlotsTyped
  <1> QED
    BY <1>1, <1>3

\* No key has a canonical form that is not one.
LEMMA NoSlots ==
  ASSUME NEW h \in Headers, NEW k \in Keys, Canon[k] # k
  PROVE  Slots(h, k) = {}
  BY SlotsTyped

\* Nothing is merged for such a key.
LEMMA NothingMerged ==
  ASSUME NEW h \in Headers, NEW k \in Keys, Canon[k] # k, NEW s \in Merged(h, k)
  PROVE  s = <<>>
  <1>1. PICK order \in Appended(h, k) : s = [n \in DOMAIN order |-> At(h, order[n])]
    BY DEF Merged
  <1>2. PICK n \in Nat : order \in [1 .. n -> Slots(h, k)]
    BY OrderIsBijection DEF Bijection, Injection
  <1>3. 1 .. n = {}
    BY <1>2, NoSlots
  <1>4. DOMAIN s = {}
    BY <1>1, <1>2, <1>3
  <1>5. s \in Seq(Values)
    BY MergedTyped
  <1> QED
    BY <1>4, <1>5

\* Merging keeps the values of a canonical key, each as often as it was there.
LEMMA MergingKeepsOccurrences ==
  ASSUME NEW h \in Headers, NEW g \in [Keys -> Seq(Values)],
         \A k \in Keys : g[k] \in Merged(h, k),
         NEW k \in Keys, NEW v
  PROVE  Occurrences(g, k, v) = Occurrences(h, k, v)
  <1>1. g \in Headers /\ \A j \in Keys : ValuesOf(g, j) = g[j]
    BY DEF Headers, ValuesOf
  <1>2. CASE Canon[k] # k
    <2>1. Slots(g, k) = {} /\ Slots(h, k) = {}
      BY <1>1, <1>2, NoSlots
    <2> QED
      BY <2>1 DEF Occurrences
  <1>3. CASE Canon[k] = k
    <2> DEFINE n == Cardinality(Slots(h, k))
               A == {s \in Slots(g, k) : At(g, s) = v}
               B == {s \in Slots(h, k) : At(h, s) = v}
    <2>1. PICK order \in Appended(h, k) : g[k] = [i \in DOMAIN order |-> At(h, order[i])]
      BY DEF Merged
    <2>2. n \in Nat /\ order \in Bijection(1 .. n, Slots(h, k))
      BY OrderIsBijection
    <2>3. DOMAIN order = 1 .. n /\ DOMAIN g[k] = 1 .. n
      BY <2>1, <2>2 DEF Bijection, Injection
    <2> HIDE DEF n
    <2>4. \A s \in Slots(g, k) : s = <<k, s[2]>> /\ s[2] \in 1 .. n
      <3>1. \A j \in Keys : Canon[j] = k /\ j # k => g[j] = <<>>
        BY NothingMerged
      <3>2. \A s \in Slots(g, k) : /\ s[1] \in Keys /\ Canon[s[1]] = k
                                   /\ s[2] \in DOMAIN g[s[1]] /\ s = <<s[1], s[2]>>
        BY <1>1, SlotsTyped
      <3>3. \A s \in Slots(g, k) : s[1] = k
        BY <3>1, <3>2
      <3> QED
        BY <2>3, <3>2, <3>3
    <2>5. \A i \in 1 .. n : <<k, i>> \in Slots(g, k)
      BY <1>1, <1>3, <2>3, SlotsTyped
    <2>6. \A i \in 1 .. n : At(g, <<k, i>>) = At(h, order[i])
      <3> SUFFICES ASSUME NEW i \in 1 .. n PROVE At(g, <<k, i>>) = At(h, order[i])
        OBVIOUS
      <3>1. g[k][i] = At(h, order[i])
        BY <2>1, <2>3
      <3>2. At(g, <<k, i>>) = g[k][i]
        BY <1>1 DEF At
      <3> QED
        BY <3>1, <3>2
    <2> DEFINE f == [s \in A |-> order[s[2]]]
    <2>7. f \in [A -> B]
      <3> SUFFICES ASSUME NEW s \in A PROVE order[s[2]] \in B
        OBVIOUS
      <3>1. s = <<k, s[2]>> /\ s[2] \in 1 .. n /\ At(g, s) = v
        BY <2>4
      <3>2. order[s[2]] \in Slots(h, k) /\ At(h, order[s[2]]) = v
        BY <2>2, <2>6, <3>1 DEF Bijection, Injection
      <3> QED
        BY <3>2
    <2>8. \A s, t \in A : f[s] = f[t] => s = t
      <3> SUFFICES ASSUME NEW s \in A, NEW t \in A, order[s[2]] = order[t[2]] PROVE s = t
        OBVIOUS
      <3>1. s = <<k, s[2]>> /\ s[2] \in 1 .. n /\ t = <<k, t[2]>> /\ t[2] \in 1 .. n
        BY <2>4
      <3>2. \A a, b \in 1 .. n : order[a] = order[b] => a = b
        BY <2>2, <2>3 DEF Bijection, Injection, IsInjective
      <3>3. s[2] = t[2]
        BY <3>1, <3>2
      <3> QED
        BY <3>1, <3>3
    <2>9. \A b \in B : \E s \in A : f[s] = b
      <3> SUFFICES ASSUME NEW b \in B PROVE \E s \in A : order[s[2]] = b
        OBVIOUS
      <3>1. PICK i \in 1 .. n : order[i] = b
        BY <2>2 DEF Bijection, Surjection
      <3>2. <<k, i>> \in A
        BY <2>5, <2>6, <3>1
      <3>3. order[<<k, i>>[2]] = b
        BY <3>1
      <3> QED
        BY <3>2, <3>3
    <2>10. IsFiniteSet(A)
      BY <1>1, SlotsFinite, FS_Subset
    <2> HIDE DEF A, B, f
    <2>11. f \in Bijection(A, B)
      <3>1. DOMAIN f = A
        BY <2>7
      <3>2. f \in Injection(A, B)
        BY <2>7, <2>8, <3>1 DEF Injection, IsInjective
      <3>3. f \in Surjection(A, B)
        BY <2>7, <2>9 DEF Surjection
      <3> QED
        BY <3>2, <3>3 DEF Bijection
    <2>12. Cardinality(B) = Cardinality(A)
      BY <2>10, <2>11, FS_Bijection DEF ExistsBijection
    <2> QED
      BY <2>12 DEF Occurrences, A, B
  <1> QED
    BY <1>2, <1>3

\* What a transport carries of a header is a header ...
LEMMA OnWireTyped ==
  ASSUME NEW t \in Publishes, NEW h \in Headers, NEW g \in OnWire(t, h)
  PROVE  /\ g \in Headers
         /\ t = "http" => g \in [Keys -> Seq(Values)] /\ \A k \in Keys : g[k] \in Merged(h, k)
  <1>1. CASE t = "http"
    <2>1. g \in [Keys -> UNION {Merged(h, k) : k \in Keys}] /\ \A k \in Keys : g[k] \in Merged(h, k)
      BY <1>1 DEF OnWire
    <2>2. \A k \in Keys : g[k] \in Seq(Values)
      BY <2>1, MergedTyped
    <2>3. g \in [Keys -> Seq(Values)]
      BY <2>1, <2>2
    <2> QED
      BY <2>1, <2>3 DEF Headers
  <1>2. CASE t \in {"nats", "jetstream"}
    <2>1. g = [k \in Keys |-> ValuesOf(h, k)]
      BY <1>2 DEF OnWire
    <2>2. g \in [Keys -> Seq(Values)]
      BY <2>1, ValuesTyped
    <2> QED
      BY <1>2, <2>2 DEF Headers
  <1>3. CASE t = "channel"
    BY <1>3 DEF OnWire
  <1> QED
    BY <1>1, <1>2, <1>3 DEF Publishes

\* ... with an ID only if the header has one ...
LEMMA OnWireID ==
  ASSUME NEW t \in Publishes, NEW h \in Headers, NEW g \in OnWire(t, h), Has(g, IDKey)
  PROVE  Has(h, IDKey)
  <1>1. CASE t = "http"
    <2>1. g \in [Keys -> Seq(Values)] /\ g[IDKey] \in Merged(h, IDKey)
      BY <1>1, OnWireTyped
    <2> QED
      BY <2>1, NothingMerged DEF Has, ValuesOf
  <1>2. CASE t \in {"nats", "jetstream"}
    <2>1. g = [k \in Keys |-> ValuesOf(h, k)]
      BY <1>2 DEF OnWire
    <2> QED
      BY <2>1 DEF Has, ValuesOf
  <1>3. CASE t = "channel"
    BY <1>3 DEF OnWire
  <1> QED
    BY <1>1, <1>2, <1>3 DEF Publishes

\* ... and but for HTTP with the same values under every key.
LEMMA OnWireSame ==
  ASSUME NEW t \in Publishes \ {"http"}, NEW h \in Headers, NEW g \in OnWire(t, h),
         NEW k \in Keys
  PROVE  ValuesOf(g, k) = ValuesOf(h, k)
  <1>1. CASE t \in {"nats", "jetstream"}
    <2>1. g = [j \in Keys |-> ValuesOf(h, j)]
      BY <1>1 DEF OnWire
    <2>2. g # None
      BY <2>1, ValuesTyped
    <2> QED
      BY <2>1, <2>2 DEF ValuesOf
  <1>2. CASE t = "channel"
    BY <1>2 DEF OnWire
  <1> QED
    BY <1>1, <1>2 DEF Publishes

\* A receiver that finds no key makes it a nil header.
LEMMA ExtractedSame ==
  ASSUME NEW g \in Headers
  PROVE  Extracted(g) \in Headers /\ \A k \in Keys : ValuesOf(Extracted(g), k) = ValuesOf(g, k)
  BY DEF Extracted, Headers, Has, ValuesOf

\* Headers with the same values have them in the same slots.
LEMMA SameOccurrences ==
  ASSUME NEW g, NEW h, \A k \in Keys : ValuesOf(g, k) = ValuesOf(h, k)
  PROVE  \A k, v : Occurrences(g, k, v) = Occurrences(h, k, v)
  <1> SUFFICES ASSUME NEW k, NEW v
               PROVE  Occurrences(g, k, v) = Occurrences(h, k, v)
    OBVIOUS
  <1>1. Slots(g, k) = Slots(h, k)
    BY DEF Slots
  <1>2. \A s \in Slots(g, k) : At(g, s) = At(h, s)
    BY DEF Slots, At
  <1> QED
    BY <1>1, <1>2 DEF Occurrences

-----------------------------------------------------------------------------
(* Contexts *)

\* The context a handler is called with.
LEMMA HandlerCtxIs ==
  ASSUME NEW w \in Wires
  PROVE  /\ HandlerCtx(w) \in Contexts
         /\ HandlerCtx(w).header \in {None, SubscribeCtx.header}
         /\ InContext(w.on) => HandlerCtx(w).id = w.id /\ HandlerCtx(w).span = w.span
         /\ AsLink(w.on) => /\ w.id # None => HandlerCtx(w).id = w.id
                            /\ w.span # "none" => HandlerCtx(w).span = "linked"
  <1>1. CASE InContext(w.on)
    <2>1. ~ AsLink(w.on)
      BY <1>1 DEF InContext, AsLink
    <2>2. HandlerCtx(w) = [id |-> w.id, header |-> None, span |-> w.span]
      BY <1>1, <2>1 DEF HandlerCtx, Nothing
    <2> QED
      BY <2>1, <2>2 DEF Wires, Contexts, Headers
  <1>2. CASE AsLink(w.on)
    <2>1. ~ InContext(w.on)
      BY <1>2 DEF InContext, AsLink
    <2>2. HandlerCtx(w) = [id |-> IF w.id = None THEN SubscribeCtx.id ELSE w.id,
                           header |-> SubscribeCtx.header,
                           span |-> IF w.span = "none" THEN SubscribeCtx.span ELSE "linked"]
      BY <1>2, <2>1 DEF HandlerCtx, Contexts
    <2> QED
      BY <2>1, <2>2 DEF Wires, Contexts
  <1>3. CASE ~ InContext(w.on) /\ ~ AsLink(w.on)
    BY <1>3 DEF HandlerCtx, Contexts
  <1> QED
    BY <1>1, <1>2, <1>3

\* What a middleware makes of the context.
LEMMA ThroughIs ==
  ASSUME NEW mw \in Middlewares, NEW c \in Contexts, NEW h \in Headers
  PROVE  /\ Through(mw, c, h) \in Contexts
         /\ Through(mw, c, h).header \in {c.header, h}
         /\ Through(mw, c, h).span = c.span
         /\ \/ Through(mw, c, h).id = c.id
            \/ /\ mw = "InjectMessageID" /\ Has(h, IDKey)
               /\ Through(mw, c, h).id \in Values
  <1>1. CASE mw = "InjectHeader"
    BY <1>1 DEF Through, InjectHeader, WithHeader, Contexts
  <1>2. CASE mw = "InjectMessageID"
    BY <1>2, IDTyped DEF Through, InjectMessageID, WithMessageID, Contexts
  <1>3. CASE mw = "ForwardMessageID"
    BY <1>3 DEF Through, ForwardMessageID, WithMessageID, Contexts
  <1> QED
    BY <1>1, <1>2, <1>3 DEF Middlewares

\* The types hold in the beginning.
LEMMA TypeInit == Init => TypeOK
  BY DEF Init, TypeOK, Wires, Contexts, Headers

\* Every step keeps the types.
LEMMA TypeStep ==
  ASSUME TypeOK, [Next]_vars
  PROVE  TypeOK'
  <1> USE DEF TypeOK
  <1>1. ASSUME NEW t \in Hops \cap Publishes, Publish(t)
        PROVE  TypeOK'
    <2>1. PICK g \in OnWire(t, ctx.header) :
            wire' = IF t = "channel"
                    THEN [on |-> t, id |-> None, header |-> g, span |-> "none"]
                    ELSE [on |-> t, id |-> ctx.id, header |-> g, span |-> ctx.span]
      BY <1>1 DEF Publish
    <2>2. ctx.header \in Headers /\ g \in Headers
      BY OnWireTyped DEF Contexts
    <2>3. wire' \in Wires /\ wire'.on = t
      BY <2>1, <2>2 DEF Wires, Contexts
    <2> QED
      BY <1>1, <2>3 DEF Publish, Travel
  <1>2. ASSUME NEW t \in Hops \cap Requests, Request(t)
        PROVE  TypeOK'
    <2>1. wire' \in Wires /\ wire'.on = t
      BY <1>2 DEF Request, Wires, Contexts, Headers
    <2> QED
      BY <1>2, <2>1 DEF Request, Travel
  <1>3. ASSUME NEW mws \in Chains, Process(mws)
        PROVE  TypeOK'
    <2>1. header' \in Headers
      BY <1>3, ExtractedSame DEF Process, Wires
    <2>2. ctx' \in Contexts
      BY <1>3, HandlerCtxIs DEF Process
    <2> QED
      BY <1>3, <2>1, <2>2 DEF Process
  <1>4. CASE Chain
    <2>1. Head(chain) \in Middlewares /\ Tail(chain) \in Seq(Middlewares)
      BY <1>4 DEF Chain
    <2>2. ctx' \in Contexts
      BY <1>4, <2>1, ThroughIs DEF Chain
    <2> QED
      BY <1>4, <2>1, <2>2 DEF Chain
  <1>5. CASE Handle
    BY <1>5 DEF Handle
  <1>6. CASE Respond
    <2>1. ctx' \in Contexts
      BY <1>6, HandlerCtxIs DEF Respond
    <2> QED
      BY <1>6, <2>1 DEF Respond, Headers
  <1>7. CASE Pipe
    BY <1>7 DEF Pipe, WithHeader, Contexts
  <1>8. CASE PublishOwn \/ Stream
    BY <1>8 DEF PublishOwn, Stream
  <1>9. CASE UNCHANGED vars
    BY <1>9 DEF vars
  <1> QED
    BY <1>1, <1>2, <1>3, <1>4, <1>5, <1>6, <1>7, <1>8, <1>9 DEF Next

\* Every variable keeps its type, and a message that is not with a sender has
\* come over a hop of the journey.
THEOREM TypeCorrect == Spec => []TypeOK
  BY TypeInit, TypeStep, PTL DEF Spec

-----------------------------------------------------------------------------
(* The trace *)

\* The span of a context that the journey so far has carried along.
Carried ==
  IF used \cap {"nats", "jetstream", "nats request"} = {} THEN "same" ELSE "linked"

\* On the wire it is still as the sender had it: a link is made when the message
\* is received.
TraceInv ==
  used \cap {"channel", "stream"} = {} /\ sent.span = "same" =>
    /\ at # "wire" => ctx.span = Carried
    /\ at = "wire" => /\ wire.span \in {"same", "linked"}
                      /\ InContext(wire.on) => wire.span = Carried
                      /\ AsLink(wire.on) => Carried = "linked"

\* Every step carries the trace along.
LEMMA TraceStep ==
  ASSUME TypeOK, TraceInv, [Next]_vars
  PROVE  TraceInv'
  <1> SUFFICES ASSUME used' \cap {"channel", "stream"} = {}, sent.span = "same"
               PROVE  /\ at' # "wire" => ctx'.span = Carried'
                      /\ at' = "wire" => /\ wire'.span \in {"same", "linked"}
                                         /\ InContext(wire'.on) => wire'.span = Carried'
                                         /\ AsLink(wire'.on) => Carried' = "linked"
    <2>1. sent' = sent
      BY DEF Next, Publish, Request, Travel, Process, Chain, Handle, Respond, Pipe, PublishOwn,
             Stream, vars
    <2> QED
      BY <2>1 DEF TraceInv, InContext, AsLink
  <1>1. ASSUME NEW t \in (Publishes \cup Requests) \ {"channel"}, Travel(t),
               wire'.on = t, wire'.span = ctx.span
        PROVE  /\ at' = "wire" /\ wire'.span \in {"same", "linked"}
               /\ InContext(wire'.on) => wire'.span = Carried'
               /\ AsLink(wire'.on) => Carried' = "linked"
    <2>1. at = "sender" /\ at' = "wire" /\ used' = used \cup {t}
      BY <1>1 DEF Travel
    <2>2. ctx.span = Carried
      BY <2>1 DEF TraceInv
    <2> QED
      BY <1>1, <2>1, <2>2 DEF Carried, InContext, AsLink
  <1>2. ASSUME NEW t \in Hops \cap Publishes, Publish(t)
        PROVE  /\ t # "channel" /\ Travel(t) /\ wire'.on = t /\ wire'.span = ctx.span
    BY <1>2 DEF Publish, Travel
  <1>3. ASSUME NEW t \in Hops \cap Requests, Request(t)
        PROVE  /\ t # "channel" /\ Travel(t) /\ wire'.on = t /\ wire'.span = ctx.span
    BY <1>3 DEF Request, Requests
  <1>4. ASSUME at = "wire", ctx' = HandlerCtx(wire), UNCHANGED used
        PROVE  ctx'.span = Carried'
    <2>1. /\ wire.on \in (Publishes \cup Requests) \ {"channel"}
          /\ wire.span \in {"same", "linked"}
          /\ InContext(wire.on) => wire.span = Carried
          /\ AsLink(wire.on) => Carried = "linked"
      BY <1>4 DEF TypeOK, TraceInv
    <2>2. InContext(wire.on) \/ AsLink(wire.on)
      BY <2>1 DEF InContext, AsLink, Publishes, Requests
    <2>3. Carried' = Carried
      BY <1>4 DEF Carried
    <2> QED
      BY <1>4, <2>1, <2>2, <2>3, HandlerCtxIs DEF TypeOK
  <1>5. ASSUME NEW mws \in Chains, Process(mws)
        PROVE  at' # "wire" /\ ctx'.span = Carried'
    BY <1>4, <1>5 DEF Process
  <1>6. CASE Respond
    BY <1>4, <1>6 DEF Respond
  <1>7. CASE Chain
    <2>1. Head(chain) \in Middlewares
      BY <1>7 DEF Chain, TypeOK
    <2>2. ctx'.span = ctx.span
      BY <1>7, <2>1, ThroughIs DEF Chain, TypeOK
    <2>3. Carried' = Carried
      BY <1>7, <2>1 DEF Chain, Carried, Middlewares
    <2> QED
      BY <1>7, <2>2, <2>3 DEF Chain, TraceInv
  <1>8. CASE Handle
    BY <1>8 DEF Handle, TraceInv, Carried
  <1>9. CASE Pipe \/ PublishOwn
    <2>1. ctx'.span = ctx.span
      BY <1>9 DEF Pipe, PublishOwn, WithHeader, TypeOK, Contexts
    <2>2. Carried' = Carried
      BY <1>9 DEF Pipe, PublishOwn, Carried
    <2> QED
      BY <1>9, <2>1, <2>2 DEF Pipe, PublishOwn, TraceInv
  <1>10. ~ Stream
    BY DEF Stream
  <1>11. CASE UNCHANGED vars
    BY <1>11 DEF vars, TraceInv, Carried
  <1> QED
    BY <1>1, <1>2, <1>3, <1>5, <1>6, <1>7, <1>8, <1>9, <1>10, <1>11 DEF Next

\* On every journey over NATS, JetStream and HTTP, however long, relayed by pipes
\* or by handlers of their own, through any middlewares, the handler's span is of
\* the first publisher's trace or linked to it.
THEOREM TracesSurvive == Spec => []TraceSurvives
  <1>1. Init => TraceInv
    BY DEF Init, TraceInv, Carried
  <1>2. TypeOK /\ TraceInv /\ [Next]_vars => TraceInv'
    BY TraceStep
  <1>3. TraceInv => TraceSurvives
    BY DEF TraceInv, TraceSurvives, Handled, Carried
  <1> QED
    BY <1>1, <1>2, <1>3, TypeCorrect, PTL DEF Spec

-----------------------------------------------------------------------------
(* The message ID *)

\* The headers a message can have got: its own, and that of the context Subscribe
\* is called with.
IDInHeader == \E h \in {sent.header, SubscribeCtx.header} : Has(h, IDKey)

HeaderIDInv == \A h \in {ctx.header, header, wire.header} : Has(h, IDKey) => IDInHeader

IsID(id) == \/ id = sent.id
            \/ "InjectMessageID" \in used /\ IDInHeader

IDInv ==
  used \cap {"channel", "stream"} = {} /\ sent.id # None =>
    IF at = "wire" THEN wire.id # None /\ IsID(wire.id) ELSE ctx.id # None /\ IsID(ctx.id)

\* No hop, relay or middleware invents an ID in a header.
LEMMA HeaderIDStep ==
  ASSUME TypeOK, HeaderIDInv, [Next]_vars
  PROVE  HeaderIDInv'
  <1>0. ~ Has(None, IDKey)
    BY DEF Has, ValuesOf
  <1>1. ASSUME NEW h \in {ctx'.header, header', wire'.header}, Has(h, IDKey)
        PROVE  IDInHeader
    <2>1. ASSUME NEW t \in Hops \cap Publishes, Publish(t)
          PROVE  IDInHeader
      <3>1. PICK g \in OnWire(t, ctx.header) : wire'.header = g
        BY <2>1 DEF Publish
      <3>2. Has(g, IDKey) => Has(ctx.header, IDKey)
        BY OnWireID DEF TypeOK, Contexts
      <3> QED
        BY <1>1, <2>1, <3>1, <3>2 DEF Publish, Travel, HeaderIDInv
    <2>2. ASSUME NEW t \in Hops \cap Requests, Request(t)
          PROVE  IDInHeader
      BY <1>0, <1>1, <2>2 DEF Request, Travel, HeaderIDInv
    <2>3. HandlerCtx(wire).header \in {None, SubscribeCtx.header}
      BY HandlerCtxIs DEF TypeOK
    <2>4. ASSUME NEW mws \in Chains, Process(mws)
          PROVE  IDInHeader
      <3>1. Has(header', IDKey) => Has(wire.header, IDKey)
        BY <2>4, ExtractedSame DEF Process, Has, TypeOK, Wires
      <3> QED
        BY <1>0, <1>1, <2>3, <2>4, <3>1 DEF Process, HeaderIDInv, IDInHeader
    <2>5. CASE Respond
      BY <1>0, <1>1, <2>3, <2>5 DEF Respond, HeaderIDInv, IDInHeader
    <2>6. CASE Chain
      <3>1. Head(chain) \in Middlewares
        BY <2>6 DEF Chain, TypeOK
      <3>2. ctx'.header \in {ctx.header, header}
        BY <2>6, <3>1, ThroughIs DEF Chain, TypeOK
      <3> QED
        BY <1>1, <2>6, <3>2 DEF Chain, HeaderIDInv
    <2>7. CASE Pipe
      BY <1>1, <2>7 DEF Pipe, WithHeader, HeaderIDInv, TypeOK, Contexts
    <2>8. CASE Handle \/ PublishOwn \/ Stream \/ UNCHANGED vars
      BY <1>1, <2>8 DEF Handle, PublishOwn, Stream, vars, HeaderIDInv, IDInHeader
    <2> QED
      BY <2>1, <2>2, <2>4, <2>5, <2>6, <2>7, <2>8 DEF Next
  <1>2. sent' = sent
    BY DEF Next, Publish, Request, Travel, Process, Chain, Handle, Respond, Pipe, PublishOwn,
           Stream, vars
  <1> QED
    BY <1>1, <1>2 DEF HeaderIDInv, IDInHeader

\* An ID the journey has carried stays one, as the journey goes on.
LEMMA IDStep ==
  ASSUME TypeOK, HeaderIDInv, IDInv, [Next]_vars
  PROVE  IDInv'
  <1>1. sent' = sent /\ used \subseteq used'
    BY DEF Next, Publish, Request, Travel, Process, Chain, Handle, Respond, Pipe, PublishOwn,
           Stream, vars
  <1> DEFINE Fine(id) == id # None /\ (id = sent.id \/ ("InjectMessageID" \in used' /\ IDInHeader))
  <1> SUFFICES ASSUME used' \cap {"channel", "stream"} = {}, sent.id # None
               PROVE  /\ at' = "wire" => Fine(wire'.id)
                      /\ at' # "wire" => Fine(ctx'.id)
    BY <1>1 DEF IDInv, IsID, IDInHeader
  <1>2. /\ at = "wire" => Fine(wire.id)
        /\ at # "wire" => Fine(ctx.id)
    <2>1. used \cap {"channel", "stream"} = {}
      BY <1>1
    <2>2. IF at = "wire" THEN wire.id # None /\ IsID(wire.id) ELSE ctx.id # None /\ IsID(ctx.id)
      BY <2>1 DEF IDInv
    <2>3. \A id : id # None /\ IsID(id) => Fine(id)
      BY <1>1 DEF IsID
    <2> QED
      BY <2>2, <2>3
  <1> HIDE DEF Fine
  <1>3. ASSUME NEW t \in Hops \cap Publishes, Publish(t)
        PROVE  at' = "wire" /\ Fine(wire'.id)
    <2>1. at = "sender" /\ at' = "wire" /\ t # "channel"
      BY <1>3 DEF Publish, Travel
    <2>2. wire'.id = ctx.id
      BY <1>3, <2>1 DEF Publish
    <2> QED
      BY <1>2, <2>1, <2>2
  <1>4. ASSUME NEW t \in Hops \cap Requests, Request(t)
        PROVE  at' = "wire" /\ Fine(wire'.id)
    BY <1>2, <1>4 DEF Request, Travel
  <1>5. ASSUME at = "wire", ctx' = HandlerCtx(wire), UNCHANGED used
        PROVE  Fine(ctx'.id)
    <2>1. wire.on \in (Publishes \cup Requests) \ {"channel"} /\ wire \in Wires
      BY <1>5 DEF TypeOK
    <2>2. InContext(wire.on) \/ AsLink(wire.on)
      BY <2>1 DEF InContext, AsLink, Publishes, Requests
    <2>3. Fine(wire.id) /\ wire.id # None
      BY <1>2, <1>5 DEF Fine
    <2>4. ctx'.id = wire.id
      BY <1>5, <2>1, <2>2, <2>3, HandlerCtxIs
    <2> QED
      BY <2>3, <2>4
  <1>6. ASSUME NEW mws \in Chains, Process(mws)
        PROVE  at' # "wire" /\ Fine(ctx'.id)
    BY <1>5, <1>6 DEF Process
  <1>7. CASE Respond
    BY <1>5, <1>7 DEF Respond
  <1>8. CASE Chain
    <2>1. Head(chain) \in Middlewares /\ used' = used \cup {Head(chain)}
      BY <1>8 DEF Chain, TypeOK
    <2>2. \/ ctx'.id = ctx.id
          \/ Head(chain) = "InjectMessageID" /\ Has(header, IDKey) /\ ctx'.id \in Values
      BY <1>8, <2>1, ThroughIs DEF Chain, TypeOK
    <2>3. Has(header, IDKey) => IDInHeader
      BY DEF HeaderIDInv
    <2>4. at = "middleware" /\ at' = "middleware"
      BY <1>8 DEF Chain
    <2>5. CASE ctx'.id = ctx.id
      BY <1>2, <2>4, <2>5
    <2>6. CASE Head(chain) = "InjectMessageID" /\ Has(header, IDKey) /\ ctx'.id \in Values
      BY <2>1, <2>3, <2>4, <2>6 DEF Fine
    <2> QED
      BY <2>2, <2>5, <2>6
  <1>9. CASE Pipe \/ PublishOwn
    <2>1. ctx'.id = ctx.id /\ at = "handler" /\ at' = "sender"
      BY <1>9 DEF Pipe, PublishOwn, WithHeader, TypeOK, Contexts
    <2> QED
      BY <1>2, <2>1
  <1>10. ~ Stream
    BY DEF Stream
  <1>11. CASE Handle \/ UNCHANGED vars
    BY <1>2, <1>11 DEF Handle, vars
  <1> QED
    BY <1>3, <1>4, <1>6, <1>7, <1>8, <1>9, <1>10, <1>11 DEF Next

\* On the same journeys the first publisher's message ID reaches every handler
\* and responder, unless an InjectMessageID on the way found another in a header.
THEOREM IDsSurvive == Spec => []IdSurvives
  <1>1. Init => HeaderIDInv /\ IDInv
    <2>1. ~ Has(None, IDKey)
      BY DEF Has, ValuesOf
    <2> QED
      BY <2>1 DEF Init, HeaderIDInv, IDInv, IDInHeader, IsID
  <1>2. TypeOK /\ HeaderIDInv /\ IDInv /\ [Next]_vars => (HeaderIDInv /\ IDInv)'
    BY HeaderIDStep, IDStep
  <1>3. IDInv => IdSurvives
    BY DEF IDInv, IdSurvives, IsID, IDInHeader, Handled
  <1> QED
    BY <1>1, <1>2, <1>3, TypeCorrect, PTL DEF Spec

-----------------------------------------------------------------------------
(* The header *)

Survives(h) ==
  IF "http" \in used
  THEN \A k \in Keys, v \in Values : Occurrences(h, k, v) = Occurrences(sent.header, k, v)
  ELSE \A k \in Keys : ValuesOf(h, k) = ValuesOf(sent.header, k)

HeaderInv ==
  used \cap (Requests \cup {"own", "stream"}) = {} =>
    Survives(CASE at = "sender" -> ctx.header
               [] at = "wire" -> wire.header
               [] OTHER -> header)

\* Every step carries the header along.
LEMMA HeaderStep ==
  ASSUME TypeOK, HeaderInv, [Next]_vars
  PROVE  HeaderInv'
  <1>1. sent' = sent /\ used \subseteq used'
    BY DEF Next, Publish, Request, Travel, Process, Chain, Handle, Respond, Pipe, PublishOwn,
           Stream, vars
  <1> DEFINE Fine(h) ==
        IF "http" \in used'
        THEN \A k \in Keys, v \in Values : Occurrences(h, k, v) = Occurrences(sent.header, k, v)
        ELSE \A k \in Keys : ValuesOf(h, k) = ValuesOf(sent.header, k)
  <1> SUFFICES ASSUME used' \cap (Requests \cup {"own", "stream"}) = {}
               PROVE  /\ at' = "sender" => Fine(ctx'.header)
                      /\ at' = "wire" => Fine(wire'.header)
                      /\ at' \in {"middleware", "handler"} => Fine(header')
    <2>1. at' \in {"sender", "wire", "middleware", "handler"}
      BY TypeStep DEF TypeOK
    <2> QED
      BY <1>1, <2>1 DEF HeaderInv, Survives
  <1>2. /\ at = "sender" => Survives(ctx.header)
        /\ at = "wire" => Survives(wire.header)
        /\ at \in {"middleware", "handler"} => Survives(header)
    BY <1>1 DEF HeaderInv
  <1>3. ASSUME ("http" \in used') = ("http" \in used)
        PROVE  \A h : Survives(h) => Fine(h)
    BY <1>3 DEF Survives
  <1>4. ASSUME NEW h, NEW g, \A k \in Keys : ValuesOf(g, k) = ValuesOf(h, k), Fine(h)
        PROVE  Fine(g)
    BY <1>4, SameOccurrences
  <1> HIDE DEF Fine
  <1>5. ASSUME NEW t \in Hops \cap Publishes, Publish(t)
        PROVE  at' = "wire" /\ Fine(wire'.header)
    <2>1. at' = "wire" /\ Survives(ctx.header) /\ used' = used \cup {t} /\ ctx.header \in Headers
      BY <1>2, <1>5 DEF Publish, Travel, TypeOK, Contexts
    <2>2. PICK g \in OnWire(t, ctx.header) : wire'.header = g
      BY <1>5 DEF Publish
    <2>3. CASE t = "http"
      <3>1. g \in [Keys -> Seq(Values)] /\ \A k \in Keys : g[k] \in Merged(ctx.header, k)
        BY <2>1, <2>2, <2>3, OnWireTyped
      <3>2. \A k \in Keys : \A v : Occurrences(g, k, v) = Occurrences(ctx.header, k, v)
        BY <2>1, <3>1, MergingKeepsOccurrences
      <3>3. \A k \in Keys, v \in Values :
              Occurrences(ctx.header, k, v) = Occurrences(sent.header, k, v)
        BY <2>1, SameOccurrences DEF Survives
      <3> QED
        BY <2>1, <2>2, <2>3, <3>2, <3>3 DEF Fine
    <2>4. CASE t # "http"
      <3>1. Fine(ctx.header)
        BY <1>3, <2>1, <2>4
      <3>2. \A k \in Keys : ValuesOf(g, k) = ValuesOf(ctx.header, k)
        BY <2>1, <2>2, <2>4, OnWireSame
      <3> QED
        BY <1>4, <2>1, <2>2, <3>1, <3>2
    <2> QED
      BY <2>3, <2>4
  <1>6. ASSUME NEW t \in Hops \cap Requests, Request(t)
        PROVE  FALSE
    BY <1>6 DEF Request, Travel
  <1>7. ASSUME NEW mws \in Chains, Process(mws)
        PROVE  at' = "middleware" /\ Fine(header')
    <2>1. at' = "middleware" /\ Survives(wire.header) /\ used' = used /\ wire.header \in Headers
      BY <1>2, <1>7 DEF Process, TypeOK, Wires
    <2>2. Fine(wire.header)
      BY <1>3, <2>1
    <2>3. PICK g : g = header'
      OBVIOUS
    <2>4. \A k \in Keys : ValuesOf(g, k) = ValuesOf(wire.header, k)
      BY <1>7, <2>1, <2>3, ExtractedSame DEF Process
    <2>5. Fine(g)
      BY <1>4, <2>2, <2>4
    <2> QED
      BY <2>1, <2>3, <2>5
  <1>8. CASE Chain
    <2>1. Head(chain) \in Middlewares /\ used' = used \cup {Head(chain)}
      BY <1>8 DEF Chain, TypeOK
    <2>2. ("http" \in used') = ("http" \in used)
      BY <2>1 DEF Middlewares
    <2> QED
      BY <1>2, <1>3, <1>8, <2>2 DEF Chain
  <1>9. CASE Handle
    BY <1>2, <1>3, <1>9 DEF Handle
  <1>10. ~ Respond
    <2> SUFFICES ASSUME Respond PROVE FALSE
      OBVIOUS
    <2>1. wire.on \in used \cap Requests
      BY DEF Respond, TypeOK
    <2> QED
      BY <1>1, <2>1
  <1>11. CASE Pipe
    <2>1. at' = "sender" /\ ctx'.header = header /\ Survives(header)
      BY <1>2, <1>11 DEF Pipe, WithHeader, TypeOK, Contexts
    <2>2. ("http" \in used') = ("http" \in used)
      BY <1>11 DEF Pipe
    <2> QED
      BY <1>3, <2>1, <2>2
  <1>12. ~ PublishOwn /\ ~ Stream
    BY DEF PublishOwn, Stream
  <1>13. CASE UNCHANGED vars
    BY <1>2, <1>3, <1>13 DEF vars, TypeOK
  <1> QED
    BY <1>5, <1>6, <1>7, <1>8, <1>9, <1>10, <1>11, <1>12, <1>13 DEF Next

\* Over any number of pipes and transports, and any middlewares, a handler sees
\* the values of the first publisher's header under their keys, and after an HTTP
\* hop as often under the canonical key.
THEOREM HeadersSurvive == Spec => []HeaderSurvives
  <1>1. Init => HeaderInv
    BY DEF Init, HeaderInv, Survives
  <1>2. TypeOK /\ HeaderInv /\ [Next]_vars => HeaderInv'
    BY HeaderStep
  <1>3. HeaderInv => HeaderSurvives
    BY DEF HeaderInv, HeaderSurvives, Handled, Survives
  <1> QED
    BY <1>1, <1>2, <1>3, TypeCorrect, PTL DEF Spec
=============================================================================
