------------------------ MODULE RetainedOutputs_proofs ------------------------
(***************************************************************************)
(* Retained outputs and the inputs that refer to them, for any modules,    *)
(* axes and number of calls, whether or not a binding may run out of       *)
(* memory.  The invariant is one predicate on each module's store, graph   *)
(* and input, and what a call in progress adds to it.                      *)
(***************************************************************************)
EXTENDS RetainedOutputs, TLAPS

Slots == [id : Nat, addr : Addr \cup {Nobody}]

Store == [slot : Slots, live : BOOLEAN, geom : Axes \cup {Sequenced, Nobody},
          epoch : Nat, gen : Nat, val : Values]

Graph == [axes : Axes, retains : BOOLEAN, epoch : Nat, slot : Slots]

InputType == [own : Values, alias : Module \cup {Nobody}, stale : BOOLEAN, skipped : BOOLEAN]

CallType == [phase : {"feed", "ready"}, module : Module, axes : Axes, retain : BOOLEAN,
             ode : BOOLEAN]

ReadType == [module : Module, pin : 0 .. MaxCalls, val : Values]

\* Module m's store after c calls: what it holds is its own, and none of the values its
\* earlier generations stood for.
StoreOK(s, md, m, c) ==
    /\ s \in Store /\ md \in Seq(Values)
    /\ s.epoch <= c /\ s.gen = Len(md)
    /\ s.val.n <= c /\ s.val.by \in {m, Nobody}
    /\ \A g \in 1 .. Len(md) : md[g].n \in 1 .. c
    /\ \A g \in 1 .. Len(md) - 1 : s.val # md[g]

\* A graph that ends in a copy: its slot is the store's as long as the epoch says so.
GraphOK(g, s) ==
    \/ g = NoGraph
    \/ /\ g \in Graph
       /\ g.retains => /\ g.epoch <= s.epoch
                       /\ s.live /\ g.epoch = s.epoch => g.slot = s.slot

\* An input that is neither aliased nor stale holds what it was last given.
InputOK(i, v) ==
    i \in InputType /\ (i.alias = Nobody /\ ~i.stale => i.own = v)

\* A store reshaped for a sequence, and the value the next call leaves.
Sequence(m, addr) == Reshaped(store[m], Sequenced, addr)
NextValue(m) == Value(m, calls + 1)

\* A store after a run that completed, and after one that did not.
Torn(s, v) == [s EXCEPT !.val = v]
Filled(s, v) == [s EXCEPT !.gen = @ + 1, !.val = v]

ModulesOK ==
    /\ store \in [Module -> Store] /\ made \in [Module -> Seq(Values)]
    /\ graph \in [Module -> Graph \cup {NoGraph}]
    /\ input \in [Module -> InputType] /\ meant \in [Module -> Values]
    /\ \A m \in Module : /\ StoreOK(store[m], made[m], m, calls)
                         /\ GraphOK(graph[m], store[m])
                         /\ InputOK(input[m], meant[m])

\* Between build and run: the graph is the call's, and an alias is of this call.
CallOK ==
    call \notin {Idle, Aborted} =>
        /\ call \in CallType /\ calls > 0
        /\ \A k \in Module : \A g \in 1 .. Len(made[k]) : made[k][g].n < calls
        /\ graph[call.module] \in Graph
        /\ graph[call.module].retains = call.retain
        /\ call.retain => graph[call.module].epoch = store[call.module].epoch
        /\ call.phase = "feed" \/ call.ode => input[call.module].alias = Nobody
        /\ input[call.module].alias # Nobody =>
             store[input[call.module].alias].val = meant[call.module]

\* The last read was of an older call than any that will fill a store.
ReadOK ==
    read # NoRead =>
        /\ read \in ReadType /\ read.val.n < calls
        /\ read.pin > 0 => \A g \in 1 .. Len(made[read.module]) :
                              g # read.pin => read.val # made[read.module][g]

IInv ==
    /\ calls \in 0 .. MaxCalls /\ slots \in 0 .. calls
    /\ ModulesOK
    /\ CallOK
    /\ ReadOK
    /\ RunReadsWhatWasPassed

-----------------------------------------------------------------------------
(* What happens to one store, graph or input *)

LEMMA Later ==
    ASSUME NEW m \in Module, NEW c \in Nat, NEW s, NEW md, StoreOK(s, md, m, c)
    PROVE  StoreOK(s, md, m, c + 1)
<1>1. s.epoch \in Nat /\ s.val.n \in Int
  BY CallsAssumption DEF StoreOK, Store, Values
<1> QED BY <1>1 DEF StoreOK

\* The epoch counts the layouts.
LEMMA ReshapedOK ==
    ASSUME NEW m \in Module, NEW c \in Nat, NEW s, NEW md, StoreOK(s, md, m, c),
           NEW geom \in Axes \cup {Sequenced}, NEW addr \in Addr, slots \in Nat
    PROVE  /\ StoreOK(Reshaped(s, geom, addr), md, m, c + 1)
           /\ Reshaped(s, geom, addr).epoch >= s.epoch
           /\ Reshaped(s, geom, addr).epoch = s.epoch => Reshaped(s, geom, addr) = s
<1> DEFINE r == Reshaped(s, geom, addr)
<1> SUFFICES StoreOK(r, md, m, c + 1) /\ r.epoch >= s.epoch /\ (r.epoch = s.epoch => r = s)
  OBVIOUS
<1>1. s \in Store /\ md \in Seq(Values) /\ s.epoch \in Nat /\ MaxCalls \in Nat
  BY CallsAssumption DEF StoreOK, Store
<1>2. CASE Keeps(s, geom)
  BY <1>1, <1>2, Later DEF Reshaped
<1>3. CASE ~Keeps(s, geom)
  <2>1. r = [s EXCEPT !.live = TRUE, !.geom = geom, !.val = Junk,
                      !.slot = [id |-> slots + 1, addr |-> addr], !.epoch = @ + 1]
    BY <1>3 DEF Reshaped
  <2>2. Junk \in Values /\ Junk.n = 0 /\ Junk.by = Nobody
    BY <1>1 DEF Junk, Value, Values
  <2> DEFINE slot == [id |-> slots + 1, addr |-> addr]
  <2>7. slot \in Slots
    BY DEF Slots
  <2> HIDE DEF slot
  <2>3. /\ r \in Store /\ r.epoch = s.epoch + 1 /\ r.gen = s.gen /\ r.val = Junk
    <3>1. r = [s EXCEPT !.live = TRUE, !.geom = geom, !.val = Junk, !.slot = slot,
                        !.epoch = @ + 1]
      BY <2>1 DEF slot
    <3>2. s = [slot |-> s.slot, live |-> s.live, geom |-> s.geom, epoch |-> s.epoch,
               gen |-> s.gen, val |-> s.val]
      BY <1>1 DEF Store
    <3> HIDE DEF r
    <3>3. r = [slot |-> slot, live |-> TRUE, geom |-> geom, epoch |-> s.epoch + 1,
               gen |-> s.gen, val |-> Junk]
      BY <3>1, <3>2
    <3>4. s.gen \in Nat /\ s.epoch + 1 \in Nat
      BY <1>1 DEF Store
    <3> QED BY <2>2, <2>7, <3>3, <3>4 DEF Store
  <2>4. \A g \in 1 .. Len(md) : md[g].n \in 1 .. c
    BY DEF StoreOK
  <2> HIDE DEF r
  <2>5. \A g \in 1 .. Len(md) : md[g].n \in 1 .. c + 1 /\ r.val # md[g]
    BY <2>2, <2>3, <2>4
  <2>6. \A g \in 1 .. Len(md) - 1 : r.val # md[g]
    BY <1>1, <2>5
  <2> QED BY <1>1, <2>2, <2>3, <2>5, <2>6 DEF StoreOK
<1> QED BY <1>2, <1>3

LEMMA DiscardedOK ==
    ASSUME NEW m \in Module, NEW c \in Nat, NEW s, NEW md, StoreOK(s, md, m, c)
    PROVE  /\ StoreOK(Discarded(s), md, m, c + 1)
           /\ Discarded(s).epoch = s.epoch /\ ~Discarded(s).live
<1> DEFINE r == Discarded(s)
<1>1. s \in Store /\ md \in Seq(Values) /\ s.epoch \in Nat /\ s.gen \in Nat /\ MaxCalls \in Nat
  BY CallsAssumption DEF StoreOK, Store
<1>2. Junk \in Values /\ Junk.n = 0 /\ Junk.by = Nobody
  BY <1>1 DEF Junk, Value, Values
<1>3. NoSlot \in Slots
  BY DEF NoSlot, Slots
<1>4. s = [slot |-> s.slot, live |-> s.live, geom |-> s.geom, epoch |-> s.epoch,
           gen |-> s.gen, val |-> s.val] /\ s.geom \in Axes \cup {Sequenced, Nobody}
  BY <1>1 DEF Store
<1>5. r = [slot |-> NoSlot, live |-> FALSE, geom |-> s.geom, epoch |-> s.epoch,
           gen |-> s.gen, val |-> Junk]
  <2>1. r = [s EXCEPT !.live = FALSE, !.val = Junk, !.slot = NoSlot]
    BY DEF Discarded
  <2> HIDE DEF r
  <2> QED BY <1>4, <2>1
<1> HIDE DEF r
<1>6. r \in Store /\ r.epoch = s.epoch /\ r.gen = s.gen /\ r.val = Junk /\ ~r.live
  BY <1>1, <1>2, <1>3, <1>4, <1>5 DEF Store
<1>7. \A g \in 1 .. Len(md) : md[g].n \in 1 .. c + 1 /\ r.val # md[g]
  BY <1>2, <1>6 DEF StoreOK
<1>8. \A g \in 1 .. Len(md) - 1 : r.val # md[g]
  BY <1>1, <1>7
<1>9. s.gen = Len(md) /\ s.epoch <= c
  BY DEF StoreOK
<1>10. StoreOK(r, md, m, c + 1)
  BY <1>1, <1>2, <1>6, <1>7, <1>8, <1>9 DEF StoreOK
<1> QED BY <1>6, <1>10 DEF r

\* A run that stopped halfway: its data is in the store under the generation before.
LEMMA TornOK ==
    ASSUME NEW m \in Module, NEW c \in Nat, NEW s, NEW md, StoreOK(s, md, m, c),
           NEW v \in Values, v.by = m, v.n <= c,
           \A g \in 1 .. Len(md) : md[g].n < v.n
    PROVE  /\ StoreOK(Torn(s, v), md, m, c)
           /\ Torn(s, v).epoch = s.epoch /\ Torn(s, v).live = s.live
           /\ Torn(s, v).slot = s.slot
<1> DEFINE r == Torn(s, v)
<1> SUFFICES StoreOK(r, md, m, c) /\ r.epoch = s.epoch /\ r.live = s.live /\ r.slot = s.slot
  OBVIOUS
<1> USE DEF Torn
<1>1. s \in Store /\ md \in Seq(Values) /\ MaxCalls \in Nat
  BY CallsAssumption DEF StoreOK
<1>2. r \in Store /\ r.val = v /\ r.epoch = s.epoch /\ r.live = s.live /\ r.slot = s.slot
      /\ r.gen = s.gen
  BY <1>1 DEF Store
<1>3. \A g \in 1 .. Len(md) : md[g].n \in 1 .. c /\ v # md[g]
  BY <1>1 DEF StoreOK, Values
<1>4. \A g \in 1 .. Len(md) - 1 : v # md[g]
  BY <1>1, <1>3
<1>5. s.gen = Len(md) /\ s.epoch <= c
  BY DEF StoreOK
<1> HIDE DEF r
<1> QED BY <1>1, <1>2, <1>3, <1>4, <1>5 DEF StoreOK

\* A run that completed: the next generation, and what it stands for.
LEMMA FilledOK ==
    ASSUME NEW m \in Module, NEW c \in Nat, NEW s, NEW md, StoreOK(s, md, m, c),
           NEW v \in Values, v.by = m, v.n \in 1 .. c,
           \A g \in 1 .. Len(md) : md[g].n < v.n
    PROVE  /\ StoreOK(Filled(s, v), Append(md, v), m, c)
           /\ Filled(s, v).epoch = s.epoch /\ Filled(s, v).live = s.live
           /\ Filled(s, v).slot = s.slot
<1> DEFINE r == Filled(s, v)
           md2 == Append(md, v)
<1> SUFFICES StoreOK(r, md2, m, c) /\ r.epoch = s.epoch /\ r.live = s.live /\ r.slot = s.slot
  OBVIOUS
<1> USE DEF Filled
<1>1. s \in Store /\ md \in Seq(Values) /\ MaxCalls \in Nat /\ s.gen = Len(md)
      /\ s.epoch <= c /\ \A g \in 1 .. Len(md) : md[g].n \in 1 .. c
  BY CallsAssumption DEF StoreOK
<1>2. r \in Store /\ r.val = v /\ r.epoch = s.epoch /\ r.live = s.live /\ r.slot = s.slot
      /\ r.gen = s.gen + 1
  <2>1. /\ s.slot \in Slots /\ s.live \in BOOLEAN /\ s.epoch \in Nat /\ s.gen + 1 \in Nat
        /\ s.geom \in Axes \cup {Sequenced, Nobody}
    BY <1>1 DEF Store
  <2>2. r = [slot |-> s.slot, live |-> s.live, geom |-> s.geom, epoch |-> s.epoch,
             gen |-> s.gen + 1, val |-> v]
    <3>1. s = [slot |-> s.slot, live |-> s.live, geom |-> s.geom, epoch |-> s.epoch,
               gen |-> s.gen, val |-> s.val]
      BY <1>1 DEF Store
    <3>2. r = [s EXCEPT !.gen = @ + 1, !.val = v]
      OBVIOUS
    <3> HIDE DEF r
    <3> QED BY <3>1, <3>2
  <2> HIDE DEF r
  <2> QED BY <2>1, <2>2 DEF Store
<1>3. md2 \in Seq(Values) /\ Len(md2) = Len(md) + 1 /\ md2[Len(md) + 1] = v
      /\ \A g \in 1 .. Len(md) : md2[g] = md[g]
  BY <1>1
<1> HIDE DEF r, md2
<1>4. ASSUME NEW g \in 1 .. Len(md2) PROVE md2[g].n \in 1 .. c
  <2>1. g \in 1 .. Len(md) \/ g = Len(md) + 1
    BY <1>1, <1>3
  <2> QED BY <1>1, <1>3, <2>1
<1>5. ASSUME NEW g \in 1 .. Len(md2) - 1 PROVE v # md2[g]
  <2>1. g \in 1 .. Len(md)
    BY <1>1, <1>3
  <2>2. md2[g] = md[g] /\ md[g].n < v.n /\ md[g].n \in Int
    BY <1>1, <1>3, <2>1
  <2> QED BY <2>2
<1> QED BY <1>1, <1>2, <1>3, <1>4, <1>5 DEF StoreOK

\* A graph outlives what its store goes through: a new layout has a new epoch.
LEMMA GraphKept ==
    ASSUME NEW g, NEW s \in Store, NEW r \in Store, GraphOK(g, s), r.epoch >= s.epoch,
           r.epoch = s.epoch /\ r.live => s.live /\ r.slot = s.slot
    PROVE  GraphOK(g, r)
BY DEF GraphOK, Graph, Store

LEMMA GraphOverOK ==
    ASSUME NEW s \in Store, NEW a \in Axes, NEW retain \in BOOLEAN
    PROVE  /\ GraphOver(a, retain, s) \in Graph
           /\ GraphOver(a, retain, s).retains = retain
           /\ retain => GraphOver(a, retain, s).epoch = s.epoch
           /\ GraphOK(GraphOver(a, retain, s), s)
<1>1. NoSlot \in Slots
  BY DEF NoSlot, Slots
<1>2. CASE retain
  BY <1>2 DEF GraphOver, Graph, Store, GraphOK
<1>3. CASE ~retain
  BY <1>1, <1>3 DEF GraphOver, Graph, Store, GraphOK
<1> QED BY <1>2, <1>3

LEMMA RestoredOK ==
    ASSUME NEW i, NEW v, InputOK(i, v)
    PROVE  InputOK(Restored(i), v) /\ Restored(i).alias = Nobody
BY DEF InputOK, InputType, Restored

LEMMA FreshOK == InputOK(FreshInput, Junk) /\ FreshInput.alias = Nobody /\ Junk \in Values
BY CallsAssumption DEF InputOK, InputType, FreshInput, Junk, Value, Values

-----------------------------------------------------------------------------
(* What happens to one module, and to the last read *)

LEMMA ModulesStep ==
    ASSUME ModulesOK, NEW m \in Module, NEW s, NEW md, NEW g, NEW i, NEW v \in Values,
           calls \in Nat, calls' \in {calls, calls + 1},
           StoreOK(s, md, m, calls'), GraphOK(g, s), InputOK(i, v),
           store' = [store EXCEPT ![m] = s], made' = [made EXCEPT ![m] = md],
           graph' = [graph EXCEPT ![m] = g], input' = [input EXCEPT ![m] = i],
           meant' = [meant EXCEPT ![m] = v]
    PROVE  ModulesOK'
<1>1. s \in Store /\ md \in Seq(Values) /\ g \in Graph \cup {NoGraph} /\ i \in InputType
  BY DEF StoreOK, GraphOK, InputOK
<1>2. /\ store' \in [Module -> Store] /\ made' \in [Module -> Seq(Values)]
      /\ graph' \in [Module -> Graph \cup {NoGraph}]
      /\ input' \in [Module -> InputType] /\ meant' \in [Module -> Values]
  BY <1>1 DEF ModulesOK
<1>3. ASSUME NEW k \in Module
      PROVE  /\ StoreOK(store'[k], made'[k], k, calls')
             /\ GraphOK(graph'[k], store'[k])
             /\ InputOK(input'[k], meant'[k])
  <2>1. CASE k = m
    BY <2>1 DEF ModulesOK
  <2>2. CASE k # m
    <3>1. /\ store'[k] = store[k] /\ made'[k] = made[k] /\ graph'[k] = graph[k]
          /\ input'[k] = input[k] /\ meant'[k] = meant[k]
      BY <2>2 DEF ModulesOK
    <3>2. StoreOK(store[k], made[k], k, calls) /\ StoreOK(store[k], made[k], k, calls + 1)
      BY Later DEF ModulesOK
    <3>3. StoreOK(store[k], made[k], k, calls')
      BY <3>2
    <3> QED BY <3>1, <3>3 DEF ModulesOK
  <2> QED BY <2>1, <2>2
<1> QED BY <1>2, <1>3 DEF ModulesOK

\* The last read stays what it was: what fills a store is newer.
LEMMA ReadStep ==
    ASSUME ModulesOK, ReadOK, UNCHANGED read, calls \in Nat, calls' \in {calls, calls + 1},
           NEW m \in Module, NEW v \in Values, v.n >= calls,
           made' = made \/ made' = [made EXCEPT ![m] = Append(@, v)]
    PROVE  ReadOK'
<1> SUFFICES ASSUME read # NoRead
             PROVE  /\ read \in ReadType /\ read.val.n < calls'
                    /\ read.pin > 0 => \A g \in 1 .. Len(made'[read.module]) :
                                    g # read.pin => read.val # made'[read.module][g]
  BY DEF ReadOK
<1>1. read \in ReadType /\ read.val.n < calls /\ read.val.n \in Int /\ read.module \in Module
  BY CallsAssumption DEF ReadOK, ReadType, Values
<1>2. CASE made' = made
  BY <1>1, <1>2 DEF ReadOK
<1>3. CASE made' = [made EXCEPT ![m] = Append(@, v)]
  <2>1. ASSUME read.pin > 0, NEW g \in 1 .. Len(made'[read.module]), g # read.pin
        PROVE  read.val # made'[read.module][g]
    <3>1. CASE read.module # m
      <4>1. made'[read.module] = made[read.module]
        BY <1>1, <1>3, <3>1 DEF ModulesOK
      <4> QED BY <2>1, <4>1 DEF ReadOK
    <3>2. CASE read.module = m
      <4> DEFINE md == made[m]
      <4>1. md \in Seq(Values) /\ made'[m] = Append(md, v)
        BY <1>3 DEF ModulesOK
      <4> HIDE DEF md
      <4>2. /\ Len(made'[m]) = Len(md) + 1 /\ made'[m][Len(md) + 1] = v
            /\ \A j \in 1 .. Len(md) : made'[m][j] = md[j]
        BY <4>1
      <4>3. CASE g = Len(md) + 1
        BY <1>1, <3>2, <4>2, <4>3
      <4>4. CASE g \in 1 .. Len(md)
        BY <2>1, <3>2, <4>2, <4>4 DEF ReadOK, md
      <4> QED BY <2>1, <3>2, <4>1, <4>2, <4>3, <4>4
    <3> QED BY <3>1, <3>2
  <2> QED BY <1>1, <2>1
<1> QED BY <1>2, <1>3

\* What a call in its phases knows of its module.
LEMMA Here ==
    ASSUME IInv, NEW m \in Module
    PROVE  /\ StoreOK(store[m], made[m], m, calls) /\ GraphOK(graph[m], store[m])
           /\ InputOK(input[m], meant[m]) /\ store[m] \in Store /\ meant[m] \in Values
           /\ store[m].val \in Values /\ made[m] \in Seq(Values)
           /\ calls \in Nat /\ calls <= MaxCalls /\ MaxCalls \in Nat /\ slots \in 0 .. calls
BY CallsAssumption DEF IInv, ModulesOK, Store

\* A value's type: it is one of this call's, or the next's.
LEMMA ValueType ==
    ASSUME NEW b \in Module \cup {Driver, Nobody}, NEW n \in 0 .. MaxCalls
    PROVE  Value(b, n) \in Values /\ Value(b, n).n = n /\ Value(b, n).by = b
BY DEF Value, Values

-----------------------------------------------------------------------------
(* The start of a call *)

\* A call begins with its own graph and no alias.
LEMMA CallBegins ==
    ASSUME ModulesOK, NEW m \in Module, NEW a \in Axes, NEW retain \in BOOLEAN,
           NEW ode \in BOOLEAN, call' = Begun(m, a, retain, ode),
           calls \in Nat, calls' = calls + 1, UNCHANGED made,
           graph'[m] \in Graph, graph'[m].retains = retain,
           retain => graph'[m].epoch = store'[m].epoch,
           input'[m].alias = Nobody
    PROVE  CallOK'
<1>1. /\ call' \in CallType /\ call'.module = m /\ call'.retain = retain
      /\ call'.phase = "feed" /\ call'.ode = ode
  BY DEF Begun, CallType
<1>2. ASSUME NEW k \in Module, NEW g \in 1 .. Len(made'[k])
      PROVE  made'[k][g].n < calls'
  <2>1. made'[k][g].n \in 1 .. calls
    BY DEF ModulesOK, StoreOK
  <2> QED BY <2>1
<1> QED BY <1>1, <1>2 DEF CallOK

LEMMA ReuseInv ==
    ASSUME IInv, NEW m \in Module, NEW a \in Axes, NEW retain \in BOOLEAN,
           NEW ode \in BOOLEAN, Reuse(m, a, retain, ode)
    PROVE  IInv'
<1>1. /\ call = Idle /\ calls < MaxCalls /\ Retains(m, a, retain)
      /\ input' = [input EXCEPT ![m] = Restored(input[m])]
      /\ call' = Begun(m, a, retain, ode) /\ calls' = calls + 1
      /\ UNCHANGED <<store, graph, slots, made, meant, ran, read>>
  BY DEF Reuse, May
<1>2. ModulesOK /\ ReadOK
  BY DEF IInv
<1>3. StoreOK(store[m], made[m], m, calls') /\ InputOK(Restored(input[m]), meant[m])
  BY <1>1, Here, Later, RestoredOK
<1>4. /\ store' = [store EXCEPT ![m] = store[m]] /\ made' = [made EXCEPT ![m] = made[m]]
      /\ graph' = [graph EXCEPT ![m] = graph[m]]
      /\ meant' = [meant EXCEPT ![m] = meant[m]]
  BY <1>1, <1>2 DEF ModulesOK
<1>5. ModulesOK'
  BY <1>1, <1>2, <1>3, <1>4, Here, ModulesStep
<1>6. ReadOK'
  BY <1>1, <1>2, Here, ReadStep, ValueType
<1>7. graph'[m] \in Graph /\ graph'[m].retains = retain
      /\ (retain => graph'[m].epoch = store'[m].epoch)
  BY <1>1, <1>2 DEF Retains, StoreSlotsUnmoved, ModulesOK
<1>8. input'[m].alias = Nobody
  BY <1>1, <1>2, Here, RestoredOK DEF ModulesOK
<1>9. CallOK'
  BY <1>1, <1>2, <1>7, <1>8, Here, CallBegins
<1> QED BY <1>1, <1>5, <1>6, <1>9, Here DEF IInv, RunReadsWhatWasPassed

LEMMA RebuildInv ==
    ASSUME IInv, NEW m \in Module, NEW a \in Axes, NEW retain \in BOOLEAN,
           NEW ode \in BOOLEAN, Rebuild(m, a, retain, ode)
    PROVE  IInv'
<1> DEFINE s(addr) == IF retain THEN Reshaped(store[m], a, addr) ELSE store[m]
<1>1. PICK addr \in FreeAddr(m) :
        /\ call = Idle /\ calls < MaxCalls
        /\ store' = [store EXCEPT ![m] = s(addr)]
        /\ slots' \in {slots, slots + 1}
        /\ graph' = [graph EXCEPT ![m] = GraphOver(a, retain, s(addr))]
        /\ input' = [input EXCEPT ![m] = FreshInput]
        /\ meant' = [meant EXCEPT ![m] = Junk]
        /\ call' = Begun(m, a, retain, ode) /\ calls' = calls + 1
        /\ UNCHANGED <<made, ran, read>>
  BY DEF Rebuild, May
<1> DEFINE t == s(addr)
<1>2. ModulesOK /\ ReadOK /\ addr \in Addr
  BY DEF IInv, FreeAddr
<1>3. StoreOK(t, made[m], m, calls')
  BY <1>1, <1>2, Here, Later, ReshapedOK
<1> HIDE DEF s
<1> HIDE DEF t
<1>4. t \in Store /\ GraphOK(GraphOver(a, retain, t), t)
      /\ GraphOver(a, retain, t) \in Graph /\ GraphOver(a, retain, t).retains = retain
      /\ (retain => GraphOver(a, retain, t).epoch = t.epoch)
  BY <1>3, GraphOverOK DEF StoreOK
<1>5. made' = [made EXCEPT ![m] = made[m]]
  BY <1>1, <1>2 DEF ModulesOK
<1>6. ModulesOK'
  BY <1>1, <1>2, <1>3, <1>4, <1>5, Here, FreshOK, ModulesStep DEF t
<1>7. ReadOK'
  BY <1>1, <1>2, Here, ReadStep, ValueType
<1>8. graph'[m] = GraphOver(a, retain, t) /\ store'[m] = t /\ input'[m].alias = Nobody
  BY <1>1, <1>2, FreshOK DEF ModulesOK, t
<1>9. CallOK'
  BY <1>1, <1>2, <1>4, <1>8, Here, CallBegins
<1> QED BY <1>1, <1>6, <1>7, <1>9, Here DEF IInv, RunReadsWhatWasPassed

\* Whatever reshape() had done when build() threw, the module has no graph.
LEMMA RebuildFailsInv ==
    ASSUME IInv, NEW m \in Module, NEW a \in Axes, NEW retain \in BOOLEAN,
           RebuildFails(m, a, retain)
    PROVE  IInv'
<1>1. PICK addr \in FreeAddr(m) :
        /\ call = Idle /\ calls < MaxCalls
        /\ store' \in {store, [store EXCEPT ![m] = Discarded(store[m])],
                       [store EXCEPT ![m] = Reshaped(store[m], a, addr)]}
        /\ slots' \in {slots, slots + 1}
        /\ graph' = [graph EXCEPT ![m] = NoGraph]
        /\ input' = [input EXCEPT ![m] = FreshInput]
        /\ meant' = [meant EXCEPT ![m] = Junk]
        /\ calls' = calls + 1
        /\ UNCHANGED <<call, made, ran, read>>
  BY DEF RebuildFails, May
<1>2. ModulesOK /\ ReadOK /\ addr \in Addr
  BY DEF IInv, FreeAddr
<1>3. PICK t : StoreOK(t, made[m], m, calls') /\ store' = [store EXCEPT ![m] = t]
  <2>1. CASE store' = store
    <3>1. StoreOK(store[m], made[m], m, calls') /\ store' = [store EXCEPT ![m] = store[m]]
      BY <1>1, <1>2, <2>1, Here, Later DEF ModulesOK
    <3> QED BY <3>1
  <2>2. CASE store' = [store EXCEPT ![m] = Discarded(store[m])]
    <3>1. StoreOK(Discarded(store[m]), made[m], m, calls')
      BY <1>1, Here, DiscardedOK
    <3> QED BY <2>2, <3>1
  <2>3. CASE store' = [store EXCEPT ![m] = Reshaped(store[m], a, addr)]
    <3>1. StoreOK(Reshaped(store[m], a, addr), made[m], m, calls')
      BY <1>1, <1>2, Here, ReshapedOK
    <3> QED BY <2>3, <3>1
  <2> QED BY <1>1, <2>1, <2>2, <2>3
<1>4. made' = [made EXCEPT ![m] = made[m]] /\ GraphOK(NoGraph, t)
  BY <1>1, <1>2 DEF ModulesOK, GraphOK
<1>5. ModulesOK'
  BY <1>1, <1>2, <1>3, <1>4, Here, FreshOK, ModulesStep
<1>6. ReadOK'
  BY <1>1, <1>2, Here, ReadStep, ValueType
<1> QED BY <1>1, <1>5, <1>6, Here DEF IInv, RunReadsWhatWasPassed, CallOK

-----------------------------------------------------------------------------
(* Feeding the call in progress *)

\* Nothing moves but one input and what it is meant to hold.
LEMMA FeedStep ==
    ASSUME IInv, NEW m \in Module, NEW i, NEW v \in Values, InputOK(i, v),
           call \notin {Idle, Aborted}, call.module = m, call.phase \in {"feed", "ready"},
           call' \in {[call EXCEPT !.phase = "ready"], [call EXCEPT !.ode = FALSE]},
           input' = [input EXCEPT ![m] = i], meant' = [meant EXCEPT ![m] = v],
           i.alias # Nobody => ~call.ode /\ call'.phase = "ready" /\ store[i.alias].val = v,
           UNCHANGED <<store, graph, calls, slots, made, ran, read>>
    PROVE  IInv'
<1>1. ModulesOK /\ ReadOK /\ CallOK
  BY DEF IInv
<1>2. /\ store' = [store EXCEPT ![m] = store[m]] /\ made' = [made EXCEPT ![m] = made[m]]
      /\ graph' = [graph EXCEPT ![m] = graph[m]]
  BY <1>1 DEF ModulesOK
<1>3. ModulesOK'
  BY <1>1, <1>2, Here, ModulesStep
<1>4. input'[m] = i /\ meant'[m] = v
  BY <1>1 DEF ModulesOK
<1>5. /\ call \in CallType /\ call' \in CallType /\ call'.module = m
      /\ call'.retain = call.retain /\ (call'.ode => call.ode)
  BY <1>1 DEF CallOK, CallType
<1>6. CallOK'
  BY <1>1, <1>4, <1>5 DEF CallOK
<1> QED BY <1>1, <1>3, <1>6 DEF IInv, ReadOK, RunReadsWhatWasPassed

LEMMA FeedArrayInv ==
    ASSUME IInv, NEW m \in Module, FeedArray(m)
    PROVE  IInv'
<1> DEFINE v == Value(Driver, calls)
           i == [input[m] EXCEPT !.own = v, !.skipped = FALSE, !.stale = FALSE]
<1>1. /\ call \notin {Idle, Aborted} /\ call.module = m /\ call.phase = "feed"
      /\ call' = [call EXCEPT !.phase = "ready"]
  BY DEF FeedArray, Feeding, Fed, Idle, Aborted
<1>2. input[m].alias = Nobody /\ ModulesOK
  BY <1>1 DEF IInv, CallOK
<1>3. v \in Values
  <2>1. calls \in 0 .. MaxCalls
    BY Here
  <2> QED BY <2>1, ValueType
<1>4. input[m] \in InputType
  BY <1>2 DEF ModulesOK
<1>5. /\ input' = [input EXCEPT ![m] = i] /\ meant' = [meant EXCEPT ![m] = v]
      /\ UNCHANGED <<store, graph, calls, slots, made, ran, read>>
  BY <1>2, <1>4 DEF FeedArray, WriteInput, ModulesOK
<1> HIDE DEF v
<1>6. InputOK(i, v) /\ i.alias = Nobody
  BY <1>2, <1>3, <1>4 DEF InputOK, InputType
<1> HIDE DEF i
<1> QED BY <1>1, <1>3, <1>5, <1>6, FeedStep

LEMMA FeedRefInv ==
    ASSUME IInv, NEW m \in Module, NEW src \in Module, NEW pin, NEW aliased \in BOOLEAN,
           FeedRef(m, src, pin, aliased)
    PROVE  IInv'
<1> DEFINE v == store[src].val
           i == IF aliased THEN [input[m] EXCEPT !.alias = src, !.stale = FALSE]
                ELSE [input[m] EXCEPT !.own = v, !.stale = FALSE, !.skipped = FALSE]
<1>1. /\ call \notin {Idle, Aborted} /\ call.module = m /\ call.phase = "feed" /\ ~call.ode
      /\ call' = [call EXCEPT !.phase = "ready"]
      /\ meant' = [meant EXCEPT ![m] = v]
      /\ UNCHANGED <<store, graph, calls, slots, made, ran, read>>
  BY DEF FeedRef, Feeding, Fed, Idle, Aborted
<1>2. input[m].alias = Nobody /\ ModulesOK /\ call \in CallType
  BY <1>1 DEF IInv, CallOK
<1>3. v \in Values /\ input[m] \in InputType /\ src # Nobody
  BY <1>2, Here, NamesAssumption DEF ModulesOK
<1>4. input' = [input EXCEPT ![m] = i]
  BY <1>2 DEF FeedRef, ModulesOK
<1> HIDE DEF v
<1>5. InputOK(i, v) /\ (i.alias # Nobody => i.alias = src)
  BY <1>2, <1>3 DEF InputOK, InputType
<1>6. call'.phase = "ready"
  BY <1>1, <1>2 DEF CallType
<1> HIDE DEF i
<1> QED BY <1>1, <1>3, <1>4, <1>5, <1>6, FeedStep DEF v

LEMMA FeedNothingInv ==
    ASSUME IInv, NEW m \in Module, FeedNothing(m)
    PROVE  IInv'
<1>1. /\ call \notin {Idle, Aborted} /\ call.module = m /\ call.phase = "feed"
      /\ call' = [call EXCEPT !.phase = "ready"]
      /\ UNCHANGED <<store, graph, input, calls, slots, made, meant, ran, read>>
  BY DEF FeedNothing, Feeding, Fed, Idle, Aborted
<1>2. input[m].alias = Nobody /\ ModulesOK
  BY <1>1 DEF IInv, CallOK
<1>3. input' = [input EXCEPT ![m] = input[m]] /\ meant' = [meant EXCEPT ![m] = meant[m]]
  BY <1>1, <1>2 DEF ModulesOK
<1> QED BY <1>1, <1>2, <1>3, Here, FeedStep

\* run_ode's hook comes after the stale check, to an input no alias is on.
LEMMA OdeWritesInv ==
    ASSUME IInv, NEW m \in Module, OdeWrites(m)
    PROVE  IInv'
<1> DEFINE v == Value(Driver, calls)
           i == [input[m] EXCEPT !.own = v, !.skipped = FALSE]
<1>1. /\ call \notin {Idle, Aborted} /\ call.module = m /\ call.phase = "ready" /\ call.ode
      /\ call' = [call EXCEPT !.ode = FALSE]
  BY DEF OdeWrites, Idle, Aborted
<1>2. input[m].alias = Nobody /\ ModulesOK
  BY <1>1 DEF IInv, CallOK
<1>3. v \in Values
  <2>1. calls \in 0 .. MaxCalls
    BY Here
  <2> QED BY <2>1, ValueType
<1>4. input[m] \in InputType
  BY <1>2 DEF ModulesOK
<1>5. /\ input' = [input EXCEPT ![m] = i] /\ meant' = [meant EXCEPT ![m] = v]
      /\ UNCHANGED <<store, graph, calls, slots, made, ran, read>>
  BY <1>2, <1>4 DEF OdeWrites, WriteInput, ModulesOK, InputType
<1> HIDE DEF v
<1>6. InputOK(i, v) /\ i.alias = Nobody
  BY <1>2, <1>3, <1>4 DEF InputOK, InputType
<1> HIDE DEF i
<1> QED BY <1>1, <1>3, <1>5, <1>6, FeedStep

\* A call that is refused, or whose read ends the process, leaves everything where it was.
LEMMA RefusedInv ==
    ASSUME IInv, call' \in {Idle, Aborted},
           UNCHANGED <<store, graph, input, calls, slots, made, meant, ran, read>>
    PROVE  IInv'
BY DEF IInv, ModulesOK, CallOK, ReadOK, RunReadsWhatWasPassed

-----------------------------------------------------------------------------
(* The run *)

LEMMA RunsHere ==
    ASSUME IInv, NEW m \in Module, Runs(m)
    PROVE  /\ call \notin {Idle, Aborted} /\ call.module = m /\ calls > 0
           /\ Value(m, calls) \in Values /\ Value(m, calls).n = calls
           /\ Value(m, calls).by = m
           /\ \A g \in 1 .. Len(made[m]) : made[m][g].n < calls
           /\ Seen(input[m]) = meant[m]
<1>1. call \notin {Idle, Aborted} /\ call.module = m /\ ~input[m].stale
  BY DEF Runs, Idle, Aborted, StaleInput
<1>2. calls \in 0 .. MaxCalls
  BY Here
<1>3. Value(m, calls) \in Values /\ Value(m, calls).n = calls /\ Value(m, calls).by = m
  BY <1>2, ValueType
<1>4. Seen(input[m]) = meant[m]
  BY <1>1, Here DEF IInv, CallOK, InputOK, Seen
<1> QED BY <1>1, <1>3, <1>4 DEF IInv, CallOK

LEMMA ComputeInv ==
    ASSUME IInv, NEW m \in Module, Compute(m)
    PROVE  IInv'
<1> DEFINE v == Value(m, calls)
           r == Filled(store[m], v)
<1>1. /\ Runs(m) /\ ran' = [read |-> Seen(input[m]), meant |-> meant[m]]
      /\ call' = Idle /\ UNCHANGED <<graph, input, calls, slots, meant, read>>
  BY DEF Compute
<1>2. ModulesOK /\ ReadOK /\ RunReadsWhatWasPassed'
  BY <1>1, RunsHere DEF IInv, RunReadsWhatWasPassed
<1>3. CASE call.retain
  <2>1. store' = [store EXCEPT ![m] = r] /\ made' = [made EXCEPT ![m] = Append(made[m], v)]
    BY <1>2, <1>3 DEF Compute, ModulesOK, Store, Filled
  <2>2. v \in Values /\ v.n = calls /\ v.by = m /\ calls > 0
        /\ \A g \in 1 .. Len(made[m]) : made[m][g].n < v.n
    BY <1>1, RunsHere
  <2> HIDE DEF v
  <2>3. StoreOK(r, Append(made[m], v), m, calls) /\ r.epoch = store[m].epoch
        /\ r.live = store[m].live /\ r.slot = store[m].slot
    <3>1. calls \in Nat /\ StoreOK(store[m], made[m], m, calls)
      BY Here
    <3>2. v \in Values /\ v.by = m /\ v.n \in 1 .. calls
      BY <2>2, <3>1
    <3>3. \A g \in 1 .. Len(made[m]) : made[m][g].n < v.n
      BY <2>2
    <3> HIDE DEF r
    <3>4. /\ StoreOK(Filled(store[m], v), Append(made[m], v), m, calls)
          /\ Filled(store[m], v).epoch = store[m].epoch
          /\ Filled(store[m], v).live = store[m].live
          /\ Filled(store[m], v).slot = store[m].slot
      BY <3>1, <3>2, <3>3, FilledOK
    <3> QED BY <3>4 DEF r
  <2> HIDE DEF r
  <2>4. GraphOK(graph[m], r)
    <3>1. r \in Store /\ store[m] \in Store /\ GraphOK(graph[m], store[m])
      BY <2>3, Here DEF StoreOK
    <3>2. r.epoch >= store[m].epoch
      BY <2>3, <3>1 DEF Store
    <3> QED BY <2>3, <3>1, <3>2, GraphKept
  <2>5. /\ graph' = [graph EXCEPT ![m] = graph[m]] /\ input' = [input EXCEPT ![m] = input[m]]
        /\ meant' = [meant EXCEPT ![m] = meant[m]]
    BY <1>1, <1>2 DEF ModulesOK
  <2>6. ModulesOK'
    BY <1>1, <1>2, <2>1, <2>3, <2>4, <2>5, Here, ModulesStep
  <2>7. ReadOK'
    <3>1. v.n >= calls /\ calls \in Nat /\ made' = [made EXCEPT ![m] = Append(@, v)]
      BY <2>1, <2>2, Here
    <3>2. UNCHANGED read /\ calls' = calls
      BY <1>1
    <3> QED BY <1>2, <2>2, <3>1, <3>2, ReadStep
  <2> QED BY <1>1, <1>2, <2>6, <2>7 DEF IInv, CallOK
<1>4. CASE ~call.retain
  <2>1. UNCHANGED <<store, made>>
    BY <1>4 DEF Compute
  <2> QED BY <1>1, <1>2, <2>1 DEF IInv, ModulesOK, CallOK, ReadOK
<1> QED BY <1>3, <1>4

\* The copy may have been made; the generation was not raised.
LEMMA ComputeFailsInv ==
    ASSUME IInv, NEW m \in Module, ComputeFails(m)
    PROVE  IInv'
<1> DEFINE v == Value(m, calls)
           r == Torn(store[m], v)
<1>1. /\ Runs(m) /\ call' = Idle
      /\ UNCHANGED <<graph, input, calls, slots, made, meant, ran, read>>
  BY DEF ComputeFails
<1>2. ModulesOK /\ ReadOK
  BY DEF IInv
<1>3. CASE store' = store
  BY <1>1, <1>3, RefusedInv
<1>4. CASE store' = [store EXCEPT ![m].val = v]
  <2>1. store' = [store EXCEPT ![m] = r]
    BY <1>2, <1>4 DEF ModulesOK, Store, Torn
  <2>2. v \in Values /\ v.n = calls /\ v.by = m
        /\ \A g \in 1 .. Len(made[m]) : made[m][g].n < v.n
    BY <1>1, RunsHere
  <2> HIDE DEF v
  <2>3. StoreOK(r, made[m], m, calls) /\ r.epoch = store[m].epoch
        /\ r.live = store[m].live /\ r.slot = store[m].slot
    BY <2>2, Here, TornOK
  <2> HIDE DEF r
  <2>4. GraphOK(graph[m], r)
    <3>1. r \in Store /\ store[m] \in Store /\ GraphOK(graph[m], store[m])
      BY <2>3, Here DEF StoreOK
    <3>2. r.epoch >= store[m].epoch
      BY <2>3, <3>1 DEF Store
    <3> QED BY <2>3, <3>1, <3>2, GraphKept
  <2>5. /\ graph' = [graph EXCEPT ![m] = graph[m]] /\ input' = [input EXCEPT ![m] = input[m]]
        /\ meant' = [meant EXCEPT ![m] = meant[m]] /\ made' = [made EXCEPT ![m] = made[m]]
    BY <1>1, <1>2 DEF ModulesOK
  <2>6. ModulesOK'
    BY <1>1, <1>2, <2>1, <2>3, <2>4, <2>5, Here, ModulesStep
  <2> QED BY <1>1, <1>2, <2>6 DEF IInv, CallOK, ReadOK, RunReadsWhatWasPassed
<1> QED BY <1>3, <1>4 DEF ComputeFails

-----------------------------------------------------------------------------
(* Sequences and sweeps *)

\* A store reshaped for a sequence, then filled by it or by the rows so far.
LEMMA SequenceHere ==
    ASSUME IInv, calls < MaxCalls, NEW m \in Module, NEW addr \in Addr
    PROVE  /\ NextValue(m) \in Values /\ NextValue(m).n = calls + 1
           /\ StoreOK(Filled(Sequence(m, addr), NextValue(m)), Append(made[m], NextValue(m)),
                      m, calls + 1)
           /\ GraphOK(graph[m], Filled(Sequence(m, addr), NextValue(m)))
           /\ StoreOK(Torn(Sequence(m, addr), NextValue(m)), made[m], m, calls + 1)
           /\ Sequence(m, addr) \in Store
<1> DEFINE s == Sequence(m, addr)
           v == NextValue(m)
           t == Torn(s, v)
<1> SUFFICES /\ v \in Values /\ v.n = calls + 1
             /\ StoreOK(Filled(s, v), Append(made[m], v), m, calls + 1)
             /\ GraphOK(graph[m], Filled(s, v))
             /\ StoreOK(t, made[m], m, calls + 1)
             /\ s \in Store
  OBVIOUS
<1>1. calls \in Nat /\ calls + 1 \in 0 .. MaxCalls /\ calls + 1 \in Nat /\ slots \in Nat
  BY Here
<1>2. v \in Values /\ v.n = calls + 1 /\ v.by = m
  BY <1>1, ValueType DEF NextValue
<1>3. StoreOK(s, made[m], m, calls + 1) /\ s.epoch >= store[m].epoch
      /\ (s.epoch = store[m].epoch => s = store[m])
  <2>1. StoreOK(store[m], made[m], m, calls) /\ Sequenced \in Axes \cup {Sequenced}
    BY Here
  <2>2. s = Reshaped(store[m], Sequenced, addr)
    BY DEF Sequence
  <2> HIDE DEF s
  <2> QED BY <1>1, <2>1, <2>2, ReshapedOK
<1> HIDE DEF s, v
<1>4. ASSUME NEW g \in 1 .. Len(made[m]) PROVE made[m][g].n < v.n
  <2>1. made[m][g].n \in 1 .. calls
    BY Here DEF StoreOK
  <2> QED BY <1>1, <1>2, <2>1
<1>5. v.n \in 1 .. calls + 1 /\ v.n <= calls + 1
  BY <1>1, <1>2
<1>6. StoreOK(t, made[m], m, calls + 1)
  BY <1>1, <1>2, <1>3, <1>4, <1>5, TornOK
<1>7. /\ StoreOK(Filled(s, v), Append(made[m], v), m, calls + 1)
      /\ Filled(s, v).epoch = s.epoch /\ Filled(s, v).live = s.live
      /\ Filled(s, v).slot = s.slot
  BY <1>1, <1>2, <1>3, <1>4, <1>5, FilledOK
<1>8. GraphOK(graph[m], Filled(s, v))
  <2>1. Filled(s, v) \in Store /\ store[m] \in Store /\ GraphOK(graph[m], store[m])
    BY <1>7, Here DEF StoreOK
  <2> QED BY <1>3, <1>7, <2>1, GraphKept
<1> QED BY <1>2, <1>3, <1>6, <1>7, <1>8 DEF StoreOK

LEMMA RetainSequenceInv ==
    ASSUME IInv, NEW m \in Module, RetainSequence(m)
    PROVE  IInv'
<1> DEFINE v == NextValue(m)
           r(addr) == Filled(Sequence(m, addr), v)
<1>1. PICK addr \in FreeAddr(m) :
        /\ call = Idle /\ calls < MaxCalls
        /\ store' = [store EXCEPT ![m] = r(addr)]
        /\ slots' \in {slots, slots + 1}
        /\ made' = [made EXCEPT ![m] = Append(@, v)]
        /\ calls' = calls + 1
        /\ UNCHANGED <<graph, input, call, meant, ran, read>>
  BY DEF RetainSequence, May, Filled, Sequence, NextValue
<1>2. ModulesOK /\ ReadOK /\ addr \in Addr
  BY DEF IInv, FreeAddr
<1>3. /\ v \in Values /\ v.n = calls + 1 /\ v.n >= calls
      /\ StoreOK(r(addr), Append(made[m], v), m, calls')
      /\ GraphOK(graph[m], r(addr))
  BY <1>1, <1>2, Here, SequenceHere
<1> HIDE DEF r, v
<1>4. /\ graph' = [graph EXCEPT ![m] = graph[m]] /\ input' = [input EXCEPT ![m] = input[m]]
      /\ meant' = [meant EXCEPT ![m] = meant[m]]
      /\ made' = [made EXCEPT ![m] = Append(made[m], v)]
  BY <1>1, <1>2 DEF ModulesOK
<1>5. ModulesOK'
  BY <1>1, <1>2, <1>3, <1>4, Here, ModulesStep
<1>6. ReadOK'
  BY <1>1, <1>2, <1>3, Here, ReadStep
<1> QED BY <1>1, <1>5, <1>6, Here DEF IInv, CallOK, RunReadsWhatWasPassed

LEMMA RetainSequenceFailsInv ==
    ASSUME IInv, NEW m \in Module, RetainSequenceFails(m)
    PROVE  IInv'
<1> DEFINE r == Discarded(store[m])
<1>1. /\ call = Idle /\ calls < MaxCalls /\ store' = [store EXCEPT ![m] = r]
      /\ calls' = calls + 1
      /\ UNCHANGED <<graph, input, call, slots, made, meant, ran, read>>
  BY DEF RetainSequenceFails, May
<1>2. ModulesOK /\ ReadOK
  BY DEF IInv
<1>3. StoreOK(r, made[m], m, calls') /\ r.epoch = store[m].epoch /\ ~r.live
  BY <1>1, Here, DiscardedOK
<1> HIDE DEF r
<1>4. GraphOK(graph[m], r)
  <2>1. r \in Store /\ store[m] \in Store /\ GraphOK(graph[m], store[m])
    BY <1>3, Here DEF StoreOK
  <2> QED BY <1>3, <2>1 DEF GraphOK
<1>5. /\ graph' = [graph EXCEPT ![m] = graph[m]] /\ input' = [input EXCEPT ![m] = input[m]]
      /\ meant' = [meant EXCEPT ![m] = meant[m]] /\ made' = [made EXCEPT ![m] = made[m]]
  BY <1>1, <1>2 DEF ModulesOK
<1>6. ModulesOK'
  BY <1>1, <1>2, <1>3, <1>4, <1>5, Here, ModulesStep
<1>7. ReadOK'
  BY <1>1, <1>2, Here, ReadStep, ValueType
<1> QED BY <1>1, <1>6, <1>7, Here DEF IInv, CallOK, RunReadsWhatWasPassed

\* The cell's input is written directly: whatever was on it, it holds the step's value.
LEMMA SweptInput ==
    ASSUME ModulesOK, NEW m \in Module, NEW i \in {Restored(input[m]), FreshInput},
           NEW v \in Values
    PROVE  InputOK([i EXCEPT !.own = v, !.skipped = FALSE], v)
<1>1. i \in InputType /\ i.alias = Nobody
  <2>1. InputOK(Restored(input[m]), meant[m]) /\ Restored(input[m]).alias = Nobody
    BY RestoredOK DEF ModulesOK
  <2> QED BY <2>1, FreshOK DEF InputOK
<1> QED BY <1>1 DEF InputOK, InputType

\* A graph that ends in no copy is right whatever its store goes through.
LEMMA NoCopy ==
    ASSUME NEW s \in Store, NEW r, NEW a \in Axes
    PROVE  GraphOK(GraphOver(a, FALSE, s), r)
BY GraphOverOK DEF GraphOK

LEMMA SweepInv ==
    ASSUME IInv, NEW m \in Module, NEW a \in Axes, NEW retain \in BOOLEAN, Sweep(m, a, retain)
    PROVE  IInv'
<1> DEFINE v == NextValue(m)
           fed == Value(Driver, calls + 1)
           s(addr) == IF retain THEN Sequence(m, addr) ELSE store[m]
           i == IF Retains(m, a, FALSE) THEN Restored(input[m]) ELSE FreshInput
           j == [i EXCEPT !.own = fed, !.skipped = FALSE]
<1>1. PICK addr \in FreeAddr(m) :
        /\ call = Idle /\ calls < MaxCalls
        /\ store' = [store EXCEPT ![m] = IF retain THEN Filled(s(addr), v) ELSE s(addr)]
        /\ slots' \in {slots, slots + 1}
        /\ made' = IF retain THEN [made EXCEPT ![m] = Append(@, v)] ELSE made
        /\ graph' = [graph EXCEPT ![m] = GraphOver(a, FALSE, s(addr))]
        /\ input' = [input EXCEPT ![m] = j]
        /\ meant' = [meant EXCEPT ![m] = fed]
        /\ calls' = calls + 1
        /\ UNCHANGED <<call, ran, read>>
  BY DEF Sweep, May, Filled, Sequence, NextValue
<1>2. ModulesOK /\ ReadOK /\ addr \in Addr /\ calls + 1 \in 0 .. MaxCalls
  BY <1>1, Here DEF IInv, FreeAddr
<1>3. fed \in Values /\ v \in Values /\ v.n >= calls
  <2>1. calls \in Nat /\ v.n = calls + 1 /\ v \in Values
    BY <1>1, <1>2, Here, SequenceHere
  <2> QED BY <1>2, <2>1, ValueType
<1>4. InputOK(j, fed)
  <2>1. i \in {Restored(input[m]), FreshInput}
    OBVIOUS
  <2> HIDE DEF i, fed
  <2> QED BY <1>2, <1>3, <2>1, SweptInput
<1> HIDE DEF j, fed
<1>5. PICK t, md : /\ StoreOK(t, md, m, calls') /\ store' = [store EXCEPT ![m] = t]
                   /\ made' = [made EXCEPT ![m] = md]
  <2>1. CASE retain
    <3>1. StoreOK(Filled(s(addr), v), Append(made[m], v), m, calls')
      BY <1>1, <1>2, <2>1, SequenceHere
    <3> HIDE DEF s, v
    <3> QED BY <1>1, <2>1, <3>1
  <2>2. CASE ~retain
    <3>1. StoreOK(store[m], made[m], m, calls') /\ s(addr) = store[m]
      BY <1>1, <2>2, Here, Later
    <3> HIDE DEF s, v
    <3> QED BY <1>1, <1>2, <2>2, <3>1 DEF ModulesOK
  <2> QED BY <2>1, <2>2
<1>6. s(addr) \in Store
  BY <1>1, <1>2, Here, SequenceHere
<1>7. GraphOK(GraphOver(a, FALSE, s(addr)), t)
  BY <1>6, NoCopy
<1> HIDE DEF s, v
<1>8. ModulesOK'
  BY <1>1, <1>2, <1>3, <1>4, <1>5, <1>7, Here, ModulesStep
<1>9. ReadOK'
  BY <1>1, <1>2, <1>3, Here, ReadStep
<1> QED BY <1>1, <1>8, <1>9, Here DEF IInv, CallOK, RunReadsWhatWasPassed

\* The rows so far are in the store under the generation of the run before.
LEMMA SweepFailsInv ==
    ASSUME IInv, NEW m \in Module, NEW a \in Axes, SweepFails(m, a)
    PROVE  IInv'
<1> DEFINE v == NextValue(m)
           fed == Value(Driver, calls + 1)
           s(addr) == Sequence(m, addr)
           r(addr) == Torn(s(addr), v)
           i == IF Retains(m, a, FALSE) THEN Restored(input[m]) ELSE FreshInput
           j == [i EXCEPT !.own = fed, !.skipped = FALSE]
<1>1. PICK addr \in FreeAddr(m) :
        /\ call = Idle /\ calls < MaxCalls
        /\ store' = [store EXCEPT ![m] = r(addr)]
        /\ slots' \in {slots, slots + 1}
        /\ graph' = [graph EXCEPT ![m] = GraphOver(a, FALSE, s(addr))]
        /\ input' = [input EXCEPT ![m] = j]
        /\ meant' = [meant EXCEPT ![m] = fed]
        /\ calls' = calls + 1
        /\ UNCHANGED <<call, made, ran, read>>
  BY DEF SweepFails, May, Torn, Sequence, NextValue
<1>2. ModulesOK /\ ReadOK /\ addr \in Addr /\ calls + 1 \in 0 .. MaxCalls
  BY <1>1, Here DEF IInv, FreeAddr
<1>3. fed \in Values
  BY <1>2, ValueType
<1>4. InputOK(j, fed)
  <2>1. i \in {Restored(input[m]), FreshInput}
    OBVIOUS
  <2> HIDE DEF i, fed
  <2> QED BY <1>2, <1>3, <2>1, SweptInput
<1> HIDE DEF j, fed
<1>5. StoreOK(r(addr), made[m], m, calls')
  BY <1>1, <1>2, SequenceHere
<1>6. s(addr) \in Store
  BY <1>1, <1>2, SequenceHere
<1>7. GraphOK(GraphOver(a, FALSE, s(addr)), r(addr)) /\ made' = [made EXCEPT ![m] = made[m]]
  BY <1>1, <1>2, <1>6, NoCopy DEF ModulesOK
<1> HIDE DEF r, s
<1>8. ModulesOK'
  BY <1>1, <1>2, <1>3, <1>4, <1>5, <1>7, Here, ModulesStep
<1>9. ReadOK'
  BY <1>1, <1>2, Here, ReadStep, ValueType
<1> QED BY <1>1, <1>8, <1>9, Here DEF IInv, CallOK, RunReadsWhatWasPassed

-----------------------------------------------------------------------------
(* get_output, release_compute_buffers, and all steps *)

\* A pin holds the last generation, and the slot has none of the earlier ones' values.
LEMMA GetOutputInv ==
    ASSUME IInv, NEW m \in Module, NEW pin \in 0 .. MaxCalls, GetOutput(m, pin)
    PROVE  IInv'
<1> DEFINE md == made[m]
           val == store[m].val
<1>1. /\ call = Idle /\ calls < MaxCalls /\ (pin = 0 \/ pin = store[m].gen)
      /\ read' = [module |-> m, pin |-> pin, val |-> val]
      /\ calls' = calls + 1
      /\ UNCHANGED <<store, graph, input, call, slots, made, meant, ran>>
  BY DEF GetOutput, May, Readable, PinHolds
<1>2. ModulesOK
  BY DEF IInv
<1>3. /\ StoreOK(store[m], md, m, calls') /\ InputOK(input[m], meant[m])
      /\ GraphOK(graph[m], store[m]) /\ meant[m] \in Values
  BY <1>1, Here, Later
<1>4. /\ store' = [store EXCEPT ![m] = store[m]] /\ made' = [made EXCEPT ![m] = made[m]]
      /\ graph' = [graph EXCEPT ![m] = graph[m]] /\ input' = [input EXCEPT ![m] = input[m]]
      /\ meant' = [meant EXCEPT ![m] = meant[m]]
  BY <1>1, <1>2 DEF ModulesOK
<1>5. ModulesOK'
  BY <1>1, <1>2, <1>3, <1>4, Here, ModulesStep
<1>6. /\ val \in Values /\ val.n <= calls /\ val.n \in Int /\ calls \in Nat
      /\ store[m].gen = Len(md) /\ md \in Seq(Values)
      /\ \A g \in 1 .. Len(md) - 1 : val # md[g]
  <2>1. StoreOK(store[m], md, m, calls) /\ val \in Values /\ calls \in Nat /\ MaxCalls \in Nat
    BY Here
  <2>2. val.n \in Int
    BY <2>1 DEF Values
  <2> HIDE DEF md
  <2> QED BY <2>1, <2>2 DEF StoreOK
<1> HIDE DEF md, val
<1>7. /\ read' \in ReadType /\ read'.val = val /\ read'.pin = pin /\ read'.module = m
  BY <1>1, <1>6 DEF ReadType
<1>8. ASSUME pin > 0, NEW g \in 1 .. Len(md), g # pin PROVE val # md[g]
  <2>1. pin = Len(md) /\ Len(md) \in Nat
    BY <1>1, <1>6, <1>8
  <2>2. g \in 1 .. Len(md) - 1
    BY <1>8, <2>1
  <2> QED BY <1>6, <2>2
<1>9. ReadOK'
  <2>1. made'[m] = md /\ val.n < calls'
    BY <1>1, <1>6 DEF md
  <2> QED BY <1>7, <1>8, <2>1 DEF ReadOK
<1> QED BY <1>1, <1>5, <1>9, Here DEF IInv, CallOK, RunReadsWhatWasPassed

\* Every graph and every input is gone; the stores stay.
LEMMA ReleaseComputeBuffersInv ==
    ASSUME IInv, ReleaseComputeBuffers
    PROVE  IInv'
<1>1. /\ call = Idle /\ calls < MaxCalls /\ calls' = calls + 1
      /\ graph' = [m \in Module |-> NoGraph] /\ input' = [m \in Module |-> FreshInput]
      /\ meant' = [m \in Module |-> Junk]
      /\ UNCHANGED <<store, call, slots, made, ran, read>>
  BY DEF ReleaseComputeBuffers, May
<1>2. ModulesOK /\ ReadOK /\ calls \in Nat /\ MaxCalls \in Nat /\ slots \in 0 .. calls
  BY CallsAssumption DEF IInv
<1>3. FreshInput \in InputType /\ Junk \in Values
  BY FreshOK DEF InputOK
<1>4. /\ store' \in [Module -> Store] /\ made' \in [Module -> Seq(Values)]
      /\ graph' \in [Module -> Graph \cup {NoGraph}]
      /\ input' \in [Module -> InputType] /\ meant' \in [Module -> Values]
  BY <1>1, <1>2, <1>3 DEF ModulesOK
<1>5. ASSUME NEW m \in Module
      PROVE  /\ StoreOK(store'[m], made'[m], m, calls')
             /\ GraphOK(graph'[m], store'[m]) /\ InputOK(input'[m], meant'[m])
  <2>1. StoreOK(store[m], made[m], m, calls)
    BY <1>2 DEF ModulesOK
  <2>2. StoreOK(store[m], made[m], m, calls + 1)
    BY <1>2, <2>1, Later
  <2>3. GraphOK(NoGraph, store[m]) /\ InputOK(FreshInput, Junk)
    BY FreshOK DEF GraphOK
  <2>4. /\ store'[m] = store[m] /\ made'[m] = made[m] /\ graph'[m] = NoGraph
        /\ input'[m] = FreshInput /\ meant'[m] = Junk
    BY <1>1
  <2> QED BY <1>1, <2>2, <2>3, <2>4
<1>6. ModulesOK'
  BY <1>4, <1>5 DEF ModulesOK
<1>7. ReadOK'
  <2>1. read # NoRead => read.val.n \in Int
    BY <1>2 DEF ReadOK, ReadType, Values
  <2> QED BY <1>1, <1>2, <2>1 DEF ReadOK
<1> QED BY <1>1, <1>2, <1>6, <1>7 DEF IInv, CallOK, RunReadsWhatWasPassed

LEMMA InitInv == Init => IInv
<1> SUFFICES ASSUME Init PROVE IInv
  OBVIOUS
<1> DEFINE s == [slot |-> NoSlot, live |-> FALSE, geom |-> Nobody, epoch |-> 0, gen |-> 0,
                 val |-> Junk]
           md == << >>
<1>1. calls = 0 /\ slots = 0 /\ MaxCalls \in Nat
  BY CallsAssumption DEF Init
<1>2. NoSlot \in Slots /\ Junk \in Values /\ Junk.n = 0 /\ Junk.by = Nobody
  BY <1>1 DEF NoSlot, Slots, Junk, Value, Values
<1>3. s \in Store /\ md \in Seq(Values) /\ Len(md) = 0
  BY <1>2 DEF Store
<1>4. s.epoch = 0 /\ s.gen = 0 /\ s.val = Junk
  OBVIOUS
<1>5. /\ store = [m \in Module |-> s] /\ made = [m \in Module |-> md]
      /\ graph = [m \in Module |-> NoGraph] /\ input = [m \in Module |-> FreshInput]
      /\ meant = [m \in Module |-> Junk]
  BY DEF Init
<1> HIDE DEF s, md
<1>6. FreshInput \in InputType
  BY FreshOK DEF InputOK
<1>7. /\ store \in [Module -> Store] /\ made \in [Module -> Seq(Values)]
      /\ graph \in [Module -> Graph \cup {NoGraph}]
      /\ input \in [Module -> InputType] /\ meant \in [Module -> Values]
  BY <1>2, <1>3, <1>5, <1>6
<1>8. ASSUME NEW m \in Module
      PROVE  /\ StoreOK(store[m], made[m], m, calls)
             /\ GraphOK(graph[m], store[m]) /\ InputOK(input[m], meant[m])
  <2>1. StoreOK(s, md, m, 0)
    BY <1>2, <1>3, <1>4 DEF StoreOK
  <2> QED BY <1>1, <1>5, <2>1, FreshOK DEF GraphOK
<1>9. ModulesOK
  BY <1>7, <1>8 DEF ModulesOK
<1>10. CallOK /\ ReadOK /\ RunReadsWhatWasPassed
  BY DEF Init, CallOK, ReadOK, RunReadsWhatWasPassed
<1> QED BY <1>1, <1>9, <1>10 DEF IInv

LEMMA NextInv == IInv /\ [Next]_vars => IInv'
<1> SUFFICES ASSUME IInv, [Next]_vars PROVE IInv'
  OBVIOUS
<1>1. CASE UNCHANGED vars
  BY <1>1 DEF vars, IInv, ModulesOK, CallOK, ReadOK, RunReadsWhatWasPassed
<1>2. CASE Next
  <2>1. PICK m \in Module :
          \/ \E a \in Axes, retain \in BOOLEAN :
               \/ \E ode \in BOOLEAN : Reuse(m, a, retain, ode)
               \/ \E ode \in BOOLEAN : Rebuild(m, a, retain, ode)
               \/ RebuildFails(m, a, retain)
               \/ Sweep(m, a, retain)
          \/ \E a \in Axes : SweepFails(m, a)
          \/ FeedArray(m)
          \/ \E src \in Module, pin \in 0 .. MaxCalls, aliased \in BOOLEAN :
               FeedRef(m, src, pin, aliased)
          \/ FeedNothing(m)
          \/ FeedRefused(m) \/ RefuseStale(m)
          \/ OdeWrites(m)
          \/ Compute(m) \/ ComputeFails(m)
          \/ RetainSequence(m) \/ RetainSequenceFails(m)
          \/ \E pin \in 0 .. MaxCalls : GetOutput(m, pin) \/ ReadUnbacked(m, pin)
          \/ ReleaseComputeBuffers
    BY <1>2 DEF Next
  <2>2. ASSUME NEW a \in Axes, NEW retain \in BOOLEAN,
               \/ \E ode \in BOOLEAN : Reuse(m, a, retain, ode)
               \/ \E ode \in BOOLEAN : Rebuild(m, a, retain, ode)
               \/ RebuildFails(m, a, retain)
               \/ Sweep(m, a, retain)
        PROVE  IInv'
    BY <2>2, ReuseInv, RebuildInv, RebuildFailsInv, SweepInv
  <2>3. ASSUME NEW a \in Axes, SweepFails(m, a) PROVE IInv'
    BY <2>3, SweepFailsInv
  <2>4. CASE FeedArray(m)
    BY <2>4, FeedArrayInv
  <2>5. ASSUME NEW src \in Module, NEW pin \in 0 .. MaxCalls, NEW aliased \in BOOLEAN,
               FeedRef(m, src, pin, aliased)
        PROVE  IInv'
    BY <2>5, FeedRefInv
  <2>6. CASE FeedNothing(m)
    BY <2>6, FeedNothingInv
  <2>7. CASE FeedRefused(m) \/ RefuseStale(m)
    BY <2>7, RefusedInv DEF FeedRefused, RefuseStale
  <2>8. CASE OdeWrites(m)
    BY <2>8, OdeWritesInv
  <2>9. CASE Compute(m) \/ ComputeFails(m)
    BY <2>9, ComputeInv, ComputeFailsInv
  <2>10. CASE RetainSequence(m) \/ RetainSequenceFails(m)
    BY <2>10, RetainSequenceInv, RetainSequenceFailsInv
  <2>11. ASSUME NEW pin \in 0 .. MaxCalls, GetOutput(m, pin) \/ ReadUnbacked(m, pin)
         PROVE  IInv'
    BY <2>11, GetOutputInv, RefusedInv DEF ReadUnbacked
  <2>12. CASE ReleaseComputeBuffers
    BY <2>12, ReleaseComputeBuffersInv
  <2> QED BY <2>1, <2>2, <2>3, <2>4, <2>5, <2>6, <2>7, <2>8, <2>9, <2>10, <2>11, <2>12
<1> QED BY <1>1, <1>2

-----------------------------------------------------------------------------
(* Theorems *)

\* The invariant of stores, graphs, inputs, the call in progress and the last read holds
\* in every state of the bindings (lua_bridge.cpp) over the builders and their stores.
THEOREM InvariantHolds == Spec => []IInv
BY InitInv, NextInv, PTL DEF Spec

\* Every variable has its type; a store that was filled has a value for each of its
\* generations, whatever reshapes it (OutputStore::reshape, bump_generation).
THEOREM TypeCorrect == Spec => []TypeOK
<1>1. IInv => TypeOK
  <2> SUFFICES ASSUME IInv PROVE TypeOK
    OBVIOUS
  <2>1. ASSUME NEW m \in Module
        PROVE  /\ store[m].epoch \in 0 .. MaxCalls
               /\ store[m].gen = Len(made[m]) /\ store[m].val \in Values
               /\ input[m].alias \in Module \cup {Nobody} /\ input[m].own \in Values
               /\ meant[m] \in Values
    <3>1. /\ store[m].epoch \in Nat /\ store[m].epoch <= calls
          /\ store[m].gen = Len(made[m]) /\ input[m] \in InputType
      BY Here DEF StoreOK, Store, InputOK
    <3> QED BY <3>1, Here DEF InputType
  <2>2. slots \in 0 .. MaxCalls
    BY CallsAssumption DEF IInv
  <2>3. call.phase \in {"idle", "feed", "ready", "aborted"}
    BY DEF IInv, CallOK, CallType, Idle, Aborted
  <2> QED BY <2>1, <2>2, <2>3 DEF TypeOK
<1> QED BY <1>1, InvariantHolds, PTL

\* While its store has a slot, a run whose graph retains its output ends in a copy into
\* that slot and no other, whatever reshaped the store since the graph was built, and
\* even when a binding's reshape ran out of memory (output_store.h:66-77).
THEOREM RunsWriteOwnSlot == Spec => []RunWritesOwnSlot
<1>1. IInv => RunWritesOwnSlot
  <2> SUFFICES ASSUME IInv, NEW m \in Module, Runs(m), call.retain, store[m].live
               PROVE  graph[m].slot = store[m].slot
    BY DEF RunWritesOwnSlot
  <2>1. call \notin {Idle, Aborted} /\ call.module = m
    BY DEF Runs, Idle, Aborted
  <2>2. /\ graph[m] \in Graph /\ graph[m].retains /\ graph[m].epoch = store[m].epoch
    BY <2>1 DEF IInv, CallOK, CallType
  <2>3. GraphOK(graph[m], store[m]) /\ graph[m] # NoGraph
    BY <2>2, Here DEF Graph, NoGraph
  <2> QED BY <2>2, <2>3 DEF GraphOK
<1> QED BY <1>1, InvariantHolds, PTL

\* What a run reads through its input's pointer is the value the input was last given,
\* copied or aliased, on this call or an earlier one (ADR-073).
THEOREM RunsReadWhatWasPassed == Spec => []RunReadsWhatWasPassed
BY InvariantHolds, PTL DEF IInv

\* No consumer writes through an alias into its producer's slot (graph_builder.h:255-259):
\* what a store holds was left by its own module.
THEOREM StoresHoldOwnRuns == Spec => []StoreHoldsOwnRuns
<1>1. IInv => StoreHoldsOwnRuns
  BY Here DEF StoreHoldsOwnRuns, StoreOK
<1> QED BY <1>1, InvariantHolds, PTL

\* A reference pinned to a generation is never served a later completed run's value
\* (OutputStore::check_generation).
THEOREM PinnedReadsAreNotLater == Spec => []PinnedReadIsNotLater
<1>1. IInv => PinnedReadIsNotLater
  <2> SUFFICES ASSUME IInv, read # NoRead, read.pin > 0, NEW g \in DOMAIN made[read.module],
                      g # read.pin
               PROVE  read.val # made[read.module][g]
    BY DEF PinnedReadIsNotLater
  <2>1. read.module \in Module /\ ReadOK
    BY DEF IInv, ReadOK, ReadType
  <2>2. DOMAIN made[read.module] = 1 .. Len(made[read.module])
    BY <2>1, Here
  <2> QED BY <2>1, <2>2 DEF ReadOK
<1> QED BY <1>1, InvariantHolds, PTL

-----------------------------------------------------------------------------
(* Live slots *)

\* A graph built over the store's present layout has a slot to copy into.
LiveInv ==
    SequenceAllocMayFail \/
        \A m \in Module : graph[m] # NoGraph /\ graph[m].retains
                            /\ graph[m].epoch = store[m].epoch => store[m].live

\* A module's step makes its graph new, gives its store a slot, or leaves both alone.
LiveKept(k) ==
    \/ graph'[k] = NoGraph
    \/ graph'[k].retains = FALSE
    \/ store'[k].live
    \/ /\ graph'[k] = graph[k]
       /\ store'[k].epoch = store[k].epoch /\ store'[k].live = store[k].live

LEMMA ReshapedLive ==
    ASSUME NEW s \in Store, NEW geom, NEW addr
    PROVE  /\ Reshaped(s, geom, addr).live
           /\ \A v : /\ Torn(Reshaped(s, geom, addr), v).live
                     /\ Filled(Reshaped(s, geom, addr), v).live
<1> DEFINE r == Reshaped(s, geom, addr)
<1>1. DOMAIN s = {"slot", "live", "geom", "epoch", "gen", "val"}
  BY DEF Store
<1>2. r.live /\ DOMAIN r = DOMAIN s
  BY <1>1 DEF Reshaped, Keeps
<1> HIDE DEF r
<1>3. \A v : Torn(r, v).live /\ Filled(r, v).live
  BY <1>1, <1>2 DEF Torn, Filled
<1> QED BY <1>2, <1>3 DEF r

\* Building, sweeping or failing to build, for the module that does it.
LEMMA LiveBuilt ==
    ASSUME ModulesOK, NEW m \in Module, NEW a, NEW retain \in BOOLEAN,
           \/ \E ode \in BOOLEAN : Rebuild(m, a, retain, ode)
           \/ RebuildFails(m, a, retain)
           \/ Sweep(m, a, retain)
           \/ SweepFails(m, a)
    PROVE  \A k \in Module : LiveKept(k)
<1>1. PICK g, s : /\ graph' = [graph EXCEPT ![m] = g] /\ store' = [store EXCEPT ![m] = s]
                  /\ g = NoGraph \/ g.retains = FALSE \/ s.live
  <2>0. store[m] \in Store
    BY DEF ModulesOK
  <2>1. ASSUME NEW ode \in BOOLEAN, Rebuild(m, a, retain, ode)
        PROVE  \E g, s : /\ graph' = [graph EXCEPT ![m] = g]
                         /\ store' = [store EXCEPT ![m] = s]
                         /\ g = NoGraph \/ g.retains = FALSE \/ s.live
    <3> DEFINE t(addr) == IF retain THEN Reshaped(store[m], a, addr) ELSE store[m]
    <3>1. PICK addr \in FreeAddr(m) :
             /\ store' = [store EXCEPT ![m] = t(addr)]
             /\ graph' = [graph EXCEPT ![m] = GraphOver(a, retain, t(addr))]
      BY <2>1 DEF Rebuild
    <3>2. GraphOver(a, retain, t(addr)).retains = retain
      BY DEF GraphOver
    <3>3. retain => t(addr).live
      BY <2>0, ReshapedLive
    <3> HIDE DEF t
    <3> QED BY <3>1, <3>2, <3>3
  <2>2. ASSUME RebuildFails(m, a, retain)
        PROVE  \E g, s : /\ graph' = [graph EXCEPT ![m] = g]
                         /\ store' = [store EXCEPT ![m] = s]
                         /\ g = NoGraph \/ g.retains = FALSE \/ s.live
    <3>1. graph' = [graph EXCEPT ![m] = NoGraph]
      BY <2>2 DEF RebuildFails
    <3>2. \E s : store' = [store EXCEPT ![m] = s]
      <4>1. store = [store EXCEPT ![m] = store[m]]
        BY DEF ModulesOK
      <4>2. PICK addr : store' \in {store, [store EXCEPT ![m] = Discarded(store[m])],
                                    [store EXCEPT ![m] = Reshaped(store[m], a, addr)]}
        BY <2>2 DEF RebuildFails
      <4> QED BY <4>1, <4>2
    <3> QED BY <3>1, <3>2
  <2>3. ASSUME Sweep(m, a, retain) \/ SweepFails(m, a)
        PROVE  \E g, s : /\ graph' = [graph EXCEPT ![m] = g]
                         /\ store' = [store EXCEPT ![m] = s]
                         /\ g = NoGraph \/ g.retains = FALSE \/ s.live
    <3>1. \E s : graph' = [graph EXCEPT ![m] = GraphOver(a, FALSE, s)]
      BY <2>3 DEF Sweep, SweepFails
    <3>2. \A s : GraphOver(a, FALSE, s).retains = FALSE
      BY DEF GraphOver
    <3>3. \E s : store' = [store EXCEPT ![m] = s]
      BY <2>3 DEF Sweep, SweepFails
    <3> QED BY <3>1, <3>2, <3>3
  <2> QED BY <2>1, <2>2, <2>3
<1>2. /\ graph'[m] = g /\ store'[m] = s
      /\ \A k \in Module \ {m} : graph'[k] = graph[k] /\ store'[k] = store[k]
  BY <1>1 DEF ModulesOK
<1> QED BY <1>1, <1>2 DEF LiveKept

\* Feeding and running: the graphs stay, and only values are written to the stores.
LEMMA LiveFed ==
    ASSUME IInv, NEW m \in Module,
           \/ FeedArray(m) \/ OdeWrites(m) \/ Compute(m) \/ ComputeFails(m)
           \/ RetainSequence(m)
    PROVE  \A k \in Module : LiveKept(k)
<1>1. store \in [Module -> Store] /\ ModulesOK
  BY DEF IInv, ModulesOK
<1>2. ASSUME NEW n \in Module, NEW v, store' \in {store, [store EXCEPT ![n].val = v]},
             UNCHANGED graph
      PROVE  \A k \in Module : LiveKept(k)
  BY <1>1, <1>2 DEF LiveKept, Store
<1>3. CASE FeedArray(m) \/ OdeWrites(m)
  <2>1. PICK v : store' = IF input[m].alias = Nobody THEN store
                          ELSE [store EXCEPT ![input[m].alias].val = v]
    BY <1>3 DEF FeedArray, OdeWrites, WriteInput
  <2>2. UNCHANGED graph /\ input[m].alias \in Module \cup {Nobody}
    BY <1>1, <1>3 DEF FeedArray, OdeWrites, ModulesOK, InputType
  <2>3. CASE input[m].alias = Nobody
    BY <1>2, <2>1, <2>2, <2>3
  <2>4. CASE input[m].alias \in Module
    <3>1. store' \in {store, [store EXCEPT ![input[m].alias].val = v]}
      BY <2>1
    <3> QED BY <1>2, <2>2, <2>4, <3>1
  <2> QED BY <2>2, <2>3, <2>4
<1>4. CASE Compute(m)
  <2>1. UNCHANGED graph /\ store' \in {store, [store EXCEPT ![m].gen = @ + 1,
                                                            ![m].val = Value(m, calls)]}
    BY <1>4 DEF Compute
  <2> QED BY <1>1, <2>1 DEF LiveKept, Store
<1>5. CASE ComputeFails(m)
  BY <1>2, <1>5 DEF ComputeFails
<1>6. CASE RetainSequence(m)
  <2>1. PICK addr : UNCHANGED graph
                    /\ store' = [store EXCEPT ![m] = Filled(Sequence(m, addr), NextValue(m))]
    BY <1>6 DEF RetainSequence, Filled, Sequence, NextValue
  <2>2. store'[m].live /\ \A k \in Module \ {m} : store'[k] = store[k]
    BY <1>1, <2>1, ReshapedLive DEF Sequence
  <2> QED BY <2>1, <2>2 DEF LiveKept
<1> QED BY <1>3, <1>4, <1>5, <1>6

LEMMA LiveNext == IInv /\ LiveInv /\ [Next]_vars => LiveInv'
<1> SUFFICES ASSUME IInv, LiveInv, [Next]_vars, ~SequenceAllocMayFail PROVE LiveInv'
  BY DEF LiveInv
<1> SUFFICES \A k \in Module : LiveKept(k)
  BY DEF LiveKept, LiveInv
<1>1. CASE UNCHANGED <<store, graph>>
  BY <1>1 DEF LiveKept
<1>2. CASE ReleaseComputeBuffers
  BY <1>2 DEF ReleaseComputeBuffers, LiveKept
<1>3. CASE Next
  <2>1. PICK m \in Module :
          \/ \E a \in Axes, retain \in BOOLEAN :
               \/ \E ode \in BOOLEAN : Reuse(m, a, retain, ode)
               \/ \E ode \in BOOLEAN : Rebuild(m, a, retain, ode)
               \/ RebuildFails(m, a, retain)
               \/ Sweep(m, a, retain)
          \/ \E a \in Axes : SweepFails(m, a)
          \/ \E src \in Module, pin \in 0 .. MaxCalls, aliased \in BOOLEAN :
               FeedRef(m, src, pin, aliased)
          \/ FeedNothing(m) \/ FeedRefused(m) \/ RefuseStale(m)
          \/ \E pin \in 0 .. MaxCalls : GetOutput(m, pin) \/ ReadUnbacked(m, pin)
          \/ RetainSequenceFails(m)
          \/ FeedArray(m) \/ OdeWrites(m) \/ Compute(m) \/ ComputeFails(m)
          \/ RetainSequence(m)
          \/ ReleaseComputeBuffers
    BY <1>3 DEF Next
  <2>2. ASSUME NEW a \in Axes, NEW retain \in BOOLEAN,
               \/ \E ode \in BOOLEAN : Reuse(m, a, retain, ode)
               \/ \E ode \in BOOLEAN : Rebuild(m, a, retain, ode)
               \/ RebuildFails(m, a, retain)
               \/ Sweep(m, a, retain)
        PROVE  \A k \in Module : LiveKept(k)
    <3>1. ASSUME NEW ode \in BOOLEAN, Reuse(m, a, retain, ode)
          PROVE  UNCHANGED <<store, graph>>
      BY <3>1 DEF Reuse
    <3> QED BY <1>1, <2>2, <3>1, LiveBuilt DEF IInv
  <2>3. ASSUME NEW a \in Axes, SweepFails(m, a)
        PROVE  \A k \in Module : LiveKept(k)
    <3>1. FALSE \in BOOLEAN /\ ModulesOK
      BY DEF IInv
    <3> QED BY <2>3, <3>1, LiveBuilt
  <2>4. ASSUME NEW src \in Module, NEW pin \in 0 .. MaxCalls, NEW aliased \in BOOLEAN,
               FeedRef(m, src, pin, aliased)
        PROVE  \A k \in Module : LiveKept(k)
    BY <1>1, <2>4 DEF FeedRef
  <2>5. ASSUME NEW pin \in 0 .. MaxCalls, GetOutput(m, pin) \/ ReadUnbacked(m, pin)
        PROVE  \A k \in Module : LiveKept(k)
    BY <1>1, <2>5 DEF GetOutput, ReadUnbacked
  <2>6. CASE FeedNothing(m) \/ FeedRefused(m) \/ RefuseStale(m)
    BY <1>1, <2>6 DEF FeedNothing, FeedRefused, RefuseStale
  <2>7. ~RetainSequenceFails(m)
    BY DEF RetainSequenceFails
  <2>8. CASE \/ FeedArray(m) \/ OdeWrites(m) \/ Compute(m) \/ ComputeFails(m)
             \/ RetainSequence(m)
    BY <2>8, LiveFed
  <2> QED BY <1>2, <2>1, <2>2, <2>3, <2>4, <2>5, <2>6, <2>7, <2>8
<1> QED BY <1>1, <1>3 DEF vars

\* When no binding runs out of memory in reshape, whatever reshaped the store since the
\* graph was built, a run never ends in a copy into a slot that has been freed: the heap
\* corruption of Kokoro's second synthesis (output_store.h:66-77).
THEOREM RunsWriteLiveSlot == ~SequenceAllocMayFail => (Spec => []RunWritesLiveSlot)
<1> SUFFICES ASSUME ~SequenceAllocMayFail PROVE Spec => []RunWritesLiveSlot
  OBVIOUS
<1>1. Init => LiveInv
  BY DEF Init, LiveInv
<1>2. IInv /\ LiveInv /\ RunWritesOwnSlot => RunWritesLiveSlot
  <2> SUFFICES ASSUME IInv, LiveInv, NEW m \in Module, Runs(m), call.retain
               PROVE  store[m].live
    BY DEF RunWritesOwnSlot, RunWritesLiveSlot
  <2>1. call \notin {Idle, Aborted} /\ call.module = m
    BY DEF Runs, Idle, Aborted
  <2>2. /\ graph[m] \in Graph /\ graph[m].retains /\ graph[m].epoch = store[m].epoch
    BY <2>1 DEF IInv, CallOK, CallType
  <2>3. graph[m] # NoGraph
    BY <2>2 DEF Graph, NoGraph
  <2> QED BY <2>2, <2>3 DEF LiveInv
<1>3. Spec => []LiveInv
  BY <1>1, LiveNext, InvariantHolds, PTL DEF Spec
<1> QED BY <1>2, <1>3, InvariantHolds, RunsWriteOwnSlot, PTL
=============================================================================
