-------------------------- MODULE RetainedOutputs --------------------------
(***************************************************************************)
(* What moves between the modules of a model: a driver's calls             *)
(* (lua_bridge.cpp), the one graph each module's GraphBuilder retains and  *)
(* its declared input, and the OutputStore that keeps a module's outputs   *)
(* for other modules to read by name.                                      *)
(*                                                                         *)
(* A retained graph that retains its outputs ends in a copy into the       *)
(* store's slot of the time it was built.  Builds reshape the store; so do *)
(* the bindings that leave a sequence in it, and those no graph sees.      *)
(* An input passed by reference is not copied: it is pointed at the        *)
(* producer's slot until the module's next build.                          *)
(*                                                                         *)
(* Each module has one declared input and one output.  A call goes through *)
(* the phases of compute_and_emit and can fail in each of them.            *)
(***************************************************************************)
EXTENDS Integers, Sequences

CONSTANTS Module, Axes,
          Addr,             \* addresses the allocator hands out for slots
          SequenceAllocMayFail,     \* may a binding run out of memory in reshape?
          MaxCalls          \* TLC bound on the number of calls

ASSUME AllocAssumption == SequenceAllocMayFail \in BOOLEAN
ASSUME CallsAssumption == MaxCalls \in Nat
\* Every store can hold a slot.
ASSUME AddrAssumption == \E f \in [Module -> Addr] :
                            \A m, k \in Module : f[m] = f[k] => m = k

VARIABLES
    store,      \* module -> its OutputStore
    graph,      \* module -> the graph its builder retains
    input,      \* module -> its declared input
    call,       \* the call in progress
    calls,      \* how many there have been
    slots,      \* how many slots were ever allocated
    made,       \* module -> the value each of its generations stands for
    meant,      \* module -> the value its input was last given
    ran,        \* what the last completed run read, and what it should have
    read        \* the last get_output

vars == <<store, graph, input, call, calls, slots, made, meant, ran, read>>

Nobody == "nobody"
Driver == "driver"
Sequenced == "sequence"         \* the geometry a sequence binding gives a store
Value(by, n) == [by |-> by, n |-> n]
Junk == Value(Nobody, 0)        \* memory nothing was written to

ASSUME NamesAssumption == {Nobody, Driver} \cap Module = {}

NoSlot == [id |-> 0, addr |-> Nobody]
NoGraph == [axes |-> Nobody]
FreshInput == [own |-> Junk, alias |-> Nobody, stale |-> FALSE, skipped |-> FALSE]
Idle == [phase |-> "idle"]
Aborted == [phase |-> "aborted"]        \* the process is gone
NoRead == [module |-> Nobody]

-----------------------------------------------------------------------------
(* OutputStore *)

FreeAddr(m) == Addr \ {store[k].slot.addr : k \in Module \ {m}}

\* reshape(): the old slot is freed before the new one is allocated, so the new one
\* may get its address.  Nothing happens when the geometry is the same.
Keeps(s, geom) == s.live /\ s.geom = geom

\* Fault: a new layout starts counting its generations again.
ReshapedFromZero(s, geom, addr) ==
    IF Keeps(s, geom) THEN s
    ELSE [s EXCEPT !.live = TRUE, !.geom = geom, !.val = Junk, !.gen = 0,
                   !.slot = [id |-> slots + 1, addr |-> addr],
                   !.epoch = @ + 1]

Reshaped(s, geom, addr) ==
    IF Keeps(s, geom) THEN s
    ELSE [s EXCEPT !.live = TRUE, !.geom = geom, !.val = Junk,
                   !.slot = [id |-> slots + 1, addr |-> addr],
                   !.epoch = @ + 1]

\* reshape() that throws: the old slot is gone, the epoch is not raised.
Discarded(s) == [s EXCEPT !.live = FALSE, !.val = Junk, !.slot = NoSlot]

\* Fault: the generation is not checked.
NotPinned(s, pin) == TRUE

\* check_generation(), and get(), which asks no more of a store than that it was once
\* filled: it also serves a slot whose allocation failed in reshape().
PinHolds(s, pin) == pin = 0 \/ pin = s.gen
Readable(m, pin) == store[m].gen > 0 /\ PinHolds(store[m], pin)

-----------------------------------------------------------------------------
(* GraphBuilder *)

\* Fault: the slots are compared by address.
SlotsSameAddress(m) == graph[m].slot.addr = store[m].slot.addr

StoreSlotsUnmoved(m) == graph[m].epoch = store[m].epoch

Retains(m, a, retain) ==
    /\ graph[m] # NoGraph
    /\ graph[m].axes = a
    /\ graph[m].retains = retain
    /\ retain => StoreSlotsUnmoved(m)

\* Fault: an alias outlives the call it was made in.
StaysAliased(i) == i

\* restore_aliased_inputs(): the input's own storage is missing the aliased value.
Restored(i) ==
    IF i.alias = Nobody THEN i
    ELSE [i EXCEPT !.alias = Nobody, !.stale = TRUE, !.skipped = TRUE]

GraphOver(a, retain, s) ==
    [axes |-> a, retains |-> retain, epoch |-> IF retain THEN s.epoch ELSE 0,
     slot |-> IF retain THEN s.slot ELSE NoSlot]

\* What the input's data pointer leads to.
Seen(i) == IF i.alias = Nobody THEN i.own ELSE store[i.alias].val

\* Writing a value through that pointer.
WriteInput(m, v, marks) ==
    LET i == input[m] IN
    /\ input' = [input EXCEPT ![m].own = IF i.alias = Nobody THEN v ELSE @,
                              ![m].skipped = IF i.alias = Nobody THEN FALSE ELSE @,
                              ![m].stale = IF marks THEN FALSE ELSE @]
    /\ store' = IF i.alias = Nobody THEN store ELSE [store EXCEPT ![i.alias].val = v]
    /\ meant' = [meant EXCEPT ![m] = v]

-----------------------------------------------------------------------------
Init ==
    /\ store = [m \in Module |-> [slot |-> NoSlot, live |-> FALSE, geom |-> Nobody,
                                  epoch |-> 0, gen |-> 0, val |-> Junk]]
    /\ graph = [m \in Module |-> NoGraph]
    /\ input = [m \in Module |-> FreshInput]
    /\ call = Idle
    /\ calls = 0
    /\ slots = 0
    /\ made = [m \in Module |-> << >>]
    /\ meant = [m \in Module |-> Junk]
    /\ ran = [read |-> Junk, meant |-> Junk]
    /\ read = NoRead

May == call = Idle /\ calls < MaxCalls

Begun(m, a, retain, ode) ==
    [phase |-> "feed", module |-> m, axes |-> a, retain |-> retain, ode |-> ode]

\* build() serves the retained graph.
Reuse(m, a, retain, ode) ==
    /\ May
    /\ Retains(m, a, retain)
    /\ input' = [input EXCEPT ![m] = Restored(@)]
    /\ call' = Begun(m, a, retain, ode)
    /\ calls' = calls + 1
    /\ UNCHANGED <<store, graph, slots, made, meant, ran, read>>

\* build() makes another: the retained one is dropped first, its input with it, and
\* the store is reshaped to the new outputs' geometry.
Rebuild(m, a, retain, ode) ==
    \E addr \in FreeAddr(m) :
        LET s == IF retain THEN Reshaped(store[m], a, addr) ELSE store[m] IN
        /\ May
        /\ ~Retains(m, a, retain)
        /\ store' = [store EXCEPT ![m] = s]
        /\ slots' = IF s.slot = store[m].slot THEN slots ELSE slots + 1
        /\ graph' = [graph EXCEPT ![m] = GraphOver(a, retain, s)]
        /\ input' = [input EXCEPT ![m] = FreshInput]
        /\ meant' = [meant EXCEPT ![m] = Junk]
        /\ call' = Begun(m, a, retain, ode)
        /\ calls' = calls + 1
        /\ UNCHANGED <<made, ran, read>>

\* build() throws: before the store is reshaped, in reshape(), or after it.
RebuildFails(m, a, retain) ==
    \E addr \in FreeAddr(m) :
        /\ May
        /\ ~Retains(m, a, retain)
        /\ \/ store' = store
           \/ /\ retain /\ ~Keeps(store[m], a)
              /\ store' = [store EXCEPT ![m] = Discarded(@)]
           \/ /\ retain
              /\ store' = [store EXCEPT ![m] = Reshaped(@, a, addr)]
        /\ slots' = IF store'[m].slot \in {store[m].slot, NoSlot} THEN slots ELSE slots + 1
        /\ graph' = [graph EXCEPT ![m] = NoGraph]
        /\ input' = [input EXCEPT ![m] = FreshInput]
        /\ meant' = [meant EXCEPT ![m] = Junk]
        /\ calls' = calls + 1
        /\ UNCHANGED <<call, made, ran, read>>

-----------------------------------------------------------------------------
(* compute_and_emit: the inputs table, the stale check, the run *)

Fed == [call EXCEPT !.phase = "ready"]

Feeding(m) == call.phase = "feed" /\ call.module = m

\* A value from the driver; an ODE's carried input is not in the table.
FeedArray(m) ==
    /\ Feeding(m) /\ ~call.ode
    /\ WriteInput(m, Value(Driver, calls), TRUE)
    /\ call' = Fed
    /\ UNCHANGED <<graph, calls, slots, made, ran, read>>

\* A reference: the input is pointed at the producer's slot, or, when an alias
\* would not be the same (alias_input's conditions), the slot is copied.
FeedRef(m, src, pin, aliased) ==
    /\ Feeding(m) /\ ~call.ode
    /\ Readable(src, pin) /\ store[src].live
    /\ IF aliased
       THEN input' = [input EXCEPT ![m].alias = src, ![m].stale = FALSE]
       ELSE input' = [input EXCEPT ![m].own = store[src].val, ![m].stale = FALSE,
                                   ![m].skipped = FALSE]
    /\ meant' = [meant EXCEPT ![m] = store[src].val]
    /\ call' = Fed
    /\ UNCHANGED <<store, graph, calls, slots, made, ran, read>>

\* The table does not name the input.
FeedNothing(m) ==
    /\ Feeding(m)
    /\ call' = Fed
    /\ UNCHANGED <<store, graph, input, calls, slots, made, meant, ran, read>>

\* An entry of the table is refused: no such output, a stale pin, another shape.
FeedRefused(m) ==
    /\ Feeding(m)
    /\ call' = Idle
    /\ UNCHANGED <<store, graph, input, calls, slots, made, meant, ran, read>>

\* Fault: the stale inputs are not checked.
NeverStale(m) == FALSE

StaleInput(m) == input[m].stale

RefuseStale(m) ==
    /\ call.phase = "ready" /\ call.module = m
    /\ StaleInput(m)
    /\ call' = Idle
    /\ UNCHANGED <<store, graph, input, calls, slots, made, meant, ran, read>>

\* run_ode's hook writes the state it carries, after the check and unmarked.
OdeWrites(m) ==
    /\ call.phase = "ready" /\ call.module = m /\ call.ode
    /\ ~StaleInput(m)
    /\ WriteInput(m, Value(Driver, calls), FALSE)
    /\ call' = [call EXCEPT !.ode = FALSE]
    /\ UNCHANGED <<graph, calls, slots, made, ran, read>>

Runs(m) == call.phase = "ready" /\ call.module = m /\ ~call.ode /\ ~StaleInput(m)

\* The run: the output is computed from what the input's pointer leads to and, when
\* it is retained, copied to the slot the graph names; then bump_generation().
Compute(m) ==
    LET out == Value(m, calls) IN
    /\ Runs(m)
    /\ ran' = [read |-> Seen(input[m]), meant |-> meant[m]]
    /\ IF call.retain
       THEN /\ store' = [store EXCEPT ![m].gen = @ + 1, ![m].val = out]
            /\ made' = [made EXCEPT ![m] = Append(@, out)]
       ELSE UNCHANGED <<store, made>>
    /\ call' = Idle
    /\ UNCHANGED <<graph, input, calls, slots, meant, read>>

\* compute() throws: the copy may or may not have been made, the generation stays.
ComputeFails(m) ==
    /\ Runs(m)
    /\ \/ store' = store
       \/ call.retain /\ store' = [store EXCEPT ![m].val = Value(m, calls)]
    /\ call' = Idle
    /\ UNCHANGED <<graph, input, calls, slots, made, meant, ran, read>>

-----------------------------------------------------------------------------
(* The bindings that leave a sequence in a store without a build: the duration    *)
(* expansion, the two-directional sweep and the ODE's result                      *)

RetainSequence(m) ==
    \E addr \in FreeAddr(m) :
        LET s == Reshaped(store[m], Sequenced, addr) IN
        /\ May
        /\ store' = [store EXCEPT ![m] = [s EXCEPT !.gen = @ + 1,
                                                   !.val = Value(m, calls + 1)]]
        /\ slots' = IF s.slot = store[m].slot THEN slots ELSE slots + 1
        /\ made' = [made EXCEPT ![m] = Append(@, Value(m, calls + 1))]
        /\ calls' = calls + 1
        /\ UNCHANGED <<graph, input, call, meant, ran, read>>

RetainSequenceFails(m) ==
    /\ May /\ SequenceAllocMayFail
    /\ ~Keeps(store[m], Sequenced)
    /\ store' = [store EXCEPT ![m] = Discarded(@)]
    /\ calls' = calls + 1
    /\ UNCHANGED <<graph, input, call, slots, made, meant, ran, read>>

\* run_recurrent: the store, if it is asked to retain, is reshaped to the sequence
\* first; then every step builds with no store, writes the cell's input directly and
\* unmarked, and runs.
Sweep(m, a, retain) ==
    \E addr \in FreeAddr(m) :
        LET s == IF retain THEN Reshaped(store[m], Sequenced, addr) ELSE store[m]
            i == IF Retains(m, a, FALSE) THEN Restored(input[m]) ELSE FreshInput
            v == Value(m, calls + 1)
        IN
        /\ May
        /\ store' = [store EXCEPT ![m] =
                        IF retain THEN [s EXCEPT !.gen = @ + 1, !.val = v] ELSE s]
        /\ slots' = IF s.slot = store[m].slot THEN slots ELSE slots + 1
        /\ made' = IF retain THEN [made EXCEPT ![m] = Append(@, v)] ELSE made
        /\ graph' = [graph EXCEPT ![m] = GraphOver(a, FALSE, s)]
        /\ input' = [input EXCEPT ![m] = [i EXCEPT !.own = Value(Driver, calls + 1),
                                                   !.skipped = FALSE]]
        /\ meant' = [meant EXCEPT ![m] = Value(Driver, calls + 1)]
        /\ calls' = calls + 1
        /\ UNCHANGED <<call, ran, read>>

\* A step of the sweep fails: the rows so far are in the store under the generation
\* of the run before.
SweepFails(m, a) ==
    \E addr \in FreeAddr(m) :
        LET s == Reshaped(store[m], Sequenced, addr)
            i == IF Retains(m, a, FALSE) THEN Restored(input[m]) ELSE FreshInput
        IN
        /\ May
        /\ store' = [store EXCEPT ![m] = [s EXCEPT !.val = Value(m, calls + 1)]]
        /\ slots' = IF s.slot = store[m].slot THEN slots ELSE slots + 1
        /\ graph' = [graph EXCEPT ![m] = GraphOver(a, FALSE, s)]
        /\ input' = [input EXCEPT ![m] = [i EXCEPT !.own = Value(Driver, calls + 1),
                                                   !.skipped = FALSE]]
        /\ meant' = [meant EXCEPT ![m] = Value(Driver, calls + 1)]
        /\ calls' = calls + 1
        /\ UNCHANGED <<call, made, ran, read>>

-----------------------------------------------------------------------------
(* loom.get_output, and the host's release_compute_buffers *)

GetOutput(m, pin) ==
    /\ May
    /\ Readable(m, pin) /\ store[m].live
    /\ read' = [module |-> m, pin |-> pin, val |-> store[m].val]
    /\ calls' = calls + 1
    /\ UNCHANGED <<store, graph, input, call, slots, made, meant, ran>>

\* get() serves a slot without a buffer, to get_output, to a sweep's input sequence or
\* to a call's inputs table: alias_input refuses it, and ggml's copy out of it follows a
\* null buffer (lua_bridge.cpp:190-192), which ends the process.
ReadUnbacked(m, pin) ==
    /\ May \/ (call.phase = "feed" /\ ~call.ode)
    /\ Readable(m, pin) /\ ~store[m].live
    /\ call' = Aborted
    /\ UNCHANGED <<store, graph, input, calls, slots, made, meant, ran, read>>

ReleaseComputeBuffers ==
    /\ May
    /\ graph' = [m \in Module |-> NoGraph]
    /\ input' = [m \in Module |-> FreshInput]
    /\ meant' = [m \in Module |-> Junk]
    /\ calls' = calls + 1
    /\ UNCHANGED <<store, call, slots, made, ran, read>>

Next ==
    \E m \in Module :
        \/ \E a \in Axes, retain \in BOOLEAN :
             \/ \E ode \in BOOLEAN :
                  /\ ode => ~retain
                  /\ Reuse(m, a, retain, ode) \/ Rebuild(m, a, retain, ode)
             \/ RebuildFails(m, a, retain)
             \/ Sweep(m, a, retain)
        \/ \E a \in Axes : SweepFails(m, a)
        \/ FeedArray(m)
        \/ \E src \in Module, pin \in 0 .. MaxCalls, aliased \in BOOLEAN :
             FeedRef(m, src, pin, aliased)
        \/ FeedNothing(m)
        \/ FeedRefused(m)
        \/ RefuseStale(m)
        \/ OdeWrites(m)
        \/ Compute(m)
        \/ ComputeFails(m)
        \/ RetainSequence(m)
        \/ RetainSequenceFails(m)
        \/ \E pin \in 0 .. MaxCalls : GetOutput(m, pin) \/ ReadUnbacked(m, pin)
        \/ ReleaseComputeBuffers

Spec == Init /\ [][Next]_vars

-----------------------------------------------------------------------------
(* Properties *)

Values == [by : Module \cup {Driver, Nobody}, n : 0 .. MaxCalls]

\* Every variable has its type; a store that was filled has a value for each of its
\* generations.
TypeOK ==
    /\ \A m \in Module :
         /\ store[m].epoch \in 0 .. MaxCalls
         /\ store[m].gen = Len(made[m])
         /\ store[m].val \in Values
         /\ input[m].alias \in Module \cup {Nobody}
         /\ input[m].own \in Values
         /\ meant[m] \in Values
    /\ call.phase \in {"idle", "feed", "ready", "aborted"}
    /\ slots \in 0 .. MaxCalls

\* Whatever reshaped the store since the graph was built, a run never ends in a copy
\* into a slot that has been freed: the heap corruption of Kokoro's second synthesis
\* (output_store.h:66-77).
RunWritesLiveSlot ==
    \A m \in Module : Runs(m) /\ call.retain =>
        store[m].live /\ graph[m].slot = store[m].slot

\* The part of it that holds even when a binding's reshape runs out of memory: a run
\* never copies into another slot than the store's own.
RunWritesOwnSlot ==
    \A m \in Module : Runs(m) /\ call.retain /\ store[m].live =>
        graph[m].slot = store[m].slot

\* A run reads what its input was last given, by value or by reference, on this call
\* or on an earlier one its graph still serves (ADR-073).
RunReadsWhatWasPassed == ran.read = ran.meant

\* Nothing but a module's own calls writes its store: no consumer writes through an
\* alias into the producer's slot (graph_builder.h:255-259).
StoreHoldsOwnRuns == \A m \in Module : store[m].val.by \in {m, Nobody}

\* A read pinned to a generation never returns what a LATER run that completed left.
PinnedReadIsNotLater ==
    read # NoRead /\ read.pin > 0 =>
        \A g \in DOMAIN made[read.module] : g # read.pin => read.val # made[read.module][g]

\* The stronger claim of output_store.h:61-64: it returns what the pinned run left.
PinnedReadIsPinnedRun ==
    read # NoRead /\ read.pin > 0 => read.val = made[read.module][read.pin]

\* stale_inputs() (graph_builder.h:261-263): an input is stale only if its storage
\* was skipped by an alias and has not been written since.
StaleMeansUnwritten == \A m \in Module : input[m].stale => input[m].skipped
=============================================================================
