-------------------------- MODULE ErrorsLifecycleProofs --------------------------
(***************************************************************************)
(* ErrorsLifecycle, for any threads that get, wire and close, any number   *)
(* of clients and any nesting of blocks.                                   *)
(***************************************************************************)
EXTENDS ErrorsLifecycle, SequenceTheorems, TLAPS

PCs == InGet \cup {"idle", "wire", "attach", "hooks",
                   "resetConfig", "shutdownCheck", "shutdownCall", "shuttingDown", "clear"}
Hook == [hook : {"join", "wxyc"}, of : Nat]
Snapshots == [number : Nat, apiKey : BOOLEAN, handlers : Seq(Nat), hooksInstalled : BOOLEAN,
              hooks : Seq(Nat), client : Nat, config : Configs \cup {Unset}, initFailed : BOOLEAN]

Shapes ==
    /\ pc \in [Threads -> PCs]
    /\ homes \in Seq(Nat) /\ exitHooks \in Seq(Hook)
    /\ handlers \in Seq(Nat) /\ hooks \in Seq(Nat)
    /\ hooksInstalled \in BOOLEAN /\ apiKey \in BOOLEAN
    /\ entered \in Nat
    /\ blocks \in Seq(Snapshots)

\* What a thread holds between its steps: a client of the block the process is
\* in, and while it has built one that it has yet to store there is no other.
Control ==
    \A t \in Threads :
        /\ pc[t] \in InGet => wants[t] \in Configs
        /\ pc[t] \in {"idle", "getCheck", "resetConfig", "shutdownCheck"} => held[t] = None
        /\ held[t] # None => homes[held[t]] = Block
        /\ pc[t] = "store" => held[t] # None /\ client = None
        /\ pc[t] \in {"wire", "attach", "hooks"} => held[t] # None

\* The globals f are of block b, given the homes of the clients and the blocks
\* in which a build failed.
OfBlock(f, b, H, F) ==
    /\ f.client \in 0..Len(H)
    /\ f.client # None => H[f.client] = b
    /\ \A i \in 1..Len(f.handlers) : f.handlers[i] \in 1..Len(H) /\ H[f.handlers[i]] = b
    /\ f.hooksInstalled => f.hooks # <<>> /\ Head(f.hooks) \in 1..Len(H) /\ H[Head(f.hooks)] = b
    /\ f.initFailed => b \in F

\* The block outside the k-th open one: where what the k-th saved belongs.
BlockAt(k) == IF k = 0 THEN 0 ELSE blocks[k].number

\* The globals are of the block the process is in, and what each open block put
\* aside is of the block around it.
Frames ==
    /\ OfBlock(Saved, Block, homes, failedIn)
    /\ \A k \in 1..Len(blocks) :
         blocks[k].number > 0 /\ OfBlock(blocks[k], BlockAt(k - 1), homes, failedIn)

\* The wxyc hook is on the stack, above the join hook of client n.
Settled(s, n) ==
    \E w \in 1..Len(s) : s[w] = Wxyc /\ \A i \in 1..Len(s) : s[i] = Join(n) => i < w

\* That is so for the cached client unless a build is under way, and for the
\* clients put aside even then.
HooksOrdered ==
    /\ \A i, j \in 1..Len(exitHooks) : exitHooks[i] = Wxyc /\ exitHooks[j] = Wxyc => i = j
    /\ client # None /\ ~ Building => Settled(exitHooks, client)
    /\ \A k \in 1..Len(blocks) : blocks[k].client # None => Settled(exitHooks, blocks[k].client)

LifeInv == Shapes /\ TypeOK /\ Control /\ Frames /\ HooksOrdered

LEMMA LifeInvInit == Init => LifeInv
  <1> SUFFICES ASSUME Init PROVE LifeInv
    OBVIOUS
  <1>1. Shapes
    <2>1. \A S : <<>> \in Seq(S)
      OBVIOUS
    <2>2. pc \in [Threads -> PCs]
      BY DEF Init, PCs
    <2> QED
      BY <2>1, <2>2 DEF Init, Shapes
  <1>2. TypeOK
    <2>1. \A t \in Threads : pc[t] \notin InGet
      BY DEF Init, InGet
    <2>2. held \in [Threads -> 0..Len(homes)] /\ wants \in [Threads -> Configs \cup {Unset}]
      BY DEF Init, None
    <2>3. lockFree = (\A t \in Threads : pc[t] \notin InGet)
      BY <2>1 DEF Init
    <2>4. client \in 0..Len(homes) /\ open \subseteq 1..Len(homes)
      BY DEF Init, None
    <2> QED
      BY <2>1, <2>2, <2>3, <2>4 DEF Init, TypeOK
  <1>3. Control
    BY DEF Init, Control, InGet, None
  <1>4. Frames
    BY DEF Init, Frames, OfBlock, Saved, None
  <1>5. HooksOrdered
    BY DEF Init, HooksOrdered, None
  <1> QED
    BY <1>1, <1>2, <1>3, <1>4, <1>5 DEF LifeInv

-----------------------------------------------------------------------------
(* Steps that leave a part of the invariant alone                          *)

frame == <<client, config, initFailed, handlers, hooksInstalled, hooks, apiKey, blocks, entered>>

LEMMA FramesKept == ASSUME Frames, UNCHANGED frame, UNCHANGED <<homes, failedIn>> PROVE Frames'
  <1>1. Saved' = Saved /\ Block' = Block /\ \A k : BlockAt(k)' = BlockAt(k)
    BY DEF frame, Saved, Block, BlockAt
  <1> HIDE DEF Saved, Block, BlockAt
  <1> QED
    BY <1>1 DEF Frames, frame

\* One more client and one more failure change nothing for the frames there are.
LEMMA OfBlockGrows ==
    ASSUME NEW H \in Seq(Nat), NEW n \in Nat, NEW H2, H2 = H \/ H2 = Append(H, n),
           NEW F, NEW F2, F \subseteq F2, NEW f, NEW b, OfBlock(f, b, H, F)
    PROVE  OfBlock(f, b, H2, F2)
  <1>1. Len(H2) \in Nat /\ Len(H) \in Nat /\ Len(H) <= Len(H2) /\ \A i \in 1..Len(H) : H2[i] = H[i]
    OBVIOUS
  <1>2. 1..Len(H) \subseteq 1..Len(H2) /\ 0..Len(H) \subseteq 0..Len(H2)
    BY <1>1
  <1>3. f.client \in 0..Len(H2) /\ (f.client # None => H2[f.client] = b)
    BY <1>1, <1>2 DEF OfBlock, None
  <1> QED
    BY <1>1, <1>2, <1>3 DEF OfBlock

LEMMA FramesGrow ==
    ASSUME Shapes, Frames, UNCHANGED frame, Block \in Nat,
           homes' = homes \/ homes' = Append(homes, Block), failedIn \subseteq failedIn'
    PROVE  Frames'
  <1>1. Saved' = Saved /\ Block' = Block /\ (\A k : BlockAt(k)' = BlockAt(k)) /\ blocks' = blocks
    BY DEF frame, Saved, Block, BlockAt
  <1>2. homes \in Seq(Nat)
    BY DEF Shapes
  <1> HIDE DEF Saved, Block, BlockAt
  <1>3. OfBlock(Saved, Block, homes', failedIn')
    BY <1>2, OfBlockGrows DEF Frames
  <1>4. \A k \in 1..Len(blocks) : OfBlock(blocks[k], BlockAt(k - 1), homes', failedIn')
    BY <1>2, OfBlockGrows DEF Frames
  <1> QED
    BY <1>1, <1>3, <1>4 DEF Frames

LEMMA HooksKept ==
    ASSUME HooksOrdered, UNCHANGED <<exitHooks, blocks>>, client' \in {client, None},
           Building => Building'
    PROVE  HooksOrdered'
  BY DEF HooksOrdered, Settled

Builds == {"store", "storeConfig", "register"}

LEMMA StepOf ==
    ASSUME Shapes, NEW t \in Threads, NEW here, NEW there \in PCs, Step(t, here, there)
    PROVE  /\ pc[t] = here
           /\ pc' \in [Threads -> PCs]
           /\ \A u \in Threads : pc'[u] = IF u = t THEN there ELSE pc[u]
           /\ here \notin Builds \/ there \in Builds => (Building => Building')
  BY DEF Step, Shapes, Building, Builds

LEMMA BlockIsNat == ASSUME Shapes PROVE Block \in Nat
  <1>1. CASE blocks = <<>>
    BY <1>1 DEF Block
  <1>2. CASE blocks # <<>>
    <2>1. blocks \in Seq(Snapshots) /\ Len(blocks) \in 1..Len(blocks)
      BY <1>2 DEF Shapes
    <2>2. blocks[Len(blocks)] \in Snapshots
      BY <2>1
    <2> QED
      BY <1>2, <2>2 DEF Block, Snapshots
  <1> QED
    BY <1>1, <1>2

\* _lock is held exactly while a thread is in the getter.
Locked ==
    /\ lockFree = (\A t \in Threads : pc[t] \notin InGet)
    /\ \A t, u \in Threads : pc[t] \in InGet /\ pc[u] \in InGet => t = u

LEMMA LockStep ==
    ASSUME Shapes, Locked, NEW t \in Threads, NEW here, NEW there \in PCs, Step(t, here, there),
           \/ (here \in InGet <=> there \in InGet) /\ lockFree' = lockFree
           \/ here \notin InGet /\ there \in InGet /\ lockFree /\ lockFree' = FALSE
           \/ here \in InGet /\ there \notin InGet /\ lockFree' = TRUE
    PROVE  Locked'
  <1>1. pc[t] = here /\ \A u \in Threads : pc'[u] = IF u = t THEN there ELSE pc[u]
    BY StepOf
  <1>2. CASE (here \in InGet <=> there \in InGet) /\ lockFree' = lockFree
    <2>1. \A u \in Threads : pc'[u] \in InGet <=> pc[u] \in InGet
      BY <1>1, <1>2, Zenon
    <2> QED
      BY <1>2, <2>1, Zenon DEF Locked
  <1>3. CASE here \notin InGet /\ there \in InGet /\ lockFree /\ lockFree' = FALSE
    <2>1. \A u \in Threads : pc[u] \notin InGet
      BY <1>3, Zenon DEF Locked
    <2>2. \A u \in Threads : pc'[u] \in InGet <=> u = t
      BY <1>1, <1>3, <2>1, Zenon
    <2> QED
      BY <1>3, <2>2, Zenon DEF Locked
  <1>4. CASE here \in InGet /\ there \notin InGet /\ lockFree' = TRUE
    <2>1. \A u \in Threads : pc'[u] \notin InGet
      BY <1>1, <1>4, Zenon DEF Locked
    <2> QED
      BY <1>4, <2>1, Zenon DEF Locked
  <1> QED
    BY <1>2, <1>3, <1>4

-----------------------------------------------------------------------------
(* One step for each action of a thread                                    *)

\* What a step of thread t may make of what t wants and holds.
Carries(t, there) ==
    /\ held' \in [Threads -> 0..Len(homes)]
    /\ \A u \in Threads \ {t} : held'[u] = held[u]
    /\ held'[t] \in {held[t], client, None}
    /\ there \in {"idle", "getCheck", "resetConfig", "shutdownCheck"} => held'[t] = None
    /\ there \in {"wire", "attach", "hooks"} => held'[t] # None
    /\ wants' \in [Threads -> Configs \cup {Unset}]
    /\ \A u \in Threads \ {t} : wants'[u] = wants[u]
    /\ there \in InGet => wants'[t] \in Configs

\* A step that builds nothing: what is left to show is that the globals are
\* still of the block.
LEMMA PlainStep ==
    ASSUME LifeInv, NEW t \in Threads, NEW here \in PCs, NEW there \in PCs \ {"store"},
           Step(t, here, there), here \in Builds => there \in Builds, UNCHANGED isolation, UNCHANGED <<exitHooks, homes>>,
           Carries(t, there), Locked', open' \subseteq open, conflicts' \in SUBSET Configs,
           client' \in {client, None}, config' \in Configs \cup {Unset}, initFailed' \in BOOLEAN,
           hooksInstalled' \in BOOLEAN, handlers' \in Seq(Nat), hooks' \in Seq(Nat), Frames'
    PROVE  LifeInv'
  <1>s. Shapes /\ TypeOK /\ Control /\ Locked /\ Len(homes) \in Nat
    <2>1. Shapes /\ TypeOK /\ Control /\ Locked
      BY DEF LifeInv, TypeOK, Locked
    <2> QED
      BY <2>1 DEF Shapes
  <1>p. /\ pc[t] = here /\ pc' \in [Threads -> PCs]
        /\ \A u \in Threads : pc'[u] = IF u = t THEN there ELSE pc[u]
        /\ Building => Building'
    BY <1>s, StepOf
  <1>1. Shapes'
    BY <1>p, <1>s DEF Shapes, isolation
  <1>2. TypeOK'
    <2>1. hooksInstalled' => hooks' # <<>>
      BY DEF Frames, OfBlock, Saved
    <2>2. client' \in 0..Len(homes')
      BY <1>s DEF TypeOK, None
    <2> QED
      BY <1>s, <2>1, <2>2 DEF TypeOK, Locked, Carries
  <1>3. Control'
    <2>1. Block' = Block /\ homes' = homes
      BY DEF Block, isolation
    <2>2. client # None => homes[client] = Block
      BY <1>s DEF LifeInv, Frames, OfBlock, Saved
    <2> HIDE DEF Block
    <2>3. ASSUME NEW u \in Threads
          PROVE  /\ pc'[u] \in InGet => wants'[u] \in Configs
                 /\ pc'[u] \in {"idle", "getCheck", "resetConfig", "shutdownCheck"} => held'[u] = None
                 /\ held'[u] # None => homes'[held'[u]] = Block'
                 /\ pc'[u] = "store" => held'[u] # None /\ client' = None
                 /\ pc'[u] \in {"wire", "attach", "hooks"} => held'[u] # None
      <3>1. CASE u = t
        <4>1. /\ pc'[u] = there /\ there # "store"
              /\ held'[u] \in {held[u], client, None}
              /\ held[u] # None => homes[held[u]] = Block
          BY <1>p, <1>s, <3>1 DEF Control, Carries
        <4> QED
          BY <2>1, <2>2, <3>1, <4>1 DEF Carries
      <3>2. CASE u # t
        <4>1. pc'[u] = pc[u] /\ held'[u] = held[u] /\ wants'[u] = wants[u]
          BY <1>p, <3>2 DEF Carries
        <4>2. /\ pc[u] \in InGet => wants[u] \in Configs
              /\ pc[u] \in {"idle", "getCheck", "resetConfig", "shutdownCheck"} => held[u] = None
              /\ held[u] # None => homes[held[u]] = Block
              /\ pc[u] = "store" => held[u] # None /\ client = None
              /\ pc[u] \in {"wire", "attach", "hooks"} => held[u] # None
          BY <1>s DEF Control
        <4> QED
          BY <2>1, <4>1, <4>2
      <3> QED
        BY <3>1, <3>2
    <2> QED
      BY <2>3 DEF Control
  <1>4. HooksOrdered'
    BY <1>p, HooksKept DEF LifeInv, isolation
  <1> QED
    BY <1>1, <1>2, <1>3, <1>4 DEF LifeInv

\* A step that leaves the globals as they are, too.
LEMMA QuietStep ==
    ASSUME LifeInv, NEW t \in Threads, NEW here \in PCs \ Builds, NEW there \in PCs \ {"store"},
           Step(t, here, there), UNCHANGED frame, UNCHANGED <<exitHooks, homes, failedIn>>,
           Carries(t, there), Locked', open' \subseteq open, conflicts' \in SUBSET Configs
    PROVE  LifeInv'
  <1>1. /\ UNCHANGED isolation /\ client' \in {client, None} /\ config' \in Configs \cup {Unset}
        /\ initFailed' \in BOOLEAN /\ hooksInstalled' \in BOOLEAN
        /\ handlers' \in Seq(Nat) /\ hooks' \in Seq(Nat)
    BY DEF frame, isolation, LifeInv, TypeOK, Shapes
  <1>2. Frames'
    BY FramesKept DEF LifeInv
  <1> QED
    BY <1>1, <1>2, PlainStep

LEMMA Holdings ==
    ASSUME LifeInv, NEW t \in Threads
    PROVE  /\ held \in [Threads -> 0..Len(homes)] /\ wants \in [Threads -> Configs \cup {Unset}]
           /\ None \in 0..Len(homes) /\ client \in 0..Len(homes) /\ conflicts \in SUBSET Configs
           /\ pc[t] \in InGet => wants[t] \in Configs
           /\ pc[t] \in {"idle", "getCheck", "resetConfig", "shutdownCheck"} => held[t] = None
           /\ pc[t] \in {"wire", "attach", "hooks"} => held[t] # None
           /\ Shapes /\ Locked
  <1>1. Len(homes) \in Nat
    BY DEF LifeInv, Shapes
  <1> QED
    BY <1>1 DEF LifeInv, TypeOK, None, Control, Locked

LEMMA GetQuietKeeps ==
    ASSUME LifeInv, UNCHANGED isolation, NEW t \in Threads,
           \/ \E cfg \in Configs : GetEnter(t, cfg)
           \/ GetDisabled(t) \/ GetExisting(t) \/ Compare(t) \/ GetReturn(t)
    PROVE  LifeInv'
  <1>1. ASSUME NEW cfg \in Configs, GetEnter(t, cfg) PROVE LifeInv'
    <2>1. /\ Step(t, "idle", "getCheck") /\ lockFree /\ lockFree' = FALSE
          /\ wants' = [wants EXCEPT ![t] = cfg] /\ held' = held
          /\ UNCHANGED <<open, conflicts>>
          /\ UNCHANGED frame /\ UNCHANGED <<exitHooks, homes, failedIn>>
      BY <1>1 DEF GetEnter, isolation, wiring, history, frame
    <2>2. Locked'
      BY <2>1, LockStep, Holdings DEF PCs, InGet
    <2>3. Carries(t, "getCheck")
      BY <2>1, Holdings DEF Carries, Step
    <2> QED
      BY <2>1, <2>2, <2>3, Holdings, QuietStep DEF PCs, InGet, Builds
  <1>2. ASSUME GetDisabled(t) PROVE LifeInv'
    <2>1. /\ Step(t, "getCheck", "idle") /\ lockFree' = TRUE
          /\ wants' = [wants EXCEPT ![t] = Unset] /\ held' = held
          /\ UNCHANGED <<open, conflicts>>
          /\ UNCHANGED frame /\ UNCHANGED <<exitHooks, homes, failedIn>>
      BY <1>2 DEF GetDisabled, Forgets, isolation, wiring, history, frame
    <2>2. Locked'
      BY <2>1, LockStep, Holdings DEF PCs, InGet
    <2>3. Carries(t, "idle")
      BY <2>1, Holdings DEF Carries, Step, InGet
    <2> QED
      BY <2>1, <2>2, <2>3, Holdings, QuietStep DEF PCs, InGet, Builds
  <1>3. ASSUME GetExisting(t) PROVE LifeInv'
    <2>1. /\ Step(t, "getCheck", "compare") /\ lockFree' = lockFree
          /\ wants' = wants /\ held' = held
          /\ UNCHANGED <<open, conflicts>>
          /\ UNCHANGED frame /\ UNCHANGED <<exitHooks, homes, failedIn>>
      BY <1>3 DEF GetExisting, singleton, isolation, wiring, history, frame
    <2>2. Locked'
      BY <2>1, LockStep, Holdings DEF PCs, InGet
    <2>3. Carries(t, "compare")
      BY <2>1, Holdings DEF Carries, Step, InGet
    <2> QED
      BY <2>1, <2>2, <2>3, Holdings, QuietStep DEF PCs, InGet, Builds
  <1>4. ASSUME Compare(t) PROVE LifeInv'
    <2>1. /\ Step(t, "compare", "getReturn") /\ lockFree' = lockFree
          /\ wants' = wants /\ held' = held
          /\ conflicts' = IF IsNewConflict(wants[t]) THEN conflicts \cup {wants[t]} ELSE conflicts
          /\ UNCHANGED open
          /\ UNCHANGED frame /\ UNCHANGED <<exitHooks, homes, failedIn>>
      BY <1>4 DEF Compare, isolation, wiring, history, frame
    <2>2. Locked'
      BY <2>1, LockStep, Holdings DEF PCs, InGet
    <2>3. Carries(t, "getReturn") /\ conflicts' \in SUBSET Configs
      BY <2>1, Holdings DEF Carries, Step, InGet
    <2> QED
      BY <2>1, <2>2, <2>3, QuietStep DEF PCs, InGet, Builds
  <1>5. ASSUME GetReturn(t) PROVE LifeInv'
    <2> DEFINE there == IF t \in Inits /\ client # None THEN "wire" ELSE "idle"
               n == IF t \in Inits THEN client ELSE None
    <2>1. /\ Step(t, "getReturn", there) /\ lockFree' = TRUE
          /\ wants' = [wants EXCEPT ![t] = Unset] /\ held' = [held EXCEPT ![t] = n]
          /\ UNCHANGED <<open, conflicts>>
          /\ UNCHANGED frame /\ UNCHANGED <<exitHooks, homes, failedIn>>
      BY <1>5 DEF GetReturn, Holds, Forgets, isolation, wiring, history, frame
    <2>2. there \in {"wire", "idle"} /\ (there = "wire" => n # None) /\ n \in {client, None}
          /\ (there = "idle" => n = None) /\ n \in 0..Len(homes)
      BY Holdings
    <2> HIDE DEF there, n
    <2>3. Locked'
      BY <2>1, <2>2, LockStep, Holdings DEF PCs, InGet
    <2>4. Carries(t, there)
      BY <2>1, <2>2, Holdings DEF Carries, Step, InGet
    <2> QED
      BY <2>1, <2>2, <2>3, <2>4, Holdings, QuietStep DEF PCs, InGet, Builds
  <1> QED
    BY <1>1, <1>2, <1>3, <1>4, <1>5

LEMMA BuildFailsKeeps ==
    ASSUME LifeInv, UNCHANGED isolation, NEW t \in Threads, BuildFails(t)
    PROVE  LifeInv'
  <1>1. /\ Step(t, "getCheck", "idle") /\ lockFree' = TRUE /\ initFailed' = TRUE
        /\ failedIn' = failedIn \cup {Block}
        /\ wants' = [wants EXCEPT ![t] = Unset] /\ held' = held
        /\ UNCHANGED <<open, conflicts, client, config, handlers, hooksInstalled, hooks>>
        /\ UNCHANGED <<exitHooks, homes>>
    BY DEF BuildFails, Forgets, wiring
  <1>2. Locked'
    BY <1>1, LockStep, Holdings DEF PCs, InGet
  <1>3. Carries(t, "idle")
    BY <1>1, Holdings DEF Carries, Step, InGet
  <1>4. Frames'
    <2>1. /\ Block' = Block /\ (\A k : BlockAt(k)' = BlockAt(k)) /\ blocks' = blocks
          /\ Block \in failedIn'
      BY <1>1 DEF isolation, Block, BlockAt
    <2>2. homes \in Seq(Nat)
      BY DEF LifeInv, Shapes
    <2> HIDE DEF Block, BlockAt
    <2>3. \A k \in 1..Len(blocks) : OfBlock(blocks[k], BlockAt(k - 1), homes, failedIn')
      BY <1>1, <2>2, OfBlockGrows DEF LifeInv, Frames
    <2>4. OfBlock(Saved', Block, homes, failedIn')
      BY <1>1, <2>1 DEF LifeInv, Frames, OfBlock, Saved
    <2> QED
      BY <1>1, <2>1, <2>3, <2>4 DEF LifeInv, Frames
  <1>5. /\ client' \in {client, None} /\ config' \in Configs \cup {Unset} /\ conflicts' \in SUBSET Configs
        /\ hooksInstalled' \in BOOLEAN /\ handlers' \in Seq(Nat) /\ hooks' \in Seq(Nat)
    BY <1>1 DEF LifeInv, TypeOK, Shapes
  <1> QED
    BY <1>1, <1>2, <1>3, <1>4, <1>5, PlainStep DEF PCs, InGet, Builds

\* Frames for a step that changes the globals and neither the clients nor the
\* failures.
LEMMA FramesOfGlobals ==
    ASSUME Frames, UNCHANGED isolation, UNCHANGED <<homes, failedIn>>,
           OfBlock(Saved', Block, homes, failedIn)
    PROVE  Frames'
  <1>1. Block' = Block /\ (\A k : BlockAt(k)' = BlockAt(k)) /\ blocks' = blocks
    BY DEF isolation, Block, BlockAt
  <1> HIDE DEF Block, BlockAt
  <1> QED
    BY <1>1 DEF Frames

LEMMA WireKeeps ==
    ASSUME LifeInv, UNCHANGED isolation, NEW t \in Threads, Wire(t)
    PROVE  LifeInv'
  <1>1. ASSUME AttachCheck(t) PROVE LifeInv'
    <2> DEFINE there == IF NeedsHandler THEN "attach" ELSE "hooks"
    <2>1. /\ Step(t, "wire", there) /\ lockFree' = lockFree
          /\ wants' = wants /\ held' = held
          /\ UNCHANGED <<open, conflicts>>
          /\ UNCHANGED frame /\ UNCHANGED <<exitHooks, homes, failedIn>>
      BY <1>1 DEF AttachCheck, singleton, isolation, wiring, history, frame
    <2>2. there \in {"attach", "hooks"}
      OBVIOUS
    <2> HIDE DEF there
    <2>3. Locked'
      BY <2>1, <2>2, LockStep, Holdings DEF PCs, InGet
    <2>4. Carries(t, there)
      BY <2>1, <2>2, Holdings DEF Carries, Step, InGet
    <2> QED
      BY <2>1, <2>2, <2>3, <2>4, Holdings, QuietStep DEF PCs, InGet, Builds
  <1>2. ASSUME Attach(t) PROVE LifeInv'
    <2>1. /\ Step(t, "attach", "hooks") /\ lockFree' = lockFree
          /\ wants' = wants /\ held' = held
          /\ handlers' = Append(handlers, held[t])
          /\ UNCHANGED <<client, config, initFailed, hooksInstalled, hooks>>
          /\ UNCHANGED <<open, conflicts>> /\ UNCHANGED <<exitHooks, homes, failedIn>>
      BY <1>2 DEF Attach, singleton, history
    <2>2. Locked'
      BY <2>1, LockStep, Holdings DEF PCs, InGet
    <2>3. Carries(t, "hooks")
      BY <2>1, Holdings DEF Carries, Step, InGet
    <2>4. held[t] \in 1..Len(homes) /\ homes[held[t]] = Block
      <3>1. held[t] \in 0..Len(homes) /\ held[t] # None /\ Len(homes) \in Nat
        BY <2>1, Holdings DEF Step, Shapes
      <3> QED
        BY <3>1 DEF LifeInv, Control, None
    <2>5. handlers \in Seq(Nat) /\ handlers' \in Seq(Nat)
      BY <2>1, <2>4 DEF LifeInv, Shapes
    <2>6. \A i \in 1..Len(handlers') : handlers'[i] \in 1..Len(homes) /\ homes[handlers'[i]] = Block
      <3>1. \A i \in 1..Len(handlers) : handlers[i] \in 1..Len(homes) /\ homes[handlers[i]] = Block
        BY DEF LifeInv, Frames, OfBlock, Saved
      <3>2. \A i \in 1..Len(handlers') : handlers'[i] = held[t] \/ (i \in 1..Len(handlers) /\ handlers'[i] = handlers[i])
        BY <2>1, <2>5
      <3> QED
        BY <2>4, <3>1, <3>2
    <2>7. Frames'
      <3>1. OfBlock(Saved, Block, homes, failedIn)
        BY DEF LifeInv, Frames
      <3>2. OfBlock(Saved', Block, homes, failedIn)
        BY <2>1, <2>6, <3>1 DEF OfBlock, Saved
      <3> QED
        BY <2>1, <3>2, FramesOfGlobals DEF LifeInv
    <2> QED
      BY <2>1, <2>2, <2>3, <2>5, <2>7, Holdings, PlainStep
      DEF PCs, InGet, Builds, LifeInv, TypeOK, Shapes
  <1>3. ASSUME InstallHooks(t) PROVE LifeInv'
    <2>1. /\ Step(t, "hooks", "idle") /\ lockFree' = lockFree
          /\ wants' = wants /\ held' = [held EXCEPT ![t] = None]
          /\ hooks' = IF hooksInstalled THEN hooks ELSE <<held[t]>> \o hooks
          /\ hooksInstalled' = TRUE
          /\ UNCHANGED <<client, config, initFailed, handlers>>
          /\ UNCHANGED <<open, conflicts>> /\ UNCHANGED <<exitHooks, homes, failedIn>>
      BY <1>3 DEF InstallHooks, HooksAfter, Holds, singleton, history
    <2>2. Locked'
      BY <2>1, LockStep, Holdings DEF PCs, InGet
    <2>3. Carries(t, "idle")
      BY <2>1, Holdings DEF Carries, Step, InGet
    <2>4. held[t] \in 1..Len(homes) /\ homes[held[t]] = Block
      <3>1. held[t] \in 0..Len(homes) /\ held[t] # None /\ Len(homes) \in Nat
        BY <2>1, Holdings DEF Step, Shapes
      <3> QED
        BY <3>1 DEF LifeInv, Control, None
    <2>5. hooks \in Seq(Nat) /\ hooks' \in Seq(Nat)
      BY <2>1, <2>4 DEF LifeInv, Shapes
    <2>6. hooks' # <<>> /\ Head(hooks') \in 1..Len(homes) /\ homes[Head(hooks')] = Block
      <3>1. CASE hooksInstalled
        BY <2>1, <3>1 DEF LifeInv, Frames, OfBlock, Saved
      <3>2. CASE ~ hooksInstalled
        <4>1. hooks' = <<held[t]>> \o hooks
          BY <2>1, <3>2
        <4>2. hooks' # <<>> /\ Head(hooks') = held[t]
          BY <2>4, <2>5, <4>1
        <4> QED
          BY <2>4, <4>2
      <3> QED
        BY <3>1, <3>2
    <2>7. Frames'
      <3>1. OfBlock(Saved, Block, homes, failedIn)
        BY DEF LifeInv, Frames
      <3>2. OfBlock(Saved', Block, homes, failedIn)
        BY <2>1, <2>6, <3>1 DEF OfBlock, Saved
      <3> QED
        BY <2>1, <3>2, FramesOfGlobals DEF LifeInv
    <2> QED
      BY <2>1, <2>2, <2>3, <2>5, <2>7, Holdings, PlainStep
      DEF PCs, InGet, Builds, LifeInv, TypeOK, Shapes
  <1> QED
    BY <1>1, <1>2, <1>3 DEF Wire

LEMMA CloseKeeps ==
    ASSUME LifeInv, UNCHANGED isolation, NEW t \in Threads, Close(t)
    PROVE  LifeInv'
  <1>o. OfBlock(Saved, Block, homes, failedIn)
    BY DEF LifeInv, Frames
  <1>s. /\ handlers \in Seq(Nat) /\ hooks \in Seq(Nat) /\ hooksInstalled \in BOOLEAN
        /\ client \in 0..Len(homes) /\ config \in Configs \cup {Unset} /\ initFailed \in BOOLEAN
        /\ Len(homes) \in Nat
    BY DEF LifeInv, Shapes, TypeOK
  <1>1. ASSUME ResetFailed(t) PROVE LifeInv'
    <2>1. /\ Step(t, "idle", "resetConfig") /\ lockFree' = lockFree /\ initFailed' = FALSE
          /\ wants' = wants /\ held' = held
          /\ UNCHANGED <<client, config, handlers, hooksInstalled, hooks>>
          /\ UNCHANGED <<open, conflicts>> /\ UNCHANGED <<exitHooks, homes, failedIn>>
      BY <1>1 DEF ResetFailed, wiring
    <2>2. Locked'
      BY <2>1, LockStep, Holdings DEF PCs, InGet
    <2>3. Carries(t, "resetConfig")
      BY <2>1, Holdings DEF Carries, Step, InGet
    <2>4. Frames'
      <3>1. OfBlock(Saved', Block, homes, failedIn)
        BY <2>1, <1>o DEF OfBlock, Saved
      <3> QED
        BY <2>1, <3>1, FramesOfGlobals DEF LifeInv
    <2> QED
      BY <2>1, <2>2, <2>3, <2>4, <1>s, Holdings, PlainStep DEF PCs, InGet, Builds
  <1>2. ASSUME ResetConfig(t) PROVE LifeInv'
    <2>1. /\ Step(t, "resetConfig", "shutdownCheck") /\ lockFree' = lockFree /\ config' = Unset
          /\ wants' = wants /\ held' = held
          /\ UNCHANGED <<client, initFailed, handlers, hooksInstalled, hooks>>
          /\ UNCHANGED <<open, conflicts>> /\ UNCHANGED <<exitHooks, homes, failedIn>>
      BY <1>2 DEF ResetConfig, wiring, history
    <2>2. Locked'
      BY <2>1, LockStep, Holdings DEF PCs, InGet
    <2>3. Carries(t, "shutdownCheck")
      BY <2>1, Holdings DEF Carries, Step, InGet
    <2>4. Frames'
      <3>1. OfBlock(Saved', Block, homes, failedIn)
        BY <2>1, <1>o DEF OfBlock, Saved
      <3> QED
        BY <2>1, <3>1, FramesOfGlobals DEF LifeInv
    <2> QED
      BY <2>1, <2>2, <2>3, <2>4, <1>s, Holdings, PlainStep DEF PCs, InGet, Builds
  <1>6. ASSUME ShutdownCheck(t) PROVE LifeInv'
    <2> DEFINE there == IF client = None THEN "idle" ELSE "shutdownCall"
    <2>1. /\ Step(t, "shutdownCheck", there) /\ lockFree' = lockFree
          /\ wants' = wants /\ held' = held
          /\ UNCHANGED <<open, conflicts>>
          /\ UNCHANGED frame /\ UNCHANGED <<exitHooks, homes, failedIn>>
      BY <1>6 DEF ShutdownCheck, singleton, isolation, wiring, frame
    <2>2. there \in {"idle", "shutdownCall"} /\ (there = "idle" => client = None)
      OBVIOUS
    <2> HIDE DEF there
    <2>3. Locked'
      BY <2>1, <2>2, LockStep, Holdings DEF PCs, InGet
    <2>4. Carries(t, there)
      BY <2>1, <2>2, Holdings DEF Carries, Step, InGet
    <2> QED
      BY <2>1, <2>2, <2>3, <2>4, Holdings, QuietStep DEF PCs, InGet, Builds
  <1>3. ASSUME ShutdownCall(t) PROVE LifeInv'
    <2> DEFINE there == IF client = None THEN "idle" ELSE "shuttingDown"
    <2>1. /\ Step(t, "shutdownCall", there) /\ lockFree' = lockFree
          /\ wants' = wants /\ held' = [held EXCEPT ![t] = client]
          /\ UNCHANGED <<open, conflicts>>
          /\ UNCHANGED frame /\ UNCHANGED <<exitHooks, homes, failedIn>>
      BY <1>3 DEF ShutdownCall, Holds, singleton, isolation, wiring, history, frame
    <2>2. there \in {"idle", "shuttingDown"} /\ (there = "idle" => client = None)
      OBVIOUS
    <2> HIDE DEF there
    <2>3. Locked'
      BY <2>1, <2>2, LockStep, Holdings DEF PCs, InGet
    <2>4. Carries(t, there)
      BY <2>1, <2>2, Holdings DEF Carries, Step, InGet
    <2> QED
      BY <2>1, <2>2, <2>3, <2>4, Holdings, QuietStep DEF PCs, InGet, Builds
  <1>4. ASSUME ShutdownDone(t) PROVE LifeInv'
    <2>1. /\ Step(t, "shuttingDown", "clear") /\ lockFree' = lockFree
          /\ wants' = wants /\ held' = held
          /\ open' = open \ {held[t]} /\ conflicts' = conflicts
          /\ UNCHANGED frame /\ UNCHANGED <<exitHooks, homes, failedIn>>
      BY <1>4 DEF ShutdownDone, singleton, isolation, wiring, frame
    <2>2. Locked'
      BY <2>1, LockStep, Holdings DEF PCs, InGet
    <2>3. Carries(t, "clear")
      BY <2>1, Holdings DEF Carries, Step, InGet
    <2> QED
      BY <2>1, <2>2, <2>3, Holdings, QuietStep DEF PCs, InGet, Builds
  <1>5. ASSUME Clear(t) PROVE LifeInv'
    <2>1. /\ Step(t, "clear", "idle") /\ lockFree' = lockFree /\ client' = None
          /\ wants' = wants /\ held' = [held EXCEPT ![t] = None]
          /\ UNCHANGED <<config, initFailed, handlers, hooksInstalled, hooks>>
          /\ UNCHANGED <<open, conflicts>> /\ UNCHANGED <<exitHooks, homes, failedIn>>
      BY <1>5 DEF Clear, Holds, wiring, history
    <2>2. Locked'
      BY <2>1, LockStep, Holdings DEF PCs, InGet
    <2>3. Carries(t, "idle")
      BY <2>1, Holdings DEF Carries, Step, InGet
    <2>4. Frames'
      <3>1. OfBlock(Saved', Block, homes, failedIn)
        BY <2>1, <1>o, <1>s DEF OfBlock, Saved, None
      <3> QED
        BY <2>1, <3>1, FramesOfGlobals DEF LifeInv
    <2> QED
      BY <2>1, <2>2, <2>3, <2>4, <1>s, Holdings, PlainStep DEF PCs, InGet, Builds
  <1> QED
    BY <1>1, <1>2, <1>3, <1>4, <1>5, <1>6 DEF Close

LEMMA StoreConfigKeeps ==
    ASSUME LifeInv, UNCHANGED isolation, NEW t \in Threads, StoreConfig(t)
    PROVE  LifeInv'
  <1>1. /\ Step(t, "storeConfig", "register") /\ lockFree' = lockFree /\ config' = wants[t]
        /\ wants' = wants /\ held' = held
        /\ UNCHANGED <<client, initFailed, handlers, hooksInstalled, hooks>>
        /\ UNCHANGED <<open, conflicts>> /\ UNCHANGED <<exitHooks, homes, failedIn>>
    BY DEF StoreConfig, wiring, history
  <1>2. Locked'
    BY <1>1, LockStep, Holdings DEF PCs, InGet
  <1>3. Carries(t, "register")
    BY <1>1, Holdings DEF Carries, Step, InGet
  <1>4. Frames'
    <2>1. OfBlock(Saved', Block, homes, failedIn)
      BY <1>1 DEF OfBlock, Saved, LifeInv, Frames
    <2> QED
      BY <1>1, <2>1, FramesOfGlobals DEF LifeInv
  <1>5. /\ handlers \in Seq(Nat) /\ hooks \in Seq(Nat) /\ hooksInstalled \in BOOLEAN
        /\ config' \in Configs \cup {Unset} /\ initFailed \in BOOLEAN
    BY <1>1 DEF LifeInv, Shapes, TypeOK
  <1> QED
    BY <1>1, <1>2, <1>3, <1>4, <1>5, Holdings, PlainStep DEF PCs, InGet, Builds

\* The one thread in the getter has built a client and no other is cached.
LEMMA StoreClientKeeps ==
    ASSUME LifeInv, UNCHANGED isolation, NEW t \in Threads, StoreClient(t)
    PROVE  LifeInv'
  <1>1. /\ Step(t, "store", "storeConfig") /\ lockFree' = lockFree /\ client' = held[t]
        /\ wants' = wants /\ held' = held
        /\ UNCHANGED <<config, initFailed, handlers, hooksInstalled, hooks>>
        /\ UNCHANGED <<open, conflicts>> /\ UNCHANGED <<exitHooks, homes, failedIn>>
    BY DEF StoreClient, wiring, history
  <1>s. Shapes /\ TypeOK /\ Control /\ Locked /\ Frames /\ HooksOrdered
    BY DEF LifeInv, TypeOK, Locked
  <1>p. /\ pc[t] = "store" /\ pc' \in [Threads -> PCs]
        /\ \A u \in Threads : pc'[u] = IF u = t THEN "storeConfig" ELSE pc[u]
    BY <1>1, <1>s, StepOf DEF PCs, InGet
  <1>l. Locked'
    BY <1>1, <1>s, LockStep DEF PCs, InGet
  <1>h. held[t] \in 0..Len(homes) /\ held[t] # None /\ homes[held[t]] = Block
    BY <1>s, <1>p DEF Control, TypeOK
  <1>2. Shapes'
    BY <1>1, <1>p, <1>s DEF Shapes, isolation
  <1>3. TypeOK'
    BY <1>1, <1>l, <1>h, <1>s DEF TypeOK, Locked
  <1>4. Control'
    <2>1. \A u \in Threads : pc'[u] # "store"
      BY <1>p, <1>s DEF Locked, InGet
    <2>2. Block' = Block
      BY DEF Block, isolation
    <2> HIDE DEF Block
    <2> QED
      BY <1>1, <1>p, <1>s, <2>1, <2>2 DEF Control, InGet
  <1>5. Frames'
    <2>1. OfBlock(Saved', Block, homes, failedIn)
      BY <1>1, <1>h, <1>s DEF OfBlock, Saved, Frames
    <2> QED
      BY <1>1, <1>s, <2>1, FramesOfGlobals
  <1>6. HooksOrdered'
    <2>1. Building'
      BY <1>p DEF Building
    <2>2. exitHooks' = exitHooks /\ blocks' = blocks
      BY <1>1 DEF isolation
    <2> HIDE DEF Building
    <2> QED
      BY <1>s, <2>1, <2>2 DEF HooksOrdered, Settled
  <1> QED
    BY <1>2, <1>3, <1>4, <1>5, <1>6 DEF LifeInv

\* The join hook of a new client leaves the others below the wxyc hook.
LEMMA JoinOnTop ==
    ASSUME NEW s \in Seq(Hook), NEW m \in Nat
    PROVE  /\ Append(s, Join(m)) \in Seq(Hook)
           /\ (\A i, j \in 1..Len(s) : s[i] = Wxyc /\ s[j] = Wxyc => i = j) =>
                \A i, j \in 1..Len(Append(s, Join(m))) :
                   Append(s, Join(m))[i] = Wxyc /\ Append(s, Join(m))[j] = Wxyc => i = j
           /\ \A n \in Nat \ {m} : Settled(s, n) => Settled(Append(s, Join(m)), n)
  <1> DEFINE r == Append(s, Join(m))
  <1>1. Join(m) \in Hook /\ Join(m) # Wxyc /\ \A n \in Nat \ {m} : Join(n) # Join(m)
    BY DEF Join, Wxyc, Hook
  <1>2. /\ r \in Seq(Hook) /\ Len(r) = Len(s) + 1 /\ Len(s) \in Nat
        /\ r[Len(s) + 1] = Join(m) /\ \A i \in 1..Len(s) : r[i] = s[i]
    BY <1>1
  <1> HIDE DEF r
  <1>3. \A i \in 1..Len(r) : i = Len(s) + 1 \/ i \in 1..Len(s)
    BY <1>2
  <1>4. \A i \in 1..Len(s) : i \in 1..Len(r)
    BY <1>2
  <1>5. (\A i, j \in 1..Len(s) : s[i] = Wxyc /\ s[j] = Wxyc => i = j) =>
          \A i, j \in 1..Len(r) : r[i] = Wxyc /\ r[j] = Wxyc => i = j
    BY <1>1, <1>2, <1>3
  <1>6. ASSUME NEW n \in Nat \ {m}, Settled(s, n) PROVE Settled(r, n)
    <2>1. PICK w \in 1..Len(s) : s[w] = Wxyc /\ \A i \in 1..Len(s) : s[i] = Join(n) => i < w
      BY <1>6 DEF Settled
    <2>2. w \in 1..Len(r) /\ r[w] = Wxyc
      BY <1>2, <1>4, <2>1
    <2>3. \A i \in 1..Len(r) : r[i] = Join(n) => i < w
      BY <1>1, <1>2, <1>3, <2>1
    <2> QED
      BY <2>2, <2>3 DEF Settled
  <1> QED
    BY <1>2, <1>5, <1>6 DEF r

LEMMA BuildKeeps ==
    ASSUME LifeInv, UNCHANGED isolation, NEW t \in Threads, Build(t)
    PROVE  LifeInv'
  <1>1. /\ Step(t, "getCheck", "store") /\ lockFree' = lockFree /\ client = None
        /\ homes' = Append(homes, Block) /\ held' = [held EXCEPT ![t] = Len(homes')]
        /\ exitHooks' = exitHooks \/ exitHooks' = Append(exitHooks, Join(Len(homes')))
        /\ open' = open \/ open' = open \cup {Len(homes')}
        /\ wants' = wants /\ UNCHANGED frame /\ UNCHANGED <<conflicts, failedIn>>
    BY DEF Build, Holds, singleton, isolation, frame
  <1>s. Shapes /\ TypeOK /\ Control /\ Locked /\ Frames /\ HooksOrdered
    BY DEF LifeInv, TypeOK, Locked
  <1>p. /\ pc[t] = "getCheck" /\ pc' \in [Threads -> PCs]
        /\ \A u \in Threads : pc'[u] = IF u = t THEN "store" ELSE pc[u]
        /\ Building'
    BY <1>1, <1>s, StepOf DEF PCs, InGet, Building
  <1>l. Locked'
    BY <1>1, <1>s, LockStep DEF PCs, InGet
  <1>n. /\ Block \in Nat /\ homes \in Seq(Nat) /\ Len(homes) \in Nat
        /\ homes' \in Seq(Nat) /\ Len(homes') = Len(homes) + 1
        /\ homes'[Len(homes) + 1] = Block
        /\ \A n \in 1..Len(homes) : homes'[n] = homes[n]
    <2>1. Block \in Nat /\ homes \in Seq(Nat)
      BY <1>s, BlockIsNat DEF Shapes
    <2> HIDE DEF Block
    <2> QED
      BY <1>1, <2>1
  <1>h. \A u \in Threads : held'[u] = IF u = t THEN Len(homes) + 1 ELSE held[u]
    BY <1>1, <1>n, <1>s DEF TypeOK
  <1>j. /\ exitHooks \in Seq(Hook) /\ exitHooks' \in Seq(Hook)
        /\ \A i, j \in 1..Len(exitHooks') : exitHooks'[i] = Wxyc /\ exitHooks'[j] = Wxyc => i = j
        /\ \A n \in 1..Len(homes) : Settled(exitHooks, n) => Settled(exitHooks', n)
    <2>1. /\ exitHooks \in Seq(Hook) /\ Len(homes') \in Nat
          /\ \A n \in 1..Len(homes) : n \in Nat \ {Len(homes')}
      BY <1>n, <1>s DEF Shapes
    <2>2. \A i, j \in 1..Len(exitHooks) : exitHooks[i] = Wxyc /\ exitHooks[j] = Wxyc => i = j
      BY <1>s DEF HooksOrdered
    <2>3. CASE exitHooks' = exitHooks
      BY <2>1, <2>2, <2>3
    <2>4. CASE exitHooks' = Append(exitHooks, Join(Len(homes')))
      BY <2>1, <2>2, <2>4, JoinOnTop
    <2> QED
      BY <1>1, <2>3, <2>4
  <1>2. Shapes'
    BY <1>1, <1>p, <1>n, <1>j, <1>s DEF Shapes, frame
  <1>3. TypeOK'
    <2>1. 0..Len(homes) \subseteq 0..Len(homes') /\ 1..Len(homes) \subseteq 1..Len(homes')
          /\ Len(homes') \in 1..Len(homes')
      BY <1>n
    <2>2. held' \in [Threads -> 0..Len(homes')]
      BY <1>1, <1>s, <2>1 DEF TypeOK
    <2> QED
      BY <1>1, <1>l, <1>s, <2>1, <2>2 DEF TypeOK, Locked, frame
  <1>4. Control'
    <2>1. \A u \in Threads : u # t => pc[u] \notin InGet
      BY <1>p, <1>s DEF Locked, InGet
    <2>2. Block' = Block /\ client' = client
      BY <1>1 DEF Block, frame
    <2>3. wants[t] \in Configs
      BY <1>p, <1>s DEF Control, InGet
    <2>4. \A u \in Threads : held[u] # None => held[u] \in 1..Len(homes)
      BY <1>s, <1>n DEF TypeOK, None
    <2>5. Len(homes) + 1 # None
      BY <1>n DEF None
    <2> HIDE DEF Block
    <2>6. ASSUME NEW u \in Threads, u # t
          PROVE  /\ pc'[u] \in InGet => wants'[u] \in Configs
                 /\ pc'[u] \in {"idle", "getCheck", "resetConfig", "shutdownCheck"} => held'[u] = None
                 /\ held'[u] # None => homes'[held'[u]] = Block'
                 /\ pc'[u] # "store"
                 /\ pc'[u] \in {"wire", "attach", "hooks"} => held'[u] # None
      BY <1>1, <1>p, <1>n, <1>h, <1>s, <2>1, <2>2, <2>4, <2>6 DEF Control, InGet
    <2>7. /\ wants'[t] \in Configs /\ held'[t] # None /\ homes'[held'[t]] = Block'
          /\ client' = None /\ pc'[t] = "store"
      BY <1>1, <1>p, <1>n, <1>h, <2>2, <2>3, <2>5
    <2> QED
      BY <2>6, <2>7 DEF Control
  <1>5. Frames'
    BY <1>1, <1>n, <1>s, FramesGrow
  <1>6. HooksOrdered'
    <2>1. \A k \in 1..Len(blocks) : blocks[k].client # None => blocks[k].client \in 1..Len(homes)
      BY <1>s, <1>n DEF Frames, OfBlock, None
    <2>2. blocks' = blocks
      BY <1>1 DEF frame
    <2>3. \A k \in 1..Len(blocks) : blocks[k].client # None => Settled(exitHooks', blocks[k].client)
      BY <1>j, <1>s, <2>1 DEF HooksOrdered
    <2> HIDE DEF Building
    <2> QED
      BY <1>p, <1>j, <2>2, <2>3 DEF HooksOrdered
  <1> QED
    BY <1>2, <1>3, <1>4, <1>5, <1>6 DEF LifeInv

\* Registered anew, the wxyc hook is above every join hook there is.
LEMMA WxycOnTop ==
    ASSUME Shapes, HooksOrdered
    PROVE  /\ Reregistered \in Seq(Hook)
           /\ \A i, j \in 1..Len(Reregistered) :
                Reregistered[i] = Wxyc /\ Reregistered[j] = Wxyc => i = j
           /\ \A n : Settled(Reregistered, n)
  <1> DEFINE registered == {i \in 1..Len(exitHooks) : exitHooks[i] = Wxyc}
             rest == IF registered = {} THEN exitHooks
                     ELSE RemoveAt(exitHooks, CHOOSE i \in registered : TRUE)
  <1>1. exitHooks \in Seq(Hook) /\ Wxyc \in Hook /\ \A n : Join(n) # Wxyc
    BY DEF Shapes, Hook, Wxyc, Join, None
  <1>2. rest \in Seq(Hook) /\ \A i \in 1..Len(rest) : rest[i] # Wxyc
    <2>1. CASE registered = {}
      BY <1>1, <2>1
    <2>2. CASE registered # {}
      <3> DEFINE w == CHOOSE i \in registered : TRUE
                 below == SubSeq(exitHooks, 1, w - 1)
                 above == SubSeq(exitHooks, w + 1, Len(exitHooks))
      <3>1. w \in 1..Len(exitHooks) /\ exitHooks[w] = Wxyc
        <4>1. w \in registered
          BY <2>2
        <4> QED
          BY <4>1
      <3>2. rest = below \o above
        BY <2>2 DEF RemoveAt
      <3> HIDE DEF w
      <3>3. \A i \in 1..Len(exitHooks) : exitHooks[i] = Wxyc => i = w
        BY <3>1 DEF HooksOrdered
      <3>4. /\ below \in Seq(Hook) /\ Len(below) = w - 1
            /\ \A i \in 1..(w - 1) : below[i] = exitHooks[i]
        BY <1>1, <3>1
      <3>5. /\ above \in Seq(Hook) /\ Len(above) = Len(exitHooks) - w
            /\ \A i \in 1..(Len(exitHooks) - w) : above[i] = exitHooks[i + w]
        BY <1>1, <3>1
      <3> HIDE DEF below, above
      <3>6. \A i \in 1..Len(below) : below[i] # Wxyc
        BY <1>1, <3>1, <3>3, <3>4
      <3>7. \A i \in 1..Len(above) : above[i] # Wxyc
        BY <1>1, <3>1, <3>3, <3>5
      <3>8. /\ below \o above \in Seq(Hook)
            /\ \A i \in 1..Len(below \o above) : (below \o above)[i] # Wxyc
        BY <3>4, <3>5, <3>6, <3>7
      <3> QED
        BY <3>2, <3>8
    <2> QED
      BY <2>1, <2>2
  <1>3. Reregistered = Append(rest, Wxyc)
    BY DEF Reregistered
  <1> HIDE DEF rest, registered
  <1>4. /\ Reregistered \in Seq(Hook) /\ Len(Reregistered) = Len(rest) + 1 /\ Len(rest) \in Nat
        /\ Reregistered[Len(rest) + 1] = Wxyc
        /\ \A i \in 1..Len(rest) : Reregistered[i] = rest[i]
    BY <1>1, <1>2, <1>3
  <1> HIDE DEF Reregistered
  <1>5. \A i \in 1..Len(Reregistered) : i = Len(rest) + 1 \/ i \in 1..Len(rest)
    BY <1>4
  <1>6. \A i \in 1..Len(Reregistered) : Reregistered[i] = Wxyc => i = Len(rest) + 1
    BY <1>2, <1>4, <1>5
  <1>7. ASSUME NEW n PROVE Settled(Reregistered, n)
    <2>1. Len(rest) + 1 \in 1..Len(Reregistered)
      BY <1>4
    <2>2. \A i \in 1..Len(Reregistered) : Reregistered[i] = Join(n) => i < Len(rest) + 1
      BY <1>1, <1>4, <1>5
    <2> QED
      BY <1>4, <2>1, <2>2 DEF Settled
  <1> QED
    BY <1>4, <1>6, <1>7

LEMMA RegisterKeeps ==
    ASSUME LifeInv, UNCHANGED isolation, NEW t \in Threads, Register(t)
    PROVE  LifeInv'
  <1>1. /\ Step(t, "register", "getReturn") /\ lockFree' = lockFree
        /\ exitHooks' = Reregistered
        /\ wants' = wants /\ held' = held
        /\ UNCHANGED frame /\ UNCHANGED <<open, conflicts>> /\ UNCHANGED <<homes, failedIn>>
    BY DEF Register, singleton, isolation, history, frame
  <1>s. Shapes /\ TypeOK /\ Control /\ Locked /\ Frames /\ HooksOrdered
    BY DEF LifeInv, TypeOK, Locked
  <1>p. /\ pc[t] = "register" /\ pc' \in [Threads -> PCs]
        /\ \A u \in Threads : pc'[u] = IF u = t THEN "getReturn" ELSE pc[u]
    BY <1>1, <1>s, StepOf DEF PCs, InGet
  <1>l. Locked'
    BY <1>1, <1>s, LockStep DEF PCs, InGet
  <1>w. /\ exitHooks' \in Seq(Hook)
        /\ \A i, j \in 1..Len(exitHooks') : exitHooks'[i] = Wxyc /\ exitHooks'[j] = Wxyc => i = j
        /\ \A n : Settled(exitHooks', n)
    BY <1>1, <1>s, WxycOnTop
  <1>2. Shapes'
    BY <1>1, <1>p, <1>w, <1>s DEF Shapes, frame
  <1>3. TypeOK'
    BY <1>1, <1>l, <1>s DEF TypeOK, Locked, frame
  <1>4. Control'
    <2>1. Block' = Block
      BY <1>1 DEF Block, frame
    <2> HIDE DEF Block
    <2> QED
      BY <1>1, <1>p, <1>s, <2>1 DEF Control, InGet, frame
  <1>5. Frames'
    BY <1>1, <1>s, FramesKept
  <1>6. HooksOrdered'
    BY <1>w DEF HooksOrdered
  <1> QED
    BY <1>2, <1>3, <1>4, <1>5, <1>6 DEF LifeInv

-----------------------------------------------------------------------------
(* The edges of a block, where every thread is idle                        *)

LEMMA QuietHoldings ==
    ASSUME LifeInv, Quiet
    PROVE  /\ Shapes /\ TypeOK /\ Frames /\ HooksOrdered /\ Locked
           /\ \A t \in Threads : pc[t] = "idle" /\ held[t] = None
           /\ ~ Building
  BY DEF LifeInv, TypeOK, Locked, Quiet, Control, Building

LEMMA SavedIsSnapshot == ASSUME Shapes, TypeOK PROVE Saved \in Snapshots
  <1>1. client \in Nat /\ entered + 1 \in Nat
    <2>1. Len(homes) \in Nat
      BY DEF Shapes
    <2> QED
      BY <2>1 DEF Shapes, TypeOK
  <1> QED
    BY <1>1 DEF Shapes, TypeOK, Saved, Snapshots

LEMMA EnterKeeps == ASSUME LifeInv, EnterBlock PROVE LifeInv'
  <1>1. /\ Quiet /\ entered' = entered + 1 /\ blocks' = Append(blocks, Saved)
        /\ apiKey' = TRUE /\ client' = None /\ config' = Unset /\ initFailed' = FALSE
        /\ hooksInstalled' = FALSE /\ handlers' = <<>>
        /\ UNCHANGED <<conflicts, lockFree, exitHooks, hooks, pc, wants, held>>
        /\ UNCHANGED <<homes, open, failedIn>>
    BY DEF EnterBlock, HandlersInBlock, history
  <1>s. /\ Shapes /\ TypeOK /\ Frames /\ HooksOrdered /\ Locked
        /\ \A t \in Threads : pc[t] = "idle" /\ held[t] = None
        /\ ~ Building
    BY <1>1, QuietHoldings
  <1>b. /\ blocks \in Seq(Snapshots) /\ Saved \in Snapshots /\ Len(blocks) \in Nat
        /\ blocks' \in Seq(Snapshots) /\ Len(blocks') = Len(blocks) + 1
        /\ blocks'[Len(blocks) + 1] = Saved
        /\ \A k \in 1..Len(blocks) : blocks'[k] = blocks[k]
    <2>1. blocks \in Seq(Snapshots) /\ Saved \in Snapshots
      BY <1>s, SavedIsSnapshot DEF Shapes
    <2> HIDE DEF Saved, Snapshots
    <2> QED
      BY <1>1, <2>1
  <1>2. Shapes'
    <2>1. entered' \in Nat /\ \A S : <<>> \in Seq(S)
      BY <1>1, <1>s DEF Shapes
    <2> QED
      BY <1>1, <1>s, <1>b, <2>1 DEF Shapes
  <1>3. TypeOK'
    <2>1. Locked'
      BY <1>1, <1>s, Zenon DEF Locked
    <2>2. None \in 0..Len(homes)
      BY <1>s DEF Shapes, None
    <2> QED
      BY <1>1, <1>s, <2>1, <2>2 DEF TypeOK, Locked
  <1>4. Control'
    BY <1>1, <1>s DEF Control, InGet
  <1>5. Frames'
    <2>1. OfBlock(Saved', Block', homes', failedIn')
      <3>1. Saved'.client = None /\ Saved'.handlers = <<>>
            /\ Saved'.hooksInstalled = FALSE /\ Saved'.initFailed = FALSE
        BY <1>1 DEF Saved
      <3>2. None \in 0..Len(homes')
        BY <1>2 DEF Shapes, None
      <3> HIDE DEF Saved
      <3> QED
        BY <3>1, <3>2 DEF OfBlock
    <2>2. \A k \in 1..Len(blocks) : BlockAt(k - 1)' = BlockAt(k - 1)
      <3> SUFFICES ASSUME NEW k \in 1..Len(blocks) PROVE BlockAt(k - 1)' = BlockAt(k - 1)
        OBVIOUS
      <3>1. k - 1 = 0 \/ k - 1 \in 1..Len(blocks)
        BY <1>b
      <3> QED
        BY <1>b, <3>1 DEF BlockAt
    <2> PICK last \in Nat : last = Len(blocks)
      BY <1>b
    <2>3. BlockAt(last)' = Block
      <3>1. CASE last = 0
        <4>1. blocks = <<>>
          BY <1>b, <3>1, EmptySeq
        <4> QED
          BY <3>1, <4>1 DEF BlockAt, Block
      <3>2. CASE last # 0
        <4>1. last \in 1..Len(blocks) /\ blocks # <<>>
          BY <1>b, <3>2
        <4> QED
          BY <1>b, <4>1, <3>2 DEF BlockAt, Block
      <3> QED
        BY <3>1, <3>2
    <2>4. Saved.number > 0
      BY <1>s DEF Shapes, Saved
    <2>5. \A k \in 1..Len(blocks') :
            blocks'[k].number > 0 /\ OfBlock(blocks'[k], BlockAt(k - 1)', homes, failedIn)
      <3> SUFFICES ASSUME NEW k \in 1..Len(blocks')
                   PROVE  blocks'[k].number > 0 /\ OfBlock(blocks'[k], BlockAt(k - 1)', homes, failedIn)
        OBVIOUS
      <3>1. CASE k \in 1..Len(blocks)
        <4> HIDE DEF Block
        <4> QED
          BY <1>b, <1>s, <2>2, <3>1 DEF Frames
      <3>2. CASE k = Len(blocks) + 1
        <4>1. k - 1 = last
          BY <1>b, <3>2
        <4> HIDE DEF Block, Saved, BlockAt
        <4> QED
          BY <1>b, <1>s, <2>3, <2>4, <3>2, <4>1 DEF Frames
      <3> QED
        BY <1>b, <3>1, <3>2
    <2> HIDE DEF Block, Saved, BlockAt
    <2> QED
      BY <1>1, <2>1, <2>5 DEF Frames
  <1>6. HooksOrdered'
    <2>1. Saved.client = client
      BY DEF Saved
    <2>2. \A k \in 1..Len(blocks') : blocks'[k].client # None => Settled(exitHooks, blocks'[k].client)
      <3> SUFFICES ASSUME NEW k \in 1..Len(blocks'), blocks'[k].client # None
                   PROVE  Settled(exitHooks, blocks'[k].client)
        OBVIOUS
      <3>1. CASE k \in 1..Len(blocks)
        BY <1>b, <1>s, <3>1 DEF HooksOrdered
      <3>2. CASE k = Len(blocks) + 1
        <4> HIDE DEF Saved, Building
        <4> QED
          BY <1>b, <1>s, <2>1, <3>2 DEF HooksOrdered
      <3> QED
        BY <1>b, <3>1, <3>2
    <2> HIDE DEF Building
    <2> QED
      BY <1>1, <1>s, <2>2 DEF HooksOrdered
  <1> QED
    BY <1>2, <1>3, <1>4, <1>5, <1>6 DEF LifeInv

LEMMA WithoutLast ==
    ASSUME NEW S, NEW s \in Seq(S), s # <<>>
    PROVE  /\ SubSeq(s, 1, Len(s) - 1) \in Seq(S)
           /\ Len(SubSeq(s, 1, Len(s) - 1)) = Len(s) - 1
           /\ \A k \in 1..(Len(s) - 1) : SubSeq(s, 1, Len(s) - 1)[k] = s[k]
  <1> PICK n \in Nat : n = Len(s) - 1
    BY EmptySeq
  <1>1. \A i \in 1..n : s[i] \in S
    BY ElementOfSeq
  <1> DEFINE front == SubSeq(s, 1, n)
  <1>2. /\ front \in Seq(S) /\ Len(front) = IF 1 <= n THEN n - 1 + 1 ELSE 0
        /\ \A i \in 1..(n - 1 + 1) : front[i] = s[1 + i - 1]
    BY <1>1, SubSeqProperties
  <1> HIDE DEF front
  <1>3. n - 1 + 1 = n /\ \A i \in 1..n : 1 + i - 1 = i
    OBVIOUS
  <1>4. Len(front) = n /\ \A i \in 1..n : front[i] = s[i]
    BY <1>2, <1>3
  <1> QED
    BY <1>2, <1>4 DEF front

LEMMA ExitKeeps == ASSUME LifeInv, ExitBlock PROVE LifeInv'
  <1> DEFINE last == Len(blocks)
             saved == blocks[last]
  <1>1. /\ Quiet /\ blocks # <<>> /\ blocks' = SubSeq(blocks, 1, last - 1)
        /\ apiKey' = saved.apiKey /\ handlers' = saved.handlers
        /\ hooksInstalled' = saved.hooksInstalled /\ hooks' = saved.hooks
        /\ client' = saved.client /\ config' = saved.config /\ initFailed' = saved.initFailed
        /\ UNCHANGED <<entered, conflicts, lockFree, exitHooks, pc, wants, held>>
        /\ UNCHANGED <<homes, open, failedIn>>
    BY DEF ExitBlock, history
  <1>s. /\ Shapes /\ TypeOK /\ Frames /\ HooksOrdered /\ Locked
        /\ \A t \in Threads : pc[t] = "idle" /\ held[t] = None
        /\ ~ Building
    BY <1>1, QuietHoldings
  <1>b. /\ blocks \in Seq(Snapshots) /\ last \in 1..last /\ last \in Nat /\ saved \in Snapshots
        /\ blocks' \in Seq(Snapshots) /\ Len(blocks') = last - 1
        /\ \A k \in 1..(last - 1) : blocks'[k] = blocks[k] /\ k \in 1..last
    <2>1. blocks \in Seq(Snapshots)
      BY <1>s DEF Shapes
    <2> HIDE DEF Snapshots
    <2>2. last \in Nat /\ last \in 1..last
      BY <1>1, <2>1
    <2>3. saved \in Snapshots
      BY <2>1, <2>2
    <2>4. /\ blocks' \in Seq(Snapshots) /\ Len(blocks') = last - 1
          /\ \A k \in 1..(last - 1) : blocks'[k] = blocks[k]
      BY <1>1, <2>1, WithoutLast
    <2>5. \A k \in 1..(last - 1) : k \in 1..last
      BY <2>2
    <2> QED
      BY <2>1, <2>2, <2>3, <2>4, <2>5
  <1>f. /\ OfBlock(saved, BlockAt(last - 1), homes, failedIn)
        /\ saved.client # None => Settled(exitHooks, saved.client)
    BY <1>b, <1>s DEF Frames, HooksOrdered
  <1>t. /\ saved.apiKey \in BOOLEAN /\ saved.handlers \in Seq(Nat) /\ saved.hooks \in Seq(Nat)
        /\ saved.hooksInstalled \in BOOLEAN /\ saved.initFailed \in BOOLEAN
        /\ saved.config \in Configs \cup {Unset}
    BY <1>b DEF Snapshots
  <1> HIDE DEF last, saved
  <1>2. Shapes'
    BY <1>1, <1>s, <1>b, <1>t DEF Shapes
  <1>3. TypeOK'
    <2>1. Locked'
      BY <1>1, <1>s, Zenon DEF Locked
    <2> QED
      BY <1>1, <1>s, <1>t, <1>f, <2>1 DEF TypeOK, Locked, OfBlock
  <1>4. Control'
    BY <1>1, <1>s DEF Control, InGet
  <1>5. Frames'
    <2>1. \A k \in 0..(last - 1) : BlockAt(k)' = BlockAt(k)
      <3> SUFFICES ASSUME NEW k \in 0..(last - 1) PROVE BlockAt(k)' = BlockAt(k)
        OBVIOUS
      <3>1. k = 0 \/ k \in 1..(last - 1)
        BY <1>b
      <3> QED
        BY <1>b, <3>1 DEF BlockAt
    <2>2. Block' = BlockAt(last - 1)
      <3>1. CASE last = 1
        BY <1>b, <3>1 DEF BlockAt, Block
      <3>2. CASE last # 1
        <4>1. last - 1 # 0 /\ last - 1 \in 1..(last - 1) /\ blocks' # <<>>
          BY <1>b, <3>2
        <4> QED
          BY <1>b, <4>1 DEF BlockAt, Block
      <3> QED
        BY <3>1, <3>2
    <2>3. OfBlock(Saved', Block', homes, failedIn)
      <3>1. /\ Saved'.client = saved.client /\ Saved'.handlers = saved.handlers
            /\ Saved'.hooksInstalled = saved.hooksInstalled /\ Saved'.hooks = saved.hooks
            /\ Saved'.initFailed = saved.initFailed
        BY <1>1 DEF Saved
      <3> HIDE DEF Saved, Block, BlockAt
      <3> QED
        BY <1>f, <2>2, <3>1 DEF OfBlock
    <2>4. \A k \in 1..Len(blocks') :
            blocks'[k].number > 0 /\ OfBlock(blocks'[k], BlockAt(k - 1)', homes, failedIn)
      <3> SUFFICES ASSUME NEW k \in 1..Len(blocks')
                   PROVE  blocks'[k].number > 0 /\ OfBlock(blocks'[k], BlockAt(k - 1)', homes, failedIn)
        OBVIOUS
      <3>1. k \in 1..(last - 1) /\ k - 1 \in 0..(last - 1) /\ k \in 1..Len(blocks)
        BY <1>b DEF last
      <3> HIDE DEF BlockAt
      <3> QED
        BY <1>b, <1>s, <2>1, <3>1 DEF Frames
    <2> HIDE DEF Block, Saved, BlockAt
    <2> QED
      BY <1>1, <2>3, <2>4 DEF Frames
  <1>6. HooksOrdered'
    <2>1. \A k \in 1..Len(blocks') : k \in 1..Len(blocks) /\ blocks'[k] = blocks[k]
      BY <1>b DEF last
    <2> HIDE DEF Building
    <2> QED
      BY <1>1, <1>s, <1>f, <2>1 DEF HooksOrdered
  <1> QED
    BY <1>2, <1>3, <1>4, <1>5, <1>6 DEF LifeInv

-----------------------------------------------------------------------------
LEMMA GetKeeps ==
    ASSUME LifeInv, UNCHANGED isolation, NEW t \in Threads, Get(t)
    PROVE  LifeInv'
  <1>1. CASE \/ \E cfg \in Configs : GetEnter(t, cfg)
             \/ GetDisabled(t) \/ GetExisting(t) \/ Compare(t) \/ GetReturn(t)
    BY <1>1, GetQuietKeeps
  <1>2. CASE BuildFails(t) \/ Build(t)
    BY <1>2, BuildFailsKeeps, BuildKeeps
  <1>3. CASE StoreClient(t) \/ StoreConfig(t) \/ Register(t)
    BY <1>3, StoreClientKeeps, StoreConfigKeeps, RegisterKeeps
  <1> QED
    BY <1>1, <1>2, <1>3 DEF Get

LEMMA StutterKeeps == ASSUME LifeInv, UNCHANGED vars PROVE LifeInv'
  <1>1. /\ UNCHANGED frame /\ UNCHANGED <<exitHooks, homes, failedIn, pc, held, wants>>
        /\ UNCHANGED <<conflicts, lockFree, open>>
    BY DEF vars, frame, singleton, wiring, isolation, history
  <1>2. Block' = Block /\ Building' = Building
    BY <1>1 DEF frame, Block, Building
  <1>3. Frames'
    BY <1>1, FramesKept DEF LifeInv
  <1> HIDE DEF Block, Building
  <1>4. Shapes' /\ TypeOK'
    BY <1>1 DEF LifeInv, Shapes, TypeOK, frame
  <1>5. Control'
    BY <1>1, <1>2 DEF LifeInv, Control, frame
  <1>6. HooksOrdered'
    BY <1>1, <1>2 DEF LifeInv, HooksOrdered, Settled, frame
  <1> QED
    BY <1>3, <1>4, <1>5, <1>6 DEF LifeInv

LEMMA LifeInvNext == LifeInv /\ [Next]_vars => LifeInv'
  <1> SUFFICES ASSUME LifeInv, [Next]_vars PROVE LifeInv'
    OBVIOUS
  <1>1. ASSUME NEW t \in Threads, Get(t) \/ Wire(t) \/ Close(t), UNCHANGED isolation PROVE LifeInv'
    BY <1>1, GetKeeps, WireKeeps, CloseKeeps
  <1>2. CASE EnterBlock \/ ExitBlock
    BY <1>2, EnterKeeps, ExitKeeps
  <1>3. CASE UNCHANGED vars
    BY <1>3, StutterKeeps
  <1> QED
    BY <1>1, <1>2, <1>3 DEF Next, Threads

LEMMA AlwaysLifeInv == Spec => []LifeInv
  <1> QED
    BY LifeInvInit, LifeInvNext, PTL DEF Spec

-----------------------------------------------------------------------------
(* The exit hooks and the blocks                                           *)

\* When the interpreter exits, the wxyc hook that flushes the cached client
\* runs before the join hook that stops the client's consumer, and there is one
\* wxyc hook: get_posthog_errors_client registers it anew after every build,
\* and neither a later build, a shutdown nor the edge of a block of
\* isolated_error_tracking, which leaves atexit alone, puts it below again.
THEOREM FlushRunsFirst == Spec => []ExitHookFirst
  <1>1. LifeInv => ExitHookFirst
    <2> SUFFICES ASSUME LifeInv, client # None, ~ Building
                 PROVE  \E w \in 1..Len(exitHooks) :
                           /\ exitHooks[w] = Wxyc
                           /\ \A i \in 1..Len(exitHooks) :
                                /\ exitHooks[i] = Join(client) => i < w
                                /\ exitHooks[i] = Wxyc => i = w
      BY DEF ExitHookFirst
    <2>1. /\ Settled(exitHooks, client)
          /\ \A i, j \in 1..Len(exitHooks) : exitHooks[i] = Wxyc /\ exitHooks[j] = Wxyc => i = j
      BY DEF LifeInv, HooksOrdered
    <2> QED
      BY <2>1 DEF Settled
  <1> QED
    BY <1>1, AlwaysLifeInv, PTL

-----------------------------------------------------------------------------
(* The excepthooks across the blocks                                       *)

\* A chain of hooks that goes on with the chain around: one hook more once they
\* are installed, the same one before.
Extends(installed, chain, around) ==
    IF installed THEN chain # <<>> /\ Tail(chain) = around ELSE chain = around

\* The chain that was there when the k-th open block began, none before any.
Around(k) == IF k = 0 THEN <<>> ELSE blocks[k].hooks

Chained ==
    /\ Extends(hooksInstalled, hooks, Around(Len(blocks)))
    /\ \A k \in 1..Len(blocks) : Extends(blocks[k].hooksInstalled, blocks[k].hooks, Around(k - 1))

LEMMA ChainedInit == Init => Chained
  BY DEF Init, Chained, Extends, Around

LEMMA ChainedNext == LifeInv /\ Chained /\ [Next]_vars => Chained'
  <1> SUFFICES ASSUME LifeInv, Chained, [Next]_vars PROVE Chained'
    OBVIOUS
  <1>b. blocks \in Seq(Snapshots) /\ hooks \in Seq(Nat) /\ Len(blocks) \in Nat
    BY DEF LifeInv, Shapes
  <1>1. ASSUME NEW t \in Threads, InstallHooks(t), UNCHANGED isolation PROVE Chained'
    <2>1. /\ hooksInstalled' = TRUE /\ blocks' = blocks
          /\ hooks' = IF hooksInstalled THEN hooks ELSE <<held[t]>> \o hooks
      BY <1>1 DEF InstallHooks, HooksAfter, isolation
    <2>2. held[t] \in Nat
      <3>1. Len(homes) \in Nat
        BY DEF LifeInv, Shapes
      <3> QED
        BY <3>1 DEF LifeInv, TypeOK
    <2>3. <<held[t]>> \o hooks # <<>> /\ Tail(<<held[t]>> \o hooks) = hooks
      BY <1>b, <2>2
    <2>4. Extends(hooksInstalled', hooks', Around(Len(blocks)))
      BY <2>1, <2>3 DEF Chained, Extends
    <2> QED
      BY <2>1, <2>4 DEF Chained, Around
  <1>2. CASE EnterBlock
    <2>1. /\ blocks' = Append(blocks, Saved) /\ hooks' = hooks /\ hooksInstalled' = FALSE
          /\ Saved.hooks = hooks /\ Saved.hooksInstalled = hooksInstalled
      BY <1>2 DEF EnterBlock, Saved
    <2>2. /\ Saved \in Snapshots
          /\ Len(blocks') = Len(blocks) + 1 /\ blocks'[Len(blocks) + 1] = Saved
          /\ \A k \in 1..Len(blocks) : blocks'[k] = blocks[k]
      <3>1. Saved \in Snapshots
        BY SavedIsSnapshot DEF LifeInv
      <3> HIDE DEF Saved, Snapshots
      <3> QED
        BY <1>b, <2>1, <3>1
    <2> HIDE DEF Saved
    <2>3. Extends(hooksInstalled', hooks',
                  IF Len(blocks') = 0 THEN <<>> ELSE blocks'[Len(blocks')].hooks)
      <3>1. Len(blocks') # 0 /\ blocks'[Len(blocks')].hooks = hooks
        BY <1>b, <2>1, <2>2
      <3> QED
        BY <2>1, <3>1 DEF Extends
    <2>4. \A k \in 0..Len(blocks) : (IF k = 0 THEN <<>> ELSE blocks'[k].hooks) = Around(k)
      BY <1>b, <2>2 DEF Around
    <2>5. ASSUME NEW k \in 1..Len(blocks')
          PROVE  Extends(blocks'[k].hooksInstalled, blocks'[k].hooks,
                         IF k - 1 = 0 THEN <<>> ELSE blocks'[k - 1].hooks)
      <3>1. k - 1 \in 0..Len(blocks) /\ (k \in 1..Len(blocks) \/ k = Len(blocks) + 1)
        BY <1>b, <2>2
      <3>2. (IF k - 1 = 0 THEN <<>> ELSE blocks'[k - 1].hooks) = Around(k - 1)
        BY <2>4, <3>1
      <3>3. CASE k \in 1..Len(blocks)
        BY <2>2, <3>2, <3>3 DEF Chained
      <3>4. CASE k = Len(blocks) + 1
        <4>1. k - 1 = Len(blocks)
          BY <1>b, <3>4
        <4> QED
          BY <2>1, <2>2, <3>2, <3>4, <4>1 DEF Chained
      <3> QED
        BY <3>1, <3>3, <3>4
    <2> QED
      BY <2>3, <2>5 DEF Chained, Around
  <1>3. CASE ExitBlock
    <2> DEFINE n == Len(blocks)
    <2>1. /\ blocks # <<>> /\ blocks' = SubSeq(blocks, 1, n - 1)
          /\ hooks' = blocks[n].hooks /\ hooksInstalled' = blocks[n].hooksInstalled
      BY <1>3 DEF ExitBlock
    <2>2. /\ Len(blocks') = n - 1 /\ n \in 1..n /\ n - 1 \in Nat
          /\ \A k \in 1..(n - 1) : blocks'[k] = blocks[k] /\ k \in 1..n
      <3>1. Len(blocks') = n - 1 /\ \A k \in 1..(n - 1) : blocks'[k] = blocks[k]
        <4> HIDE DEF Snapshots
        <4> QED
          BY <1>b, <2>1, WithoutLast
      <3>2. n \in Nat /\ n # 0
        BY <1>b, <2>1, EmptySeq
      <3> QED
        BY <3>1, <3>2
    <2> HIDE DEF n
    <2>3. \A k \in 0..(n - 1) : (IF k = 0 THEN <<>> ELSE blocks'[k].hooks) = Around(k)
      BY <2>2 DEF Around
    <2>4. \A k \in 1..n : Extends(blocks[k].hooksInstalled, blocks[k].hooks, Around(k - 1))
      BY DEF Chained, n
    <2>5. Extends(hooksInstalled', hooks', IF n - 1 = 0 THEN <<>> ELSE blocks'[n - 1].hooks)
      <3>1. (IF n - 1 = 0 THEN <<>> ELSE blocks'[n - 1].hooks) = Around(n - 1)
        BY <2>2, <2>3
      <3> QED
        BY <2>1, <2>2, <2>4, <3>1
    <2>6. ASSUME NEW k \in 1..(n - 1)
          PROVE  Extends(blocks'[k].hooksInstalled, blocks'[k].hooks,
                         IF k - 1 = 0 THEN <<>> ELSE blocks'[k - 1].hooks)
      <3>1. k - 1 \in 0..(n - 1)
        BY <2>2
      <3>2. (IF k - 1 = 0 THEN <<>> ELSE blocks'[k - 1].hooks) = Around(k - 1)
        BY <2>3, <3>1
      <3> QED
        BY <2>2, <2>4, <3>2
    <2> QED
      BY <2>2, <2>5, <2>6 DEF Chained, Around
  <1>4. CASE UNCHANGED <<hooks, hooksInstalled, blocks>>
    BY <1>4 DEF Chained, Around
  <1> QED
    BY <1>1, <1>2, <1>3, <1>4
    DEF Next, Threads, Get, GetEnter, GetDisabled, BuildFails, Build, StoreClient, StoreConfig,
        Register, GetExisting, Compare, GetReturn, Wire, AttachCheck, Attach, Close, ResetFailed,
        ResetConfig, ShutdownCheck, ShutdownCall, ShutdownDone, Clear, vars, singleton, wiring,
        isolation

\* The globals that isolated_error_tracking puts aside are of the block they
\* were saved in and nothing else: inside a block the cached client, the handler
\* and the remembered failure are of that block, and when it ends those that
\* come back are of the block around it, whatever calls were made in it and
\* however deep the blocks are nested.  The chain of excepthooks is the one the
\* block found, and from its init_error_tracking on that with one hook of its
\* own before it.
THEOREM NothingCrossesABlock == Spec => []IsolationHolds
  <1>1. LifeInv /\ Chained => IsolationHolds
    <2> SUFFICES ASSUME LifeInv, Chained PROVE IsolationHolds
      OBVIOUS
    <2>1. Around(Len(blocks)) = OuterHooks
      <3>1. blocks \in Seq(Snapshots) /\ Len(blocks) \in Nat
        BY DEF LifeInv, Shapes
      <3> QED
        BY <3>1, EmptySeq DEF Around, OuterHooks
    <2>2. IF hooksInstalled THEN hooks # <<>> /\ Tail(hooks) = OuterHooks ELSE hooks = OuterHooks
      BY <2>1 DEF Chained, Extends
    <2>3. /\ client # None => homes[client] = Block
          /\ \A i \in 1..Len(handlers) : homes[handlers[i]] = Block
          /\ hooksInstalled => homes[Head(hooks)] = Block
          /\ initFailed => Block \in failedIn
      BY DEF LifeInv, Frames, OfBlock, Saved
    <2> QED
      BY <2>2, <2>3 DEF IsolationHolds
  <1> QED
    BY <1>1, AlwaysLifeInv, ChainedInit, ChainedNext, PTL DEF Spec

-----------------------------------------------------------------------------
(* One open client                                                         *)

PastCheck == {"shutdownCall", "shuttingDown", "clear"}

\* One closer at most is past its check, and it is closing the cached client.
Closing ==
    /\ \A t, u \in Threads : pc[t] \in PastCheck /\ pc[u] \in PastCheck => t = u
    /\ \A t \in Threads :
         /\ pc[t] \in PastCheck => client # None
         /\ pc[t] \in {"shuttingDown", "clear"} => held[t] = client
         /\ pc[t] = "clear" => held[t] \notin open

\* An open client is the cached one, or is about to be, or the outermost block
\* has put it aside.
OpenIsCached ==
    \A n \in open :
        \/ blocks = <<>> /\ client = n
        \/ blocks = <<>> /\ \E t \in Threads : pc[t] = "store" /\ held[t] = n
        \/ blocks # <<>> /\ blocks[1].client = n

OpenInv == Closing /\ OpenIsCached

\* A step that opens, closes and caches nothing.
Opens(t, there) ==
    /\ UNCHANGED <<client, open, blocks>>
    /\ \A u \in Threads \ {t} : held'[u] = held[u]
    /\ there \in (PCs \ {"store"}) \ PastCheck

LEMMA OpenInvInit == Init => OpenInv
  BY DEF Init, OpenInv, Closing, OpenIsCached, PastCheck

LEMMA OpenKept ==
    ASSUME LifeInv, OpenInv, NEW t \in Threads, NEW here \in PCs \ {"store"}, NEW there,
           Step(t, here, there), Opens(t, there)
    PROVE  OpenInv'
  <1>1. /\ pc[t] = here /\ \A u \in Threads : pc'[u] = IF u = t THEN there ELSE pc[u]
        /\ there \in PCs
    BY StepOf DEF LifeInv, Opens
  <1>2. Closing'
    BY <1>1 DEF OpenInv, Closing, Opens, PastCheck
  <1>3. OpenIsCached'
    <2> SUFFICES ASSUME NEW n \in open
                 PROVE  \/ blocks = <<>> /\ client = n
                        \/ blocks = <<>> /\ \E u \in Threads : pc'[u] = "store" /\ held'[u] = n
                        \/ blocks # <<>> /\ blocks[1].client = n
      BY DEF OpenIsCached, Opens
    <2>1. ASSUME NEW u \in Threads, pc[u] = "store", held[u] = n
          PROVE  pc'[u] = "store" /\ held'[u] = n
      BY <1>1, <2>1 DEF Opens
    <2> QED
      BY <2>1 DEF OpenInv, OpenIsCached
  <1> QED
    BY <1>2, <1>3 DEF OpenInv

LEMMA OpenOfGet ==
    ASSUME LifeInv, OpenInv, UNCHANGED isolation, NEW t \in Threads, Get(t)
    PROVE  OpenInv'
  <1>b. blocks' = blocks /\ held \in [Threads -> 0..Len(homes)]
    BY DEF isolation, LifeInv, TypeOK
  <1>l. Shapes /\ TypeOK /\ Control /\ Frames /\ Locked /\ Closing /\ OpenIsCached
    BY DEF LifeInv, OpenInv, TypeOK, Locked
  <1>1. CASE \E cfg \in Configs : GetEnter(t, cfg)
    <2>1. Step(t, "idle", "getCheck") /\ Opens(t, "getCheck")
      BY <1>1, <1>b DEF GetEnter, history, Opens, PCs, InGet, PastCheck
    <2> QED
      BY <2>1, OpenKept DEF PCs, InGet
  <1>2. CASE GetDisabled(t) \/ BuildFails(t)
    <2>1. Step(t, "getCheck", "idle") /\ Opens(t, "idle")
      BY <1>2, <1>b DEF GetDisabled, BuildFails, history, Opens, PCs, InGet, PastCheck
    <2> QED
      BY <2>1, OpenKept DEF PCs, InGet
  <1>3. CASE GetExisting(t)
    <2>1. Step(t, "getCheck", "compare") /\ Opens(t, "compare")
      BY <1>3, <1>b DEF GetExisting, singleton, history, Opens, PCs, InGet, PastCheck
    <2> QED
      BY <2>1, OpenKept DEF PCs, InGet
  <1>4. CASE Compare(t)
    <2>1. Step(t, "compare", "getReturn") /\ Opens(t, "getReturn")
      BY <1>4, <1>b DEF Compare, history, Opens, PCs, InGet, PastCheck
    <2> QED
      BY <2>1, OpenKept DEF PCs, InGet
  <1>5. CASE GetReturn(t)
    <2> DEFINE there == IF t \in Inits /\ client # None THEN "wire" ELSE "idle"
    <2>1. Step(t, "getReturn", there) /\ Opens(t, there)
      BY <1>5, <1>b DEF GetReturn, Holds, history, Opens, PCs, InGet, PastCheck
    <2> HIDE DEF there
    <2> QED
      BY <2>1, OpenKept DEF PCs, InGet
  <1>6. CASE StoreConfig(t)
    <2>1. Step(t, "storeConfig", "register") /\ Opens(t, "register")
      BY <1>6, <1>b DEF StoreConfig, history, Opens, PCs, InGet, PastCheck
    <2> QED
      BY <2>1, OpenKept DEF PCs, InGet
  <1>7. CASE Register(t)
    <2>1. Step(t, "register", "getReturn") /\ Opens(t, "getReturn")
      BY <1>7, <1>b DEF Register, singleton, history, Opens, PCs, InGet, PastCheck
    <2> QED
      BY <2>1, OpenKept DEF PCs, InGet
  <1>8. CASE StoreClient(t)
    <2>1. /\ Step(t, "store", "storeConfig") /\ client' = held[t] /\ held' = held /\ open' = open
      BY <1>8 DEF StoreClient, history
    <2>2. /\ pc[t] = "store" /\ client = None
          /\ \A u \in Threads : pc'[u] = IF u = t THEN "storeConfig" ELSE pc[u]
      BY <2>1, <1>l, StepOf DEF PCs, InGet, Control, Step
    <2>3. Closing'
      BY <2>1, <2>2, <1>l DEF Closing, PastCheck
    <2>4. OpenIsCached'
      <3> SUFFICES ASSUME NEW n \in open
                   PROVE  (blocks = <<>> /\ client' = n) \/ (blocks # <<>> /\ blocks[1].client = n)
        BY <2>1, <1>b DEF OpenIsCached
      <3>1. n # None
        BY <1>l DEF TypeOK, None
      <3>2. \A u \in Threads : pc[u] = "store" => u = t
        BY <2>2, <1>l DEF Locked, InGet
      <3> QED
        BY <2>1, <2>2, <3>1, <3>2, <1>l DEF OpenIsCached
    <2> QED
      BY <2>3, <2>4 DEF OpenInv
  <1>9. CASE Build(t)
    <2>1. /\ Step(t, "getCheck", "store") /\ client = None /\ client' = None
          /\ held' = [held EXCEPT ![t] = Len(homes')]
          /\ (Block # 0 /\ open' = open) \/ (Block = 0 /\ open' = open \cup {Len(homes')})
      BY <1>9 DEF Build, Holds, singleton
    <2>2. /\ pc[t] = "getCheck"
          /\ \A u \in Threads : pc'[u] = IF u = t THEN "store" ELSE pc[u]
          /\ held'[t] = Len(homes') /\ \A u \in Threads \ {t} : held'[u] = held[u]
      BY <2>1, <1>l, <1>b, StepOf DEF PCs, InGet
    <2>3. Closing'
      BY <2>1, <2>2, <1>l DEF Closing, PastCheck
    <2>4. \A u \in Threads : pc[u] # "store"
      BY <2>2, <1>l DEF Locked, InGet
    <2>5. CASE blocks # <<>>
      <3>1. Block # 0
        <4>1. Len(blocks) \in 1..Len(blocks)
          BY <2>5, <1>l, EmptySeq DEF Shapes
        <4>2. blocks[Len(blocks)].number \in Nat /\ blocks[Len(blocks)].number > 0
          <5>1. blocks[Len(blocks)] \in Snapshots
            BY <4>1, <1>l DEF Shapes
          <5> QED
            BY <4>1, <5>1, <1>l DEF Frames, Snapshots
        <4> QED
          BY <2>5, <4>2 DEF Block
      <3> QED
        BY <2>1, <2>3, <2>5, <3>1, <1>l, <1>b DEF OpenInv, OpenIsCached
    <2>6. CASE blocks = <<>>
      <3>1. \A n \in open : FALSE
        BY <2>1, <2>4, <2>6, <1>l DEF OpenIsCached, TypeOK, None
      <3>2. \A n \in open' : n = Len(homes')
        BY <2>1, <3>1
      <3> QED
        BY <2>2, <2>3, <2>6, <3>2, <1>b DEF OpenInv, OpenIsCached
    <2> QED
      BY <2>5, <2>6
  <1> QED
    BY <1>1, <1>2, <1>3, <1>4, <1>5, <1>6, <1>7, <1>8, <1>9 DEF Get

LEMMA OpenOfWire ==
    ASSUME LifeInv, OpenInv, UNCHANGED isolation, NEW t \in Threads, Wire(t)
    PROVE  OpenInv'
  <1>b. blocks' = blocks /\ held \in [Threads -> 0..Len(homes)]
    BY DEF isolation, LifeInv, TypeOK
  <1>1. CASE AttachCheck(t)
    <2> DEFINE there == IF NeedsHandler THEN "attach" ELSE "hooks"
    <2>1. Step(t, "wire", there) /\ Opens(t, there)
      BY <1>1, <1>b DEF AttachCheck, singleton, history, Opens, PCs, InGet, PastCheck
    <2> HIDE DEF there
    <2> QED
      BY <2>1, OpenKept DEF PCs, InGet
  <1>2. CASE Attach(t)
    <2>1. Step(t, "attach", "hooks") /\ Opens(t, "hooks")
      BY <1>2, <1>b DEF Attach, singleton, history, Opens, PCs, InGet, PastCheck
    <2> QED
      BY <2>1, OpenKept DEF PCs, InGet
  <1>3. CASE InstallHooks(t)
    <2>1. Step(t, "hooks", "idle") /\ Opens(t, "idle")
      BY <1>3, <1>b DEF InstallHooks, Holds, singleton, history, Opens, PCs, InGet, PastCheck
    <2> QED
      BY <2>1, OpenKept DEF PCs, InGet
  <1> QED
    BY <1>1, <1>2, <1>3 DEF Wire

LEMMA OpenOfClose ==
    ASSUME LifeInv, OpenInv, UNCHANGED isolation, NEW t \in Closers, Close(t)
    PROVE  overlapped' \/ OpenInv'
  <1>b. blocks' = blocks /\ held \in [Threads -> 0..Len(homes)] /\ t \in Threads
    BY DEF isolation, LifeInv, TypeOK, Threads
  <1>l. Shapes /\ TypeOK /\ Control /\ Closing /\ OpenIsCached
    BY DEF LifeInv, OpenInv
  <1>1. CASE ResetFailed(t)
    <2>1. Step(t, "idle", "resetConfig") /\ Opens(t, "resetConfig")
      BY <1>1, <1>b DEF ResetFailed, Opens, PCs, InGet, PastCheck
    <2> QED
      BY <2>1, <1>b, OpenKept DEF PCs, InGet
  <1>2. CASE ResetConfig(t)
    <2>1. Step(t, "resetConfig", "shutdownCheck") /\ Opens(t, "shutdownCheck")
      BY <1>2, <1>b DEF ResetConfig, history, Opens, PCs, InGet, PastCheck
    <2> QED
      BY <2>1, <1>b, OpenKept DEF PCs, InGet
  <1>3. CASE ShutdownCheck(t) /\ client = None
    <2>1. Step(t, "shutdownCheck", "idle") /\ Opens(t, "idle")
      BY <1>3, <1>b DEF ShutdownCheck, singleton, Opens, PCs, InGet, PastCheck
    <2> QED
      BY <2>1, <1>b, OpenKept DEF PCs, InGet
  <1>7. CASE ShutdownCheck(t) /\ client # None
    <2>1. /\ Step(t, "shutdownCheck", "shutdownCall") /\ held' = held
          /\ client' = client /\ open' = open /\ overlapped' = (overlapped \/ Stopping # {})
      BY <1>7 DEF ShutdownCheck, singleton
    <2>2. /\ pc[t] = "shutdownCheck"
          /\ \A u \in Threads : pc'[u] = IF u = t THEN "shutdownCall" ELSE pc[u]
      BY <2>1, <1>l, <1>b, StepOf DEF PCs, InGet
    <2> SUFFICES ASSUME Stopping = {} PROVE OpenInv'
      BY <2>1
    <2>3. \A u \in Threads : pc[u] \notin PastCheck
      BY DEF Stopping, PastCheck
    <2>4. Closing'
      BY <1>7, <2>1, <2>2, <2>3 DEF Closing, PastCheck
    <2>5. OpenIsCached'
      BY <2>1, <2>2, <1>l, <1>b DEF OpenIsCached
    <2> QED
      BY <2>4, <2>5 DEF OpenInv
  <1>8. CASE ShutdownCall(t) /\ client = None
    <2>1. Step(t, "shutdownCall", "idle") /\ Opens(t, "idle")
      BY <1>8, <1>b DEF ShutdownCall, Holds, singleton, history, Opens, PCs, InGet, PastCheck
    <2> QED
      BY <2>1, <1>b, OpenKept DEF PCs, InGet
  <1>4. CASE ShutdownCall(t) /\ client # None
    <2>1. /\ Step(t, "shutdownCall", "shuttingDown") /\ held' = [held EXCEPT ![t] = client]
          /\ client' = client /\ open' = open
      BY <1>4 DEF ShutdownCall, Holds, singleton, history
    <2>2. /\ pc[t] = "shutdownCall"
          /\ \A u \in Threads : pc'[u] = IF u = t THEN "shuttingDown" ELSE pc[u]
          /\ held'[t] = client /\ \A u \in Threads \ {t} : held'[u] = held[u]
      BY <2>1, <1>l, <1>b, StepOf DEF PCs, InGet
    <2>3. Closing'
      BY <1>4, <2>1, <2>2, <1>l DEF Closing, PastCheck
    <2>4. OpenIsCached'
      BY <2>1, <2>2, <1>l, <1>b DEF OpenIsCached
    <2> QED
      BY <2>3, <2>4 DEF OpenInv
  <1>5. CASE ShutdownDone(t)
    <2>1. /\ Step(t, "shuttingDown", "clear") /\ open' = open \ {held[t]}
          /\ held' = held /\ client' = client
      BY <1>5 DEF ShutdownDone, singleton
    <2>2. /\ pc[t] = "shuttingDown"
          /\ \A u \in Threads : pc'[u] = IF u = t THEN "clear" ELSE pc[u]
      BY <2>1, <1>l, <1>b, StepOf DEF PCs, InGet
    <2>3. Closing'
      BY <2>1, <2>2, <1>l DEF Closing, PastCheck
    <2>4. OpenIsCached'
      BY <2>1, <2>2, <1>l, <1>b DEF OpenIsCached
    <2> QED
      BY <2>3, <2>4 DEF OpenInv
  <1>6. CASE Clear(t)
    <2>1. /\ Step(t, "clear", "idle") /\ open' = open
          /\ held' = [held EXCEPT ![t] = None] /\ client' = None
      BY <1>6 DEF Clear, Holds, history
    <2>2. /\ pc[t] = "clear"
          /\ \A u \in Threads : pc'[u] = IF u = t THEN "idle" ELSE pc[u]
      BY <2>1, <1>l, <1>b, StepOf DEF PCs, InGet
    <2>3. Closing'
      <3>1. \A u \in Threads : pc'[u] \notin PastCheck
        BY <2>2, <1>l, <1>b DEF Closing, PastCheck
      <3> QED
        BY <3>1 DEF Closing, PastCheck
    <2>4. client # None /\ client \notin open
      BY <2>2, <1>l, <1>b DEF Closing, PastCheck
    <2>5. \A u \in Threads : pc[u] # "store"
      BY <2>4, <1>l DEF Control
    <2>6. OpenIsCached'
      BY <2>1, <2>4, <2>5, <1>l, <1>b DEF OpenIsCached
    <2> QED
      BY <2>3, <2>6 DEF OpenInv
  <1> QED
    BY <1>1, <1>2, <1>3, <1>4, <1>5, <1>6, <1>7, <1>8 DEF Close

LEMMA OpenOfBlock ==
    ASSUME LifeInv, OpenInv, EnterBlock \/ ExitBlock
    PROVE  OpenInv'
  <1>1. Quiet /\ pc' = pc /\ held' = held /\ open' = open
    BY DEF EnterBlock, ExitBlock, history
  <1>q. \A t \in Threads : pc[t] = "idle"
    BY <1>1 DEF Quiet
  <1>2. Closing'
    BY <1>1, <1>q DEF Closing, PastCheck
  <1>b. blocks \in Seq(Snapshots) /\ Saved \in Snapshots
    BY SavedIsSnapshot DEF LifeInv, Shapes
  <1>3. OpenIsCached'
    <2>1. CASE EnterBlock
      <3>1. blocks' = Append(blocks, Saved) /\ Saved.client = client
        BY <2>1 DEF EnterBlock, Saved
      <3> HIDE DEF Saved, Snapshots
      <3>2. blocks' # <<>> /\ blocks'[1] = IF blocks = <<>> THEN Saved ELSE blocks[1]
        BY <3>1, <1>b
      <3> QED
        BY <1>1, <1>q, <3>1, <3>2 DEF OpenInv, OpenIsCached
    <2>2. CASE ExitBlock
      <3>1. /\ blocks # <<>> /\ blocks' = SubSeq(blocks, 1, Len(blocks) - 1)
            /\ client' = blocks[Len(blocks)].client
        BY <2>2 DEF ExitBlock
      <3>2. /\ blocks' \in Seq(Snapshots) /\ Len(blocks') = Len(blocks) - 1
            /\ \A k \in 1..(Len(blocks) - 1) : blocks'[k] = blocks[k]
            /\ Len(blocks) \in Nat \ {0}
        BY <3>1, <1>b, WithoutLast, EmptySeq
      <3>3. CASE Len(blocks) = 1
        <4>1. blocks' = <<>>
          BY <3>2, <3>3, EmptySeq
        <4> QED
          BY <1>1, <3>1, <3>3, <4>1 DEF OpenInv, OpenIsCached
      <3>4. CASE Len(blocks) # 1
        <4>1. blocks' # <<>> /\ blocks'[1] = blocks[1]
          BY <3>2, <3>4
        <4> QED
          BY <1>1, <3>1, <4>1 DEF OpenInv, OpenIsCached
      <3> QED
        BY <3>3, <3>4
    <2> QED
      BY <2>1, <2>2
  <1> QED
    BY <1>2, <1>3 DEF OpenInv

OneUnlessOverlapped == overlapped \/ OpenInv

LEMMA OverlapStays == ASSUME overlapped, [Next]_vars PROVE overlapped'
  <1> USE DEF history
  <1>1. ASSUME NEW t \in Threads, Get(t) \/ Wire(t) PROVE overlapped'
    BY <1>1 DEF Get, GetEnter, GetDisabled, BuildFails, Build, StoreClient, StoreConfig, Register,
                GetExisting, Compare, GetReturn, Wire, AttachCheck, Attach, InstallHooks
  <1>2. ASSUME NEW t \in Closers, Close(t) PROVE overlapped'
    BY <1>2 DEF Close, ResetFailed, ResetConfig, ShutdownCheck, ShutdownCall, ShutdownDone, Clear
  <1>3. CASE EnterBlock \/ ExitBlock
    BY <1>3 DEF EnterBlock, ExitBlock
  <1>4. CASE UNCHANGED vars
    BY <1>4 DEF vars
  <1> QED
    BY <1>1, <1>2, <1>3, <1>4 DEF Next, Threads

LEMMA OneUnlessOverlappedNext ==
    LifeInv /\ OneUnlessOverlapped /\ [Next]_vars => OneUnlessOverlapped'
  <1> SUFFICES ASSUME LifeInv, OpenInv, [Next]_vars PROVE overlapped' \/ OpenInv'
    BY OverlapStays DEF OneUnlessOverlapped
  <1>1. ASSUME NEW t \in Threads, Get(t) \/ Wire(t), UNCHANGED isolation PROVE OpenInv'
    BY <1>1, OpenOfGet, OpenOfWire
  <1>2. ASSUME NEW t \in Closers, Close(t), UNCHANGED isolation PROVE overlapped' \/ OpenInv'
    BY <1>2, OpenOfClose
  <1>3. CASE EnterBlock \/ ExitBlock
    BY <1>3, OpenOfBlock
  <1>4. CASE UNCHANGED vars
    BY <1>4 DEF vars, singleton, isolation, history, OpenInv, Closing, OpenIsCached
  <1> QED
    BY <1>1, <1>2, <1>3, <1>4 DEF Next, Threads

\* Whatever threads get, wire and close, until two of them are past shutdown's
\* check at once there is at most one client that the SDK has not shut down: a
\* getter builds one only when none is cached, and shutdown clears the cache
\* only when the client in it is closed, so that no join hook, consumer thread
\* or queue of a second one is left behind.
THEOREM OneClient == Spec => []OneOpenClient
  <1>1. LifeInv /\ OneUnlessOverlapped => OneOpenClient
    <2> SUFFICES ASSUME LifeInv, OpenInv, NEW c \in open, NEW d \in open PROVE TypeOK /\ c = d
      BY DEF OneOpenClient, LifeInv, OneUnlessOverlapped
    <2>1. TypeOK /\ Control /\ Locked /\ OpenIsCached /\ c # None /\ d # None
      BY DEF LifeInv, OpenInv, TypeOK, Locked, None
    <2> QED
      BY <2>1 DEF OpenIsCached, Control, Locked, InGet
  <1>2. Init => OneUnlessOverlapped
    BY OpenInvInit DEF OneUnlessOverlapped
  <1>3. LifeInv /\ OneUnlessOverlapped /\ [Next]_vars => OneUnlessOverlapped'
    BY OneUnlessOverlappedNext
  <1> QED
    BY <1>1, <1>2, <1>3, AlwaysLifeInv, PTL DEF Spec

-----------------------------------------------------------------------------
(* One handler and one hook, for the same client                           *)

WirePCs == {"wire", "attach", "hooks"}

\* Two threads in init_error_tracking at once could both find the handler list
\* empty, and both extend it.  The hypothesis of what follows.
OneInitialiser == \A t, u \in Inits : t = u

\* The newest excepthook and the one handler report to the same client.
Consistent(f) ==
    /\ Len(f.handlers) <= 1
    /\ f.hooksInstalled => f.handlers # <<>> /\ f.handlers[1] = Head(f.hooks)

\* A handler without its hooks is there only while the thread that attached it
\* is about to install them.
Wired ==
    /\ Consistent(Saved)
    /\ \A k \in 1..Len(blocks) :
         Consistent(blocks[k]) /\ (blocks[k].handlers # <<>> => blocks[k].hooksInstalled)
    /\ \A t \in Threads :
         /\ pc[t] \in WirePCs => t \in Inits
         /\ pc[t] = "attach" => handlers = <<>>
         /\ pc[t] = "hooks" => handlers # <<>> /\ (~ hooksInstalled => handlers[1] = held[t])
    /\ (\A t \in Threads : pc[t] # "hooks") => (handlers # <<>> => hooksInstalled)

LEMMA WiredInit == Init => Wired
  BY DEF Init, Wired, Consistent, Saved, WirePCs

\* A step that attaches and installs nothing.
Wires(t, there) ==
    /\ UNCHANGED <<handlers, hooksInstalled, hooks, blocks>>
    /\ \A u \in Threads \ {t} : held'[u] = held[u]
    /\ there \in PCs \ {"attach", "hooks"}
    /\ there = "wire" => t \in Inits

LEMMA WiredKept ==
    ASSUME LifeInv, Wired, NEW t \in Threads, NEW here \in PCs \ {"hooks"}, NEW there,
           Step(t, here, there), Wires(t, there)
    PROVE  Wired'
  <1>1. /\ pc[t] = here /\ \A u \in Threads : pc'[u] = IF u = t THEN there ELSE pc[u]
        /\ there \in PCs
    BY StepOf DEF LifeInv, Wires
  <1>2. Consistent(Saved) => Consistent(Saved')
    BY DEF Consistent, Saved, Wires
  <1>3. \A u \in Threads :
          /\ pc'[u] \in WirePCs => u \in Inits
          /\ pc'[u] = "attach" => pc[u] = "attach" /\ u # t
          /\ pc'[u] = "hooks" => pc[u] = "hooks" /\ u # t
          /\ pc[u] = "hooks" => pc'[u] = "hooks"
    BY <1>1 DEF Wired, Wires, WirePCs
  <1> HIDE DEF Saved
  <1> QED
    BY <1>2, <1>3 DEF Wired, Wires

LEMMA WiredOfGet ==
    ASSUME LifeInv, Wired, UNCHANGED isolation, NEW t \in Threads, Get(t)
    PROVE  Wired'
  <1>b. blocks' = blocks /\ held \in [Threads -> 0..Len(homes)]
    BY DEF isolation, LifeInv, TypeOK
  <1>1. CASE \E cfg \in Configs : GetEnter(t, cfg)
    <2>1. Step(t, "idle", "getCheck") /\ Wires(t, "getCheck")
      BY <1>1, <1>b DEF GetEnter, wiring, Wires, PCs, InGet
    <2> QED
      BY <2>1, WiredKept DEF PCs, InGet
  <1>2. CASE GetDisabled(t) \/ BuildFails(t)
    <2>1. Step(t, "getCheck", "idle") /\ Wires(t, "idle")
      BY <1>2, <1>b DEF GetDisabled, BuildFails, wiring, Wires, PCs, InGet
    <2> QED
      BY <2>1, WiredKept DEF PCs, InGet
  <1>3. CASE GetExisting(t)
    <2>1. Step(t, "getCheck", "compare") /\ Wires(t, "compare")
      BY <1>3, <1>b DEF GetExisting, wiring, Wires, PCs, InGet
    <2> QED
      BY <2>1, WiredKept DEF PCs, InGet
  <1>4. CASE Compare(t)
    <2>1. Step(t, "compare", "getReturn") /\ Wires(t, "getReturn")
      BY <1>4, <1>b DEF Compare, wiring, Wires, PCs, InGet
    <2> QED
      BY <2>1, WiredKept DEF PCs, InGet
  <1>5. CASE GetReturn(t)
    <2> DEFINE there == IF t \in Inits /\ client # None THEN "wire" ELSE "idle"
    <2>1. Step(t, "getReturn", there) /\ Wires(t, there)
      BY <1>5, <1>b DEF GetReturn, Holds, wiring, Wires, PCs, InGet
    <2> HIDE DEF there
    <2> QED
      BY <2>1, WiredKept DEF PCs, InGet
  <1>6. CASE Build(t)
    <2>1. Step(t, "getCheck", "store") /\ Wires(t, "store")
      BY <1>6, <1>b DEF Build, Holds, Wires, PCs, InGet
    <2> QED
      BY <2>1, WiredKept DEF PCs, InGet
  <1>7. CASE StoreClient(t)
    <2>1. Step(t, "store", "storeConfig") /\ Wires(t, "storeConfig")
      BY <1>7, <1>b DEF StoreClient, wiring, Wires, PCs, InGet
    <2> QED
      BY <2>1, WiredKept DEF PCs, InGet
  <1>8. CASE StoreConfig(t)
    <2>1. Step(t, "storeConfig", "register") /\ Wires(t, "register")
      BY <1>8, <1>b DEF StoreConfig, wiring, Wires, PCs, InGet
    <2> QED
      BY <2>1, WiredKept DEF PCs, InGet
  <1>9. CASE Register(t)
    <2>1. Step(t, "register", "getReturn") /\ Wires(t, "getReturn")
      BY <1>9, <1>b DEF Register, Wires, PCs, InGet
    <2> QED
      BY <2>1, WiredKept DEF PCs, InGet
  <1> QED
    BY <1>1, <1>2, <1>3, <1>4, <1>5, <1>6, <1>7, <1>8, <1>9 DEF Get

LEMMA WiredOfClose ==
    ASSUME LifeInv, Wired, UNCHANGED isolation, NEW t \in Threads, Close(t)
    PROVE  Wired'
  <1>b. blocks' = blocks /\ held \in [Threads -> 0..Len(homes)]
    BY DEF isolation, LifeInv, TypeOK
  <1>1. CASE ResetFailed(t)
    <2>1. Step(t, "idle", "resetConfig") /\ Wires(t, "resetConfig")
      BY <1>1, <1>b DEF ResetFailed, wiring, Wires, PCs, InGet
    <2> QED
      BY <2>1, WiredKept DEF PCs, InGet
  <1>2. CASE ResetConfig(t)
    <2>1. Step(t, "resetConfig", "shutdownCheck") /\ Wires(t, "shutdownCheck")
      BY <1>2, <1>b DEF ResetConfig, wiring, Wires, PCs, InGet
    <2> QED
      BY <2>1, WiredKept DEF PCs, InGet
  <1>6. CASE ShutdownCheck(t)
    <2> DEFINE there == IF client = None THEN "idle" ELSE "shutdownCall"
    <2>1. Step(t, "shutdownCheck", there) /\ Wires(t, there)
      BY <1>6, <1>b DEF ShutdownCheck, wiring, Wires, PCs, InGet
    <2> HIDE DEF there
    <2> QED
      BY <2>1, WiredKept DEF PCs, InGet
  <1>3. CASE ShutdownCall(t)
    <2> DEFINE there == IF client = None THEN "idle" ELSE "shuttingDown"
    <2>1. Step(t, "shutdownCall", there) /\ Wires(t, there)
      BY <1>3, <1>b DEF ShutdownCall, Holds, wiring, Wires, PCs, InGet
    <2> HIDE DEF there
    <2> QED
      BY <2>1, WiredKept DEF PCs, InGet
  <1>4. CASE ShutdownDone(t)
    <2>1. Step(t, "shuttingDown", "clear") /\ Wires(t, "clear")
      BY <1>4, <1>b DEF ShutdownDone, wiring, Wires, PCs, InGet
    <2> QED
      BY <2>1, WiredKept DEF PCs, InGet
  <1>5. CASE Clear(t)
    <2>1. Step(t, "clear", "idle") /\ Wires(t, "idle")
      BY <1>5, <1>b DEF Clear, Holds, wiring, Wires, PCs, InGet
    <2> QED
      BY <2>1, WiredKept DEF PCs, InGet
  <1> QED
    BY <1>1, <1>2, <1>3, <1>4, <1>5, <1>6 DEF Close

LEMMA WiredOfWire ==
    ASSUME LifeInv, Wired, OneInitialiser, UNCHANGED isolation, NEW t \in Inits, Wire(t)
    PROVE  Wired'
  <1>b. blocks' = blocks /\ held \in [Threads -> 0..Len(homes)] /\ t \in Threads
    BY DEF isolation, LifeInv, TypeOK, Threads
  <1>l. Shapes /\ TypeOK
    BY DEF LifeInv
  <1>c. /\ Consistent(Saved) /\ Saved.handlers = handlers
        /\ Saved.hooksInstalled = hooksInstalled /\ Saved.hooks = hooks
        /\ Saved'.handlers = handlers' /\ Saved'.hooksInstalled = hooksInstalled'
        /\ Saved'.hooks = hooks'
    BY DEF Wired, Saved
  <1>u. \A u \in Threads : pc[u] \in WirePCs => u = t
    BY DEF Wired, OneInitialiser
  <1> HIDE DEF Saved
  <1>1. CASE AttachCheck(t)
    <2> DEFINE there == IF handlers = <<>> THEN "attach" ELSE "hooks"
    <2>1. /\ Step(t, "wire", there) /\ held' = held
          /\ UNCHANGED <<handlers, hooksInstalled, hooks>>
      BY <1>1 DEF AttachCheck, NeedsHandler, wiring
    <2>2. /\ pc[t] = "wire"
          /\ \A u \in Threads : pc'[u] = IF u = t THEN there ELSE pc[u]
      BY <2>1, <1>l, <1>b, StepOf DEF PCs, InGet
    <2>3. \A u \in Threads : pc[u] # "hooks"
      BY <2>2, <1>u DEF WirePCs
    <2> QED
      BY <2>1, <2>2, <2>3, <1>b, <1>c, <1>u DEF Wired, Consistent, WirePCs
  <1>2. CASE Attach(t)
    <2>1. /\ Step(t, "attach", "hooks") /\ held' = held
          /\ handlers' = Append(handlers, held[t]) /\ UNCHANGED <<hooksInstalled, hooks>>
      BY <1>2 DEF Attach
    <2>2. /\ pc[t] = "attach"
          /\ \A u \in Threads : pc'[u] = IF u = t THEN "hooks" ELSE pc[u]
      BY <2>1, <1>l, <1>b, StepOf DEF PCs, InGet
    <2>3. handlers = <<>> /\ ~ hooksInstalled
      BY <2>2, <1>b, <1>c, <1>l DEF Wired, Consistent, Shapes
    <2>4. handlers' # <<>> /\ handlers'[1] = held[t] /\ Len(handlers') = 1
      BY <2>1, <2>3
    <2> QED
      BY <2>1, <2>2, <2>3, <2>4, <1>b, <1>c, <1>u DEF Wired, Consistent, WirePCs
  <1>3. CASE InstallHooks(t)
    <2>1. /\ Step(t, "hooks", "idle") /\ hooksInstalled' = TRUE /\ handlers' = handlers
          /\ hooks' = IF hooksInstalled THEN hooks ELSE <<held[t]>> \o hooks
          /\ \A u \in Threads \ {t} : held'[u] = held[u]
      BY <1>3, <1>b DEF InstallHooks, HooksAfter, Holds
    <2>2. /\ pc[t] = "hooks"
          /\ \A u \in Threads : pc'[u] = IF u = t THEN "idle" ELSE pc[u]
      BY <2>1, <1>l, <1>b, StepOf DEF PCs, InGet
    <2>3. handlers # <<>> /\ (~ hooksInstalled => handlers[1] = held[t])
      BY <2>2, <1>b DEF Wired
    <2>4. handlers[1] = Head(hooks')
      <3>1. CASE hooksInstalled
        BY <3>1, <2>1, <1>c DEF Consistent
      <3>2. CASE ~ hooksInstalled
        <4>1. Head(<<held[t]>> \o hooks) = held[t]
          BY <1>l DEF Shapes
        <4> QED
          BY <3>2, <4>1, <2>1, <2>3
      <3> QED
        BY <3>1, <3>2, <1>l DEF Shapes
    <2> QED
      BY <2>1, <2>2, <2>3, <2>4, <1>b, <1>c, <1>u DEF Wired, Consistent, WirePCs
  <1> QED
    BY <1>1, <1>2, <1>3 DEF Wire

LEMMA WiredOfBlock ==
    ASSUME LifeInv, Wired, EnterBlock \/ ExitBlock
    PROVE  Wired'
  <1>1. Quiet /\ pc' = pc
    BY DEF EnterBlock, ExitBlock
  <1>q. \A t \in Threads : pc[t] = "idle"
    BY <1>1 DEF Quiet
  <1>b. blocks \in Seq(Snapshots) /\ Saved \in Snapshots /\ Consistent(Saved)
        /\ (Saved.handlers # <<>> => Saved.hooksInstalled)
    <2>1. Saved.handlers = handlers /\ Saved.hooksInstalled = hooksInstalled
      BY DEF Saved
    <2> HIDE DEF Saved
    <2> QED
      BY <2>1, <1>q, SavedIsSnapshot DEF LifeInv, Shapes, Wired
  <1>2. CASE EnterBlock
    <2>1. /\ blocks' = Append(blocks, Saved)
          /\ Saved'.handlers = <<>> /\ Saved'.hooksInstalled = FALSE
          /\ handlers' = <<>>
      BY <1>2 DEF EnterBlock, HandlersInBlock, Saved
    <2> HIDE DEF Saved, Snapshots
    <2>2. \A k \in 1..Len(blocks') : blocks'[k] = Saved \/ (k \in 1..Len(blocks) /\ blocks'[k] = blocks[k])
      BY <2>1, <1>b
    <2>3. Consistent(Saved')
      BY <2>1 DEF Consistent
    <2> QED
      BY <2>1, <2>2, <2>3, <1>1, <1>q, <1>b DEF Wired, WirePCs
  <1>3. CASE ExitBlock
    <2> DEFINE saved == blocks[Len(blocks)]
    <2>1. /\ blocks # <<>> /\ blocks' = SubSeq(blocks, 1, Len(blocks) - 1)
          /\ handlers' = saved.handlers /\ hooksInstalled' = saved.hooksInstalled
          /\ hooks' = saved.hooks
          /\ Saved'.handlers = saved.handlers /\ Saved'.hooksInstalled = saved.hooksInstalled
          /\ Saved'.hooks = saved.hooks
      BY <1>3 DEF ExitBlock, Saved
    <2>2. /\ Len(blocks') = Len(blocks) - 1 /\ Len(blocks) \in Nat \ {0}
          /\ \A k \in 1..(Len(blocks) - 1) : blocks'[k] = blocks[k]
      BY <2>1, <1>b, WithoutLast, EmptySeq
    <2>3. \A k \in 1..Len(blocks') : k \in 1..Len(blocks) /\ blocks'[k] = blocks[k]
      BY <2>2
    <2>4. Len(blocks) \in 1..Len(blocks)
      BY <2>2
    <2>5. Consistent(saved) /\ (saved.handlers # <<>> => saved.hooksInstalled)
      BY <2>4 DEF Wired
    <2> HIDE DEF saved, Saved
    <2>6. Consistent(Saved')
      BY <2>1, <2>5 DEF Consistent
    <2> QED
      BY <2>1, <2>3, <2>5, <2>6, <1>1, <1>q DEF Wired, WirePCs
  <1> QED
    BY <1>2, <1>3

LEMMA WiredNext == LifeInv /\ Wired /\ OneInitialiser /\ [Next]_vars => Wired'
  <1> SUFFICES ASSUME LifeInv, Wired, OneInitialiser, [Next]_vars PROVE Wired'
    OBVIOUS
  <1>1. ASSUME NEW t \in Threads, Get(t) \/ Close(t), UNCHANGED isolation PROVE Wired'
    BY <1>1, WiredOfGet, WiredOfClose
  <1>2. ASSUME NEW t \in Inits, Wire(t), UNCHANGED isolation PROVE Wired'
    BY <1>2, WiredOfWire
  <1>3. CASE EnterBlock \/ ExitBlock
    BY <1>3, WiredOfBlock
  <1>4. CASE UNCHANGED vars
    BY <1>4 DEF vars, singleton, wiring, isolation, Wired, Saved, Consistent
  <1> QED
    BY <1>1, <1>2, <1>3, <1>4 DEF Next, Threads

\* While init_error_tracking runs in one thread at a time, the root logger has
\* one PosthogErrorsHandler at most and, once the excepthooks are chained, they
\* report to the handler's client: so too after a shutdown and a new client,
\* which is never wired, and inside and after a block, whose handlers and flag
\* are put aside together.
THEOREM WiredTogether == ASSUME OneInitialiser PROVE Spec => []WiredOnce
  <1>1. Wired => WiredOnce
    BY DEF Wired, Consistent, Saved, WiredOnce
  <1>2. Init => Wired
    BY WiredInit
  <1>3. LifeInv /\ Wired /\ [Next]_vars => Wired'
    BY WiredNext
  <1> QED
    BY <1>1, <1>2, <1>3, AlwaysLifeInv, PTL DEF Spec
=============================================================================
