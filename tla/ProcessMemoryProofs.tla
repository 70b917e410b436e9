------------------------ MODULE ProcessMemoryProofs ------------------------
(***************************************************************************)
(* Proofs about ProcessMemory for any memory, any sites and any values.    *)
(* The code is wrong for reads and writes that begin inside an opcode; the *)
(* hypotheses below say for which ranges it is right.                      *)
(***************************************************************************)
EXTENDS ProcessMemory, SequenceTheorems, WellFoundedInduction, TLAPS

(* If lldb writes traps itself, no read and no line of the cache begins     *)
(* inside a breakpoint opcode.  It holds of any reads if the trap is one    *)
(* byte, as on x86, or if the stub places all breakpoints.                  *)
ReadsAligned ==
  "software" \in SiteTypes =>
    \A r \in Reads \union {<<x, LineSize>> : x \in Lines}, a \in SiteAddrs :
      a < r[1] => a + OpcodeSize <= r[1]

(* A write that touches an opcode does not begin inside it, and meets a     *)
(* trap that lldb has written itself.                                       *)
WritesKept ==
  \A r \in Writes, a \in SiteAddrs :
    IntersectsRange(a, r) => a >= r[1] /\ "external" \notin SiteTypes

(* The stub sends no code along with a stop: debugserver sends words of the *)
(* chain of frames (ReadStackMemory in RNBRemote.cpp), lldb-server nothing. *)
ExpeditedApart ==
  "software" \in SiteTypes => \A r \in Expedited, a \in SiteAddrs : ~IntersectsRange(a, r)

---------------------------------------------------------------------------
(* Cache lines *)

(* Division, and the products it leads to.                                  *)
LEMMA DivMod ==
  ASSUME NEW m \in Nat \ {0}, NEW a \in Nat
  PROVE  a = m * (a \div m) + (a % m) /\ a \div m \in Int /\ a % m \in 0 .. m - 1
OBVIOUS

(* A positive multiple of m is at least m.                                  *)
LEMMA Grow ==
  ASSUME NEW m \in Nat \ {0}, NEW k \in Int
  PROVE  (k >= 1 => m * k >= m) /\ (k <= 0 => m * k <= 0)
OBVIOUS

(* Two multiples of m are at least m apart.                                 *)
LEMMA Multiples ==
  ASSUME NEW m \in Nat \ {0}, NEW a \in Nat, NEW b \in Nat, a % m = 0, b % m = 0, a < b
  PROVE  a + m <= b
<1>1. a = m * (a \div m) /\ b = m * (b \div m) /\ a \div m \in Int /\ b \div m \in Int
  BY DivMod
<1>2. PICK p \in Int, q \in Int : a = m * p /\ b = m * q
  BY <1>1
<1>3. b - a = m * (q - p) /\ q - p \in Int
  BY <1>2
<1>4. (q - p >= 1 => m * (q - p) >= m) /\ (q - p <= 0 => m * (q - p) <= 0)
  BY <1>3, Grow
<1> QED BY <1>3, <1>4

(* The multiple of m that y belongs to.                                     *)
LEMMA LineFirst ==
  ASSUME NEW m \in Nat \ {0}, NEW y \in Nat
  PROVE  y - (y % m) \in Nat /\ (y - (y % m)) % m = 0 /\ y - (y % m) <= y /\ y < (y - (y % m)) + m
<1>1. y = m * (y \div m) + (y % m) /\ y \div m \in Int /\ y % m \in 0 .. m - 1
  BY DivMod
<1>2. y - (y % m) = m * (y \div m)
  BY <1>1
<1>3. \A k \in Int : (m * k) % m = 0
  OBVIOUS
<1>4. (y - (y % m)) % m = 0
  BY <1>1, <1>2, <1>3
<1>5. PICK q \in Int, r \in 0 .. m - 1 : y = m * q + r /\ r = y % m
  BY <1>1
<1>6. m * q >= 0
  <2>1. (-q >= 1 => m * (-q) >= m) /\ m * (-q) = -(m * q) /\ (q >= 1 => m * q >= m)
    BY Grow
  <2> QED BY <1>5, <2>1
<1> QED BY <1>4, <1>5, <1>6

---------------------------------------------------------------------------
(* Ranges and sites *)

Site == [type : {"software", "external"}, owners : SUBSET Owners,
         saved : [1 .. OpcodeSize -> Values] \union {<<>>}, enabled : BOOLEAN]

(* The sites of the list, and what their traps hide.                        *)
SiteTypeOK ==
  /\ sites \in [SiteAddrs -> Site]
  /\ \A a \in Placed : /\ sites[a].type \in SiteTypes
                       /\ IsSoftware(a) => sites[a].saved \in [1 .. OpcodeSize -> Values]

(* Whose trap is in memory.                                                 *)
OnTrap(a) == IsSoftware(a) /\ sites[a].enabled

(* Memory has no trap but those of the sites.                               *)
MemoryTypeOK ==
  /\ memory \in [Addr -> Values \union {Trap}] /\ program \in [Addr -> Values]
  /\ SiteTypeOK
  /\ \A x \in Addr : memory[x] = Trap => x \in Trapped

(* Addresses are integers, and sites do not overlap.                        *)
LEMMA SitesApart ==
  /\ SiteAddrs \subseteq Addr /\ Addr \subseteq Int /\ Lines \subseteq Addr
  /\ \A a \in SiteAddrs : SiteBytes(a) = a .. a + OpcodeSize - 1 /\ SiteBytes(a) \subseteq Addr
  /\ \A a, b \in SiteAddrs, x \in Int : x \in SiteBytes(a) /\ x \in SiteBytes(b) => a = b
<1>1. Size \in Nat /\ OpcodeSize \in Nat \ {0} /\ SiteAddrs \subseteq Addr /\ Addr \subseteq Int
  BY ProcessMemoryAssumption DEF Addr
<1>2. \A a \in SiteAddrs : SiteBytes(a) = a .. a + OpcodeSize - 1
  BY <1>1 DEF SiteBytes, Bytes
<1>3. \A a \in SiteAddrs : SiteBytes(a) \subseteq Addr
  BY <1>1, <1>2, ProcessMemoryAssumption DEF Addr
<1>4. ASSUME NEW a \in SiteAddrs, NEW b \in SiteAddrs, NEW x \in Int,
             x \in SiteBytes(a), x \in SiteBytes(b)
      PROVE  a = b
  <2>1. (a < b => a + OpcodeSize <= b) /\ (b < a => b + OpcodeSize <= a)
    BY ProcessMemoryAssumption
  <2> QED BY <1>1, <1>2, <1>4, <2>1
<1> QED BY <1>1, <1>2, <1>3, <1>4 DEF Lines

(* Where the traps of lldb are.                                             *)
LEMMA TrappedMeans ==
  \A x : x \in Trapped <=> \E a \in SiteAddrs : OnTrap(a) /\ x \in SiteBytes(a)
BY DEF Trapped, OnTrap, IsSoftware, Placed

(* Enabling a site that has no trap in its opcode saves program bytes.      *)
LEMMA EnableMeans ==
  ASSUME NEW a \in SiteAddrs, NEW type \in {"software", "external"},
         NEW m \in [Addr -> Values \union {Trap}]
  PROVE  LET e == EnableBreakpointSite(a, type, m)
         IN  /\ e.memory \in [Addr -> Values \union {Trap}]
             /\ type = "external" => e.memory = m /\ e.saved = <<>>
             /\ type = "software" =>
                  /\ \A x \in Addr : e.memory[x] = IF x \in SiteBytes(a) THEN Trap ELSE m[x]
                  /\ e.saved = Slice(m, <<a, OpcodeSize>>)
                  /\ (\A x \in SiteBytes(a) : m[x] \in Values) =>
                       e.saved \in [1 .. OpcodeSize -> Values]
<1>1. /\ a \in Int /\ OpcodeSize \in Nat
      /\ \A i \in 1 .. OpcodeSize : a + i - 1 \in SiteBytes(a)
  BY SitesApart, ProcessMemoryAssumption
<1>2. CASE type = "external"
  BY <1>2 DEF EnableBreakpointSite
<1>3. CASE type = "software"
  BY <1>1, <1>3 DEF EnableBreakpointSite, EnableSoftwareBreakpoint, Slice
<1> QED BY <1>2, <1>3

(* Disabling a site puts back what its trap hid.                            *)
LEMMA DisableMeans ==
  ASSUME SiteTypeOK, NEW a \in SiteAddrs, NEW m \in [Addr -> Values \union {Trap}]
  PROVE  LET d == DisableBreakpointSite(a, m)
         IN  /\ d \in [Addr -> Values \union {Trap}]
             /\ ~OnTrap(a) => d = m
             /\ OnTrap(a) => \A x \in Addr :
                  IF x \in SiteBytes(a) THEN d[x] = sites[a].saved[x - a + 1] /\ d[x] \in Values
                                        ELSE d[x] = m[x]
<1>1. CASE ~OnTrap(a)
  BY <1>1 DEF DisableBreakpointSite, OnTrap
<1>2. CASE OnTrap(a)
  <2>1. a \in Int /\ \A x \in SiteBytes(a) : x - a + 1 \in 1 .. OpcodeSize
    BY SitesApart, ProcessMemoryAssumption
  <2>2. \A i \in 1 .. OpcodeSize : sites[a].saved[i] \in Values
    BY <1>2 DEF SiteTypeOK, IsSoftware, OnTrap
  <2> QED BY <1>2, <2>1, <2>2 DEF DisableBreakpointSite, OnTrap
<1> QED BY <1>1, <1>2

(* The bytes of a site, and their places in its opcode.                     *)
LEMMA Places ==
  ASSUME NEW a \in SiteAddrs
  PROVE  /\ a \in Int /\ OpcodeSize \in Nat
         /\ \A x \in SiteBytes(a) : x \in Addr /\ x \in Int /\ x - a + 1 \in 1 .. OpcodeSize
         /\ \A x \in SiteBytes(a) : a + (x - a + 1) - 1 = x
         /\ \A i \in 1 .. OpcodeSize : a + i - 1 \in SiteBytes(a)
BY SitesApart, ProcessMemoryAssumption

---------------------------------------------------------------------------
(* Sites and memory under every action *)

(* A site keeps what it hides, but for what a step over has written there.  *)
SavedRight(a) ==
  \A x \in SiteBytes(a) :
    sites[a].saved[x - a + 1] = program[x] \/ (~sites[a].enabled /\ x \in hidden)

LEMMA IntactMeans ==
  MemoryIntact <=> /\ \A x \in Addr : memory[x] = IF x \in Trapped THEN Trap ELSE program[x]
                   /\ \A a \in SiteAddrs : IsSoftware(a) => SavedRight(a)
BY DEF MemoryIntact, SavedRight, IsSoftware, Placed

(* A step that changes the site at a and its bytes only.                    *)
LEMMA OneSiteKeeps ==
  ASSUME MemoryTypeOK, NEW a \in SiteAddrs,
         memory' \in [Addr -> Values \union {Trap}], sites' \in [SiteAddrs -> Site],
         program' = program, hidden' = hidden,
         \A b \in SiteAddrs \ {a} : sites'[b] = sites[b],
         \A x \in Addr \ SiteBytes(a) : memory'[x] = memory[x],
         a \in Placed' => sites'[a].type \in SiteTypes,
         IsSoftware(a)' => /\ sites'[a].saved \in [1 .. OpcodeSize -> Values]
                           /\ MemoryIntact => SavedRight(a)',
         OnTrap(a)' /\ MemoryIntact => \A x \in SiteBytes(a) : memory'[x] = Trap,
         ~OnTrap(a)' => \A x \in SiteBytes(a) :
                          memory'[x] # Trap /\ (MemoryIntact => memory'[x] = program[x])
  PROVE  MemoryTypeOK' /\ (MemoryIntact => MemoryIntact')
<1>1. \A b \in SiteAddrs \ {a} : /\ b \in Placed' <=> b \in Placed
                                 /\ IsSoftware(b)' <=> IsSoftware(b)
                                 /\ OnTrap(b)' <=> OnTrap(b)
                                 /\ SavedRight(b)' <=> SavedRight(b)
  BY DEF Placed, IsSoftware, OnTrap, SavedRight
<1>2. SiteTypeOK'
  BY <1>1 DEF MemoryTypeOK, SiteTypeOK, Placed
<1>3. \A x : x \in Trapped' <=> \E b \in SiteAddrs : OnTrap(b)' /\ x \in SiteBytes(b)
  BY DEF Trapped, OnTrap, IsSoftware, Placed
<1>4. ASSUME NEW x \in Addr \ SiteBytes(a) PROVE x \in Trapped' <=> x \in Trapped
  BY <1>1, <1>3, TrappedMeans
<1>5. ASSUME NEW x \in SiteBytes(a) PROVE x \in Trapped' <=> OnTrap(a)'
  <2>1. x \in Int /\ \A b \in SiteAddrs : x \in SiteBytes(b) => b = a
    BY SitesApart
  <2>2. OnTrap(a)' => x \in Trapped'
    BY <1>3
  <2>3. ASSUME x \in Trapped' PROVE OnTrap(a)'
    <3>1. PICK b \in SiteAddrs : OnTrap(b)' /\ x \in SiteBytes(b)
      BY <1>3, <2>3
    <3>2. b = a
      BY <2>1, <3>1
    <3> QED BY <3>1, <3>2
  <2> QED BY <2>2, <2>3
<1>6. MemoryTypeOK'
  BY <1>2, <1>4, <1>5 DEF MemoryTypeOK
<1>7. ASSUME MemoryIntact PROVE MemoryIntact'
  <2>1. ASSUME NEW x \in Addr PROVE memory'[x] = IF x \in Trapped' THEN Trap ELSE program'[x]
    <3>1. CASE x \in SiteBytes(a)
      BY <1>5, <1>7, <3>1
    <3>2. CASE x \notin SiteBytes(a)
      BY <1>4, <1>7, <3>2 DEF MemoryIntact
    <3> QED BY <3>1, <3>2
  <2>2. ASSUME NEW b \in SiteAddrs, IsSoftware(b)' PROVE SavedRight(b)'
    BY <1>1, <1>7, <2>2, IntactMeans
  <2>3. \A b \in Placed' : b \in SiteAddrs
    BY DEF Placed
  <2> QED BY <2>1, <2>2, <2>3 DEF MemoryIntact, SavedRight
<1> QED BY <1>6, <1>7

(* What a site that is in the list holds.                                   *)
LEMMA PlacedMeans ==
  ASSUME MemoryTypeOK, NEW a \in Placed
  PROVE  /\ a \in SiteAddrs /\ sites[a] \in Site /\ sites[a].type \in SiteTypes
         /\ IsSoftware(a) => sites[a].saved \in [1 .. OpcodeSize -> Values]
         /\ \A x \in SiteBytes(a) : x \in Addr /\ (x \in Trapped <=> OnTrap(a))
         /\ \A x \in SiteBytes(a) : ~OnTrap(a) => memory[x] # Trap
         /\ MemoryIntact =>
              /\ \A x \in SiteBytes(a) : memory[x] = IF OnTrap(a) THEN Trap ELSE program[x]
              /\ IsSoftware(a) => SavedRight(a)
<1>1. a \in SiteAddrs
  BY DEF Placed
<1>2. \A x \in SiteBytes(a) : x \in Addr /\ (x \in Trapped <=> OnTrap(a))
  BY <1>1, TrappedMeans, SitesApart
<1> QED BY <1>1, <1>2, IntactMeans DEF MemoryTypeOK, SiteTypeOK

(* An owner that comes or goes and leaves others.                           *)
LEMMA OwnersKeep ==
  ASSUME MemoryTypeOK, NEW a \in Placed, sites' \in [SiteAddrs -> Site],
         \A b \in SiteAddrs \ {a} : sites'[b] = sites[b],
         sites'[a].type = sites[a].type, sites'[a].saved = sites[a].saved,
         sites'[a].enabled = sites[a].enabled, sites'[a].owners # {},
         UNCHANGED <<memory, program, hidden>>
  PROVE  MemoryTypeOK' /\ (MemoryIntact => MemoryIntact')
<1>1. a \in SiteAddrs /\ sites'[a].type \in SiteTypes
  BY PlacedMeans
<1>2. /\ IsSoftware(a)' <=> IsSoftware(a)
      /\ OnTrap(a)' <=> OnTrap(a)
      /\ SavedRight(a)' <=> SavedRight(a)
  BY <1>1 DEF IsSoftware, OnTrap, SavedRight, Placed
<1>3. memory' \in [Addr -> Values \union {Trap}]
  BY DEF MemoryTypeOK
<1> QED BY <1>1, <1>2, <1>3, PlacedMeans, OneSiteKeeps

(* A site is created, or gets another owner.                                *)
LEMMA CreateKeeps ==
  ASSUME MemoryTypeOK, NEW a \in SiteAddrs, NEW o \in Owners, NEW type \in SiteTypes,
         CreateBreakpointSite(o, a, type)
  PROVE  MemoryTypeOK' /\ (MemoryIntact => MemoryIntact')
<1>1. CASE a \in Placed
  <2>1. /\ sites' = [sites EXCEPT ![a].owners = @ \union {o}]
        /\ UNCHANGED <<memory, program, hidden>>
    BY <1>1 DEF CreateBreakpointSite
  <2>2. /\ sites' \in [SiteAddrs -> Site]
        /\ \A b \in SiteAddrs \ {a} : sites'[b] = sites[b]
        /\ sites'[a].type = sites[a].type /\ sites'[a].saved = sites[a].saved
        /\ sites'[a].enabled = sites[a].enabled /\ sites'[a].owners # {}
    BY <2>1 DEF MemoryTypeOK, SiteTypeOK, Site
  <2> QED BY <1>1, <2>1, <2>2, OwnersKeep
<1>2. CASE a \notin Placed
  <2> DEFINE e == EnableBreakpointSite(a, type, memory)
  <2>1. /\ sites' = [sites EXCEPT ![a] = [type |-> type, owners |-> {o}, saved |-> e.saved,
                                          enabled |-> TRUE]]
        /\ memory' = e.memory /\ program' = program /\ hidden' = hidden
    BY <1>2 DEF CreateBreakpointSite
  <2>2. \A x \in SiteBytes(a) : /\ x \in Addr /\ memory[x] \in Values
                                /\ MemoryIntact => memory[x] = program[x]
    <3>1. \A x \in SiteBytes(a) : x \in Addr /\ x \notin Trapped
      BY <1>2, TrappedMeans, SitesApart DEF IsSoftware, OnTrap
    <3> QED BY <3>1 DEF MemoryTypeOK, MemoryIntact
  <2>3. /\ type \in {"software", "external"} /\ memory \in [Addr -> Values \union {Trap}]
    BY ProcessMemoryAssumption DEF MemoryTypeOK
  <2>4. /\ e.memory \in [Addr -> Values \union {Trap}]
        /\ type = "external" => e.memory = memory /\ e.saved = <<>>
        /\ type = "software" =>
             /\ \A x \in Addr : e.memory[x] = IF x \in SiteBytes(a) THEN Trap ELSE memory[x]
             /\ e.saved = Slice(memory, <<a, OpcodeSize>>)
             /\ e.saved \in [1 .. OpcodeSize -> Values]
    BY <2>2, <2>3, EnableMeans
  <2> HIDE DEF e
  <2>5. /\ sites' \in [SiteAddrs -> Site]
        /\ \A b \in SiteAddrs \ {a} : sites'[b] = sites[b]
        /\ sites'[a].type = type /\ sites'[a].saved = e.saved /\ sites'[a].owners = {o}
        /\ sites'[a].enabled = TRUE
    BY <2>1, <2>3, <2>4 DEF MemoryTypeOK, SiteTypeOK, Site
  <2>6. (IsSoftware(a)' <=> type = "software") /\ (OnTrap(a)' <=> type = "software")
    BY <2>5 DEF IsSoftware, OnTrap, Placed
  <2>7. MemoryIntact => \A x \in SiteBytes(a) : Slice(memory, <<a, OpcodeSize>>)[x - a + 1] = program[x]
    BY <2>2, Places DEF Slice
  <2>8. Trap \notin Values
    BY ProcessMemoryAssumption
  <2>9. \A x \in Addr \ SiteBytes(a) : memory'[x] = memory[x]
    BY <2>1, <2>3, <2>4
  <2>10. CASE type = "external"
    <3>1. ~IsSoftware(a)' /\ ~OnTrap(a)' /\ memory' = memory
      BY <2>1, <2>4, <2>6, <2>10
    <3>2. \A x \in SiteBytes(a) : memory'[x] # Trap /\ (MemoryIntact => memory'[x] = program[x])
      BY <2>2, <2>8, <3>1
    <3> QED BY <2>1, <2>3, <2>5, <2>9, <3>1, <3>2, OneSiteKeeps
  <2>11. CASE type = "software"
    <3>1. /\ IsSoftware(a)' /\ OnTrap(a)' /\ sites'[a].saved \in [1 .. OpcodeSize -> Values]
          /\ MemoryIntact => SavedRight(a)'
      BY <2>1, <2>4, <2>5, <2>6, <2>7, <2>11 DEF SavedRight
    <3>2. \A x \in SiteBytes(a) : memory'[x] = Trap
      BY <2>1, <2>2, <2>4, <2>11
    <3>3. memory' \in [Addr -> Values \union {Trap}] /\ sites'[a].type \in SiteTypes
      BY <2>1, <2>4, <2>5
    <3> QED BY <2>1, <2>5, <2>9, <3>1, <3>2, <3>3, OneSiteKeeps
  <2> QED BY <2>3, <2>10, <2>11
<1> QED BY <1>1, <1>2

(* The trap is put in again after a step over.                              *)
LEMMA ReenableKeeps ==
  ASSUME MemoryTypeOK, NEW a \in SiteAddrs, ReenableBreakpointSite(a)
  PROVE  MemoryTypeOK' /\ (MemoryIntact => MemoryIntact')
<1> DEFINE e == EnableBreakpointSite(a, sites[a].type, memory)
<1>1. /\ a \in Placed /\ ~sites[a].enabled
      /\ sites' = [sites EXCEPT ![a].saved = e.saved, ![a].enabled = TRUE]
      /\ memory' = e.memory /\ program' = program /\ hidden' = hidden
  BY DEF ReenableBreakpointSite
<1>2. /\ sites[a] \in Site /\ sites[a].type \in SiteTypes /\ ~OnTrap(a)
      /\ \A x \in SiteBytes(a) : x \in Addr /\ memory[x] # Trap
      /\ MemoryIntact => \A x \in SiteBytes(a) : memory[x] = program[x]
  BY <1>1, PlacedMeans DEF OnTrap
<1>3. /\ sites[a].type \in {"software", "external"} /\ memory \in [Addr -> Values \union {Trap}]
      /\ \A x \in SiteBytes(a) : memory[x] \in Values
  BY <1>2 DEF MemoryTypeOK, Site
<1>4. /\ e.memory \in [Addr -> Values \union {Trap}]
      /\ sites[a].type = "external" => e.memory = memory /\ e.saved = <<>>
      /\ sites[a].type = "software" =>
           /\ \A x \in Addr : e.memory[x] = IF x \in SiteBytes(a) THEN Trap ELSE memory[x]
           /\ e.saved = Slice(memory, <<a, OpcodeSize>>)
           /\ e.saved \in [1 .. OpcodeSize -> Values]
  BY <1>3, EnableMeans
<1> HIDE DEF e
<1>5. /\ sites' \in [SiteAddrs -> Site]
      /\ \A b \in SiteAddrs \ {a} : sites'[b] = sites[b]
      /\ sites'[a].type = sites[a].type /\ sites'[a].saved = e.saved
      /\ sites'[a].owners = sites[a].owners /\ sites'[a].enabled = TRUE
  BY <1>1, <1>2, <1>3, <1>4 DEF MemoryTypeOK, SiteTypeOK, Site
<1>6. /\ IsSoftware(a)' <=> sites[a].type = "software"
      /\ OnTrap(a)' <=> sites[a].type = "software"
  BY <1>1, <1>5 DEF IsSoftware, OnTrap, Placed
<1>7. MemoryIntact => \A x \in SiteBytes(a) : Slice(memory, <<a, OpcodeSize>>)[x - a + 1] = program[x]
  BY <1>2, Places DEF Slice
<1>8. \A x \in Addr \ SiteBytes(a) : memory'[x] = memory[x]
  BY <1>1, <1>3, <1>4
<1>9. CASE sites[a].type = "external"
  <2>1. ~IsSoftware(a)' /\ ~OnTrap(a)' /\ memory' = memory
    BY <1>1, <1>4, <1>6, <1>9
  <2> QED BY <1>1, <1>2, <1>3, <1>5, <1>8, <2>1, OneSiteKeeps
<1>10. CASE sites[a].type = "software"
  <2>1. /\ IsSoftware(a)' /\ OnTrap(a)' /\ sites'[a].saved \in [1 .. OpcodeSize -> Values]
        /\ MemoryIntact => SavedRight(a)'
    BY <1>1, <1>4, <1>5, <1>6, <1>7, <1>10 DEF SavedRight
  <2>2. \A x \in SiteBytes(a) : memory'[x] = Trap
    BY <1>1, <1>2, <1>4, <1>10
  <2>3. memory' \in [Addr -> Values \union {Trap}] /\ sites'[a].type \in SiteTypes
    BY <1>1, <1>2, <1>4, <1>5
  <2> QED BY <1>1, <1>5, <1>8, <2>1, <2>2, <2>3, OneSiteKeeps
<1> QED BY <1>3, <1>9, <1>10

(* The last owner takes the trap out of the memory.                         *)
LEMMA RemoveKeeps ==
  ASSUME MemoryTypeOK, NEW a \in SiteAddrs, NEW o \in Owners,
         RemoveOwnerFromBreakpointSite(o, a)
  PROVE  MemoryTypeOK' /\ (MemoryIntact => MemoryIntact')
<1>1. a \in Placed /\ program' = program /\ hidden' = hidden /\ Trap \notin Values
  BY ProcessMemoryAssumption DEF RemoveOwnerFromBreakpointSite, Placed
<1>2. CASE sites[a].owners # {o}
  <2>1. sites' = [sites EXCEPT ![a].owners = @ \ {o}] /\ memory' = memory
    BY <1>2 DEF RemoveOwnerFromBreakpointSite
  <2>2. /\ sites' \in [SiteAddrs -> Site]
        /\ \A b \in SiteAddrs \ {a} : sites'[b] = sites[b]
        /\ sites'[a].type = sites[a].type /\ sites'[a].saved = sites[a].saved
        /\ sites'[a].enabled = sites[a].enabled /\ sites'[a].owners # {}
    BY <1>2, <2>1 DEF MemoryTypeOK, SiteTypeOK, Site, RemoveOwnerFromBreakpointSite
  <2> QED BY <1>1, <2>1, <2>2, OwnersKeep
<1>3. CASE sites[a].owners = {o}
  <2> DEFINE d == DisableBreakpointSite(a, memory)
  <2>1. sites' = [sites EXCEPT ![a] = NoSite] /\ memory' = d
    BY <1>3 DEF RemoveOwnerFromBreakpointSite
  <2>2. /\ d \in [Addr -> Values \union {Trap}]
        /\ ~OnTrap(a) => d = memory
        /\ OnTrap(a) => \A x \in Addr :
             IF x \in SiteBytes(a) THEN d[x] = sites[a].saved[x - a + 1] /\ d[x] \in Values
                                   ELSE d[x] = memory[x]
    BY DisableMeans DEF MemoryTypeOK
  <2> HIDE DEF d
  <2>3. /\ sites' \in [SiteAddrs -> Site]
        /\ \A b \in SiteAddrs \ {a} : sites'[b] = sites[b]
        /\ sites'[a].owners = {}
    BY <2>1 DEF MemoryTypeOK, SiteTypeOK, Site, NoSite
  <2>4. a \notin Placed' /\ ~IsSoftware(a)' /\ ~OnTrap(a)'
    BY <2>3 DEF IsSoftware, OnTrap, Placed
  <2>5. ASSUME NEW x \in SiteBytes(a) PROVE d[x] # Trap /\ (MemoryIntact => d[x] = program[x])
    <3>1. CASE ~OnTrap(a)
      BY <1>1, <2>2, <3>1, PlacedMeans
    <3>2. CASE OnTrap(a)
      <4>1. x \in Addr /\ d[x] = sites[a].saved[x - a + 1] /\ d[x] \in Values
        BY <1>1, <2>2, <3>2, PlacedMeans
      <4>2. MemoryIntact => sites[a].saved[x - a + 1] = program[x]
        BY <1>1, <3>2, PlacedMeans DEF OnTrap, SavedRight
      <4> QED BY <1>1, <4>1, <4>2
    <3> QED BY <3>1, <3>2
  <2>6. \A x \in Addr \ SiteBytes(a) : memory'[x] = memory[x]
    BY <2>1, <2>2
  <2> QED BY <1>1, <2>1, <2>2, <2>3, <2>4, <2>5, <2>6, OneSiteKeeps
<1> QED BY <1>2, <1>3

(* The program stores a byte outside of the traps.                          *)
LEMMA RunsKeeps ==
  ASSUME MemoryTypeOK, NEW x \in Stores, NEW v \in Values, InferiorRuns(x, v)
  PROVE  MemoryTypeOK' /\ (MemoryIntact => MemoryIntact')
<1>1. /\ x \in Addr /\ x \notin Trapped /\ sites' = sites /\ v # Trap /\ AllEnabled
      /\ memory' = [memory EXCEPT ![x] = v] /\ program' = [program EXCEPT ![x] = v]
  BY ProcessMemoryAssumption DEF InferiorRuns
<1>2. Placed' = Placed /\ Trapped' = Trapped /\ \A a \in SiteAddrs : IsSoftware(a)' <=> IsSoftware(a)
  BY <1>1 DEF Trapped, Placed, IsSoftware
<1>3. SiteTypeOK'
  BY <1>1, <1>2 DEF MemoryTypeOK, SiteTypeOK, Placed
<1>4. MemoryTypeOK'
  BY <1>1, <1>2, <1>3 DEF MemoryTypeOK
<1>5. ASSUME MemoryIntact PROVE MemoryIntact'
  <2>1. \A y \in Addr : memory'[y] = IF y \in Trapped' THEN Trap ELSE program'[y]
    BY <1>1, <1>2, <1>5 DEF MemoryTypeOK, MemoryIntact
  <2>2. ASSUME NEW a \in Placed, IsSoftware(a), NEW y \in SiteBytes(a)
        PROVE  sites[a].saved[y - a + 1] = program'[y]
    <3>1. a \in SiteAddrs /\ sites[a].enabled /\ OnTrap(a) /\ y \in Addr
      BY <1>1, <2>2, PlacedMeans DEF AllEnabled, OnTrap
    <3>2. y \in Trapped
      BY <2>2, <3>1, TrappedMeans
    <3>3. program'[y] = program[y]
      BY <1>1, <3>1, <3>2 DEF MemoryTypeOK
    <3> QED BY <1>5, <2>2, <3>1, <3>3 DEF MemoryIntact
  <2> QED BY <1>1, <1>2, <2>1, <2>2 DEF MemoryIntact, Placed
<1> QED BY <1>4, <1>5

(* A step over a site: its trap is out, and the program may write there.    *)
LEMMA StepOverKeeps ==
  ASSUME MemoryTypeOK, NEW a \in SiteAddrs, NEW x \in Stores, NEW v \in Values, StepOver(a, x, v)
  PROVE  MemoryTypeOK' /\ (MemoryIntact => MemoryIntact')
<1> DEFINE d == DisableBreakpointSite(a, memory)
<1>1. /\ x \in Addr /\ a \in Placed /\ x \notin Trapped \ SiteBytes(a) /\ Trap \notin Values
      /\ \A b \in Placed \ {a} : sites[b].enabled
      /\ memory' = [d EXCEPT ![x] = v] /\ sites' = [sites EXCEPT ![a].enabled = FALSE]
      /\ program' = [program EXCEPT ![x] = v]
  BY ProcessMemoryAssumption DEF StepOver
<1>2. /\ d \in [Addr -> Values \union {Trap}]
      /\ ~OnTrap(a) => d = memory
      /\ OnTrap(a) => \A y \in Addr :
           IF y \in SiteBytes(a) THEN d[y] = sites[a].saved[y - a + 1] /\ d[y] \in Values
                                 ELSE d[y] = memory[y]
  BY DisableMeans DEF MemoryTypeOK
<1> HIDE DEF d
<1>3. ASSUME NEW y \in SiteBytes(a)
      PROVE  y \in Addr /\ d[y] # Trap /\ (MemoryIntact => d[y] = program[y])
  <2>1. CASE ~OnTrap(a)
    BY <1>1, <1>2, <2>1, PlacedMeans
  <2>2. CASE OnTrap(a)
    <3>1. y \in Addr /\ d[y] = sites[a].saved[y - a + 1] /\ d[y] \in Values
      BY <1>1, <1>2, <2>2, PlacedMeans
    <3>2. MemoryIntact => sites[a].saved[y - a + 1] = program[y]
      BY <1>1, <2>2, PlacedMeans DEF OnTrap, SavedRight
    <3> QED BY <1>1, <3>1, <3>2
  <2> QED BY <2>1, <2>2
<1>4. /\ sites' \in [SiteAddrs -> Site]
      /\ \A b \in SiteAddrs \ {a} : sites'[b] = sites[b]
      /\ sites'[a].type = sites[a].type /\ sites'[a].saved = sites[a].saved
      /\ sites'[a].owners = sites[a].owners /\ sites'[a].enabled = FALSE
  BY <1>1 DEF MemoryTypeOK, SiteTypeOK, Site
<1>5. /\ Placed' = Placed /\ \A b \in SiteAddrs : IsSoftware(b)' <=> IsSoftware(b)
      /\ ~OnTrap(a)' /\ \A b \in SiteAddrs \ {a} : OnTrap(b)' <=> OnTrap(b)
  BY <1>4 DEF Placed, IsSoftware, OnTrap
<1>6. \A y : y \in Trapped' <=> \E b \in SiteAddrs : OnTrap(b)' /\ y \in SiteBytes(b)
  BY DEF Trapped, OnTrap, IsSoftware, Placed
<1>7. ASSUME NEW y \in Addr PROVE y \in Trapped' <=> y \in Trapped \ SiteBytes(a)
  <2>1. y \in Int
    BY SitesApart
  <2>2. ASSUME NEW b \in SiteAddrs, OnTrap(b)', y \in SiteBytes(b)
        PROVE  y \in Trapped /\ y \notin SiteBytes(a)
    <3>1. b # a
      BY <1>5, <2>2
    <3> QED BY <1>5, <2>1, <2>2, <3>1, TrappedMeans, SitesApart
  <2>3. ASSUME NEW b \in SiteAddrs, OnTrap(b), y \in SiteBytes(b), y \notin SiteBytes(a)
        PROVE  OnTrap(b)'
    BY <1>5, <2>3
  <2> QED BY <1>6, <2>2, <2>3, TrappedMeans
<1>8. SiteTypeOK'
  BY <1>4, <1>5 DEF MemoryTypeOK, SiteTypeOK, Placed
<1>9. ASSUME NEW y \in Addr PROVE /\ memory'[y] = Trap => y \in Trapped'
                                  /\ MemoryIntact => memory'[y] = IF y \in Trapped' THEN Trap ELSE program'[y]
  <2>1. memory'[y] = IF y = x THEN v ELSE d[y]
    BY <1>1, <1>2
  <2>2. program'[y] = IF y = x THEN v ELSE program[y]
    BY <1>1 DEF MemoryTypeOK
  <2>3. CASE y \in SiteBytes(a)
    BY <1>1, <1>3, <1>7, <2>1, <2>2, <2>3
  <2>4. CASE y \notin SiteBytes(a)
    <3>1. d[y] = memory[y]
      BY <1>2, <2>4
    <3> QED BY <1>1, <1>7, <2>1, <2>2, <2>4, <3>1 DEF MemoryTypeOK, MemoryIntact
  <2> QED BY <2>3, <2>4
<1>10. MemoryTypeOK'
  <2>1. memory' \in [Addr -> Values \union {Trap}] /\ program' \in [Addr -> Values]
    BY <1>1, <1>2 DEF MemoryTypeOK
  <2> QED BY <1>8, <1>9, <2>1 DEF MemoryTypeOK
<1>11. ASSUME MemoryIntact, NEW b \in Placed, IsSoftware(b), NEW y \in SiteBytes(b)
       PROVE  \/ sites'[b].saved[y - b + 1] = program'[y]
              \/ ~sites'[b].enabled /\ y \in hidden'
  <2>1. b \in SiteAddrs /\ y \in Addr /\ y \in Int /\ SavedRight(b)
    BY <1>11, PlacedMeans, SitesApart
  <2>2. program'[y] = IF y = x THEN v ELSE program[y]
    BY <1>1, <2>1 DEF MemoryTypeOK
  <2>3. CASE b = a
    <3>1. hidden' = (IF sites[a].enabled THEN {} ELSE hidden) \union (SiteBytes(a) \intersect {x})
      BY DEF StepOver
    <3> QED BY <1>4, <1>11, <2>1, <2>2, <2>3, <3>1 DEF SavedRight
  <2>4. CASE b # a
    <3>1. sites[b].enabled /\ OnTrap(b) /\ y \in Trapped /\ y \notin SiteBytes(a)
      BY <1>1, <1>11, <2>1, <2>4, TrappedMeans, SitesApart DEF OnTrap
    <3>2. sites'[b] = sites[b] /\ y # x
      BY <1>1, <1>4, <2>1, <2>4, <3>1
    <3> QED BY <1>11, <2>1, <2>2, <3>1, <3>2 DEF SavedRight
  <2> QED BY <2>3, <2>4
<1>12. MemoryIntact => MemoryIntact'
  <2>1. \A b \in SiteAddrs : b \in Placed => b \in Placed'
    BY <1>5
  <2> QED BY <1>5, <1>9, <1>11 DEF MemoryIntact, Placed
<1> QED BY <1>10, <1>12

(* FindInRange finds no site that is not there, and every one that has a    *)
(* byte in a range that does not begin inside it.                           *)
LEMMA FindMeans ==
  ASSUME NEW r \in Reads \union Writes \union {<<x, LineSize>> : x \in Lines}
  PROVE  /\ r[1] \in Addr /\ r[1] \in Int /\ r[2] \in Nat /\ Bytes(r) = r[1] .. r[1] + r[2] - 1
         /\ Bytes(r) \subseteq Addr
         /\ FindInRange(r) \subseteq Placed
         /\ \A a \in Placed : a >= r[1] /\ IntersectsRange(a, r) => a \in FindInRange(r)
<1>1. Addr \subseteq Int /\ Size \in Nat /\ LineSize \in Nat \ {0} /\ OpcodeSize \in Nat \ {0}
  BY ProcessMemoryAssumption DEF Addr
<1>2. r[1] \in Addr /\ r[1] \in Int /\ r[2] \in Nat /\ r[1] + r[2] <= Size
  <2>1. CASE r \in Reads \union Writes
    BY <1>1, <2>1, ProcessMemoryAssumption
  <2>2. CASE r \in {<<x, LineSize>> : x \in Lines}
    <3>1. PICK x \in Lines : r = <<x, LineSize>>
      BY <2>2
    <3>2. x \in Nat /\ x < Size /\ x % LineSize = 0 /\ Size % LineSize = 0
      BY <1>1, ProcessMemoryAssumption DEF Lines, Addr
    <3>3. x + LineSize <= Size
      BY <1>1, <3>2, Multiples
    <3> QED BY <1>1, <3>1, <3>2, <3>3 DEF Addr
  <2> QED BY <2>1, <2>2
<1>3. Bytes(r) = r[1] .. r[1] + r[2] - 1 /\ Bytes(r) \subseteq Addr
  BY <1>1, <1>2 DEF Bytes, Addr
<1>4. FindInRange(r) \subseteq Placed
  BY DEF FindInRange
<1>5. ASSUME NEW a \in Placed, a >= r[1], IntersectsRange(a, r) PROVE a \in FindInRange(r)
  <2>1. a \in Int /\ SiteBytes(a) = a .. a + OpcodeSize - 1
    BY <1>1, SitesApart DEF Placed
  <2>2. PICK x \in SiteBytes(a) : x \in Bytes(r)
    BY <1>5 DEF IntersectsRange
  <2>3. a < r[1] + r[2]
    BY <1>1, <1>2, <1>3, <2>1, <2>2
  <2> QED BY <1>1, <1>2, <1>5, <2>1, <2>3 DEF FindInRange
<1> QED BY <1>2, <1>3, <1>4, <1>5

(* The bytes of a write go to memory, or to the opcodes that the traps      *)
(* hide.                                                                    *)
LEMMA WriteKeeps ==
  ASSUME MemoryTypeOK, NEW r \in Writes, NEW u \in Values, NEW v \in Values,
         WriteMemory(r, Data(r, u, v))
  PROVE  MemoryTypeOK' /\ (WritesKept /\ MemoryIntact => MemoryIntact')
<1> DEFINE data == Data(r, u, v)
           found == FindInRange(r)
           byte(x) == data[x - r[1] + 1]
           covered == UNION {SiteBytes(a) : a \in found}
           saved(a) == [i \in 1 .. OpcodeSize |->
                          IF a + i - 1 \in Bytes(r) THEN byte(a + i - 1) ELSE sites[a].saved[i]]
<1>1. /\ r[1] \in Addr /\ r[1] \in Int /\ r[2] \in Nat /\ Bytes(r) = r[1] .. r[1] + r[2] - 1
      /\ Bytes(r) \subseteq Addr
      /\ found \subseteq Placed
      /\ \A a \in Placed : a >= r[1] /\ IntersectsRange(a, r) => a \in found
      /\ Addr \subseteq Int /\ Trap \notin Values
  BY FindMeans, SitesApart, ProcessMemoryAssumption
<1>2. \A x \in Bytes(r) : byte(x) \in Values
  <2>1. \A i \in 1 .. r[2] : data[i] \in Values
    BY <1>1 DEF Data
  <2> HIDE DEF data
  <2>2. \A x \in Bytes(r) : x - r[1] + 1 \in 1 .. r[2]
    BY <1>1
  <2> QED BY <2>1, <2>2
<1>3. /\ AllEnabled /\ \A a \in found : IntersectsRange(a, r)
      /\ memory' = [x \in Addr |-> IF x \in Bytes(r) \ covered THEN byte(x) ELSE memory[x]]
      /\ sites' = [a \in SiteAddrs |->
                     IF a \notin found \/ ~IsSoftware(a) THEN sites[a]
                     ELSE [sites[a] EXCEPT !.saved = saved(a)]]
      /\ program' = [x \in Addr |-> IF x \in Bytes(r) THEN byte(x) ELSE program[x]]
  BY DEF WriteMemory
<1> HIDE DEF data, found
<1>4. ASSUME NEW a \in SiteAddrs, a \in found, IsSoftware(a)
      PROVE  saved(a) \in [1 .. OpcodeSize -> Values]
  <2>1. sites[a].saved \in [1 .. OpcodeSize -> Values]
    BY <1>4 DEF MemoryTypeOK, SiteTypeOK, IsSoftware
  <2> QED BY <1>2, <2>1
<1> HIDE DEF byte
<1>5. \A a \in SiteAddrs :
        /\ sites'[a] \in Site
        /\ sites'[a].type = sites[a].type /\ sites'[a].owners = sites[a].owners
        /\ sites'[a].enabled = sites[a].enabled
        /\ sites'[a].saved = IF a \in found /\ IsSoftware(a) THEN saved(a) ELSE sites[a].saved
  <2> SUFFICES ASSUME NEW a \in SiteAddrs
               PROVE  /\ sites'[a] \in Site
                      /\ sites'[a].type = sites[a].type /\ sites'[a].owners = sites[a].owners
                      /\ sites'[a].enabled = sites[a].enabled
        /\ sites'[a].enabled = sites[a].enabled
                      /\ sites'[a].saved = IF a \in found /\ IsSoftware(a) THEN saved(a)
                                                                           ELSE sites[a].saved
    OBVIOUS
  <2>1. sites[a] \in Site
    BY DEF MemoryTypeOK, SiteTypeOK
  <2>2. CASE a \in found /\ IsSoftware(a)
    <3>1. sites'[a] = [sites[a] EXCEPT !.saved = saved(a)]
      BY <1>3, <2>2
    <3>2. saved(a) \in [1 .. OpcodeSize -> Values]
      BY <1>4, <2>2
    <3> HIDE DEF saved
    <3> QED BY <2>1, <2>2, <3>1, <3>2 DEF Site
  <2>3. CASE ~(a \in found /\ IsSoftware(a))
    BY <1>3, <2>1, <2>3
  <2> QED BY <2>2, <2>3
<1>6. /\ Placed' = Placed
      /\ \A a \in SiteAddrs : (IsSoftware(a)' <=> IsSoftware(a)) /\ (OnTrap(a)' <=> OnTrap(a))
  BY <1>5 DEF Placed, IsSoftware, OnTrap
<1>7. Trapped' = Trapped
  <2>1. \A x : x \in Trapped' <=> \E b \in SiteAddrs : OnTrap(b)' /\ x \in SiteBytes(b)
    BY DEF Trapped, OnTrap, IsSoftware, Placed
  <2> QED BY <1>6, <2>1, TrappedMeans
<1>8. SiteTypeOK'
  <2>1. sites' \in [SiteAddrs -> Site]
    BY <1>3, <1>5
  <2>2. ASSUME NEW a \in Placed
        PROVE  /\ sites'[a].type \in SiteTypes
               /\ IsSoftware(a) => sites'[a].saved \in [1 .. OpcodeSize -> Values]
    <3>1. /\ a \in SiteAddrs /\ sites[a].type \in SiteTypes
          /\ IsSoftware(a) => sites[a].saved \in [1 .. OpcodeSize -> Values]
      BY DEF MemoryTypeOK, SiteTypeOK, Placed
    <3> HIDE DEF saved
    <3> QED BY <1>4, <1>5, <3>1
  <2> QED BY <1>6, <2>1, <2>2 DEF SiteTypeOK, Placed
<1>9. MemoryTypeOK'
  BY <1>1, <1>2, <1>3, <1>7, <1>8 DEF MemoryTypeOK
<1>10. ASSUME WritesKept, MemoryIntact PROVE MemoryIntact'
  <2>1. \A a \in found : a \in SiteAddrs /\ OnTrap(a) /\ IsSoftware(a)
    <3> SUFFICES ASSUME NEW a \in found PROVE a \in SiteAddrs /\ OnTrap(a) /\ IsSoftware(a)
      OBVIOUS
    <3>1. a \in Placed /\ a \in SiteAddrs /\ IntersectsRange(a, r) /\ sites[a].enabled
      BY <1>1, <1>3 DEF Placed, AllEnabled
    <3>2. "external" \notin SiteTypes
      BY <1>10, <3>1 DEF WritesKept
    <3> QED BY <3>1, <3>2, ProcessMemoryAssumption DEF MemoryTypeOK, SiteTypeOK, IsSoftware, OnTrap
  <2>2. ASSUME NEW a \in SiteAddrs, IsSoftware(a), NEW x \in SiteBytes(a), x \in Bytes(r)
        PROVE  a \in found
    <3>1. IntersectsRange(a, r) /\ a \in Placed
      BY <2>2 DEF IntersectsRange, IsSoftware
    <3> QED BY <1>1, <1>10, <3>1 DEF WritesKept
  <2>3. ASSUME NEW x \in Addr PROVE memory'[x] = IF x \in Trapped THEN Trap ELSE program'[x]
    <3>1. x \in Bytes(r) => (x \in Trapped <=> x \in covered)
      BY <2>1, <2>2, TrappedMeans DEF OnTrap
    <3> QED BY <1>3, <1>10, <3>1 DEF MemoryIntact
  <2>4. ASSUME NEW a \in SiteAddrs, IsSoftware(a), NEW x \in SiteBytes(a)
        PROVE  sites'[a].saved[x - a + 1] = program'[x]
    <3>1. a \in Placed /\ sites[a].enabled
      BY <1>3, <2>4 DEF IsSoftware, AllEnabled
    <3>2. sites[a].saved[x - a + 1] = program[x]
      BY <1>10, <2>4, <3>1 DEF MemoryIntact
    <3>3. x \in Addr /\ x - a + 1 \in 1 .. OpcodeSize /\ a + (x - a + 1) - 1 = x
      BY Places
    <3>4. CASE a \in found
      <4>1. saved(a)[x - a + 1] = program'[x]
        BY <1>3, <3>2, <3>3
      <4> HIDE DEF saved
      <4> QED BY <1>5, <2>4, <3>4, <4>1
    <3>5. CASE a \notin found
      <4>1. program'[x] = program[x]
        BY <1>3, <2>2, <2>4, <3>3, <3>5
      <4> HIDE DEF saved
      <4> QED BY <1>5, <3>2, <3>5, <4>1
    <3> QED BY <3>4, <3>5
  <2> QED BY <1>6, <1>7, <2>3, <2>4 DEF MemoryIntact, Placed
<1> QED BY <1>9, <1>10

(* Reads leave memory and sites alone.                                      *)
LEMMA SameKeeps ==
  ASSUME MemoryTypeOK, UNCHANGED <<memory, sites, program, hidden>>
  PROVE  MemoryTypeOK' /\ (MemoryIntact => MemoryIntact')
<1>1. /\ Placed' = Placed /\ Trapped' = Trapped
      /\ \A a \in SiteAddrs : IsSoftware(a)' <=> IsSoftware(a)
  BY DEF Trapped, Placed, IsSoftware
<1>2. SiteTypeOK'
  BY <1>1 DEF MemoryTypeOK, SiteTypeOK, Placed
<1>3. MemoryTypeOK'
  BY <1>1, <1>2 DEF MemoryTypeOK
<1>4. MemoryIntact => MemoryIntact'
  BY <1>1 DEF MemoryIntact, Placed
<1> QED BY <1>3, <1>4

(* No site has been placed yet.                                             *)
LEMMA MemoryInit == Init => MemoryTypeOK /\ MemoryIntact
<1> SUFFICES ASSUME Init PROVE MemoryTypeOK /\ MemoryIntact
  OBVIOUS
<1>1. /\ program \in [Addr -> Values] /\ memory = program
      /\ sites = [a \in SiteAddrs |-> NoSite] /\ Trap \notin Values
  BY ProcessMemoryAssumption DEF Init
<1>2. NoSite \in Site /\ NoSite.owners = {}
  BY DEF NoSite, Site
<1>3. sites \in [SiteAddrs -> Site] /\ Placed = {} /\ Trapped = {}
  BY <1>1, <1>2 DEF Placed, Trapped
<1> QED BY <1>1, <1>3 DEF MemoryTypeOK, SiteTypeOK, MemoryIntact

(* Every step keeps the types and the memory.                               *)
LEMMA MemoryStep ==
  ASSUME MemoryTypeOK, [Next]_vars
  PROVE  MemoryTypeOK' /\ (WritesKept /\ MemoryIntact => MemoryIntact')
<1>1. CASE \E a \in SiteAddrs, o \in Owners, type \in SiteTypes : CreateBreakpointSite(o, a, type)
  BY <1>1, CreateKeeps
<1>2. CASE \E a \in SiteAddrs, o \in Owners : RemoveOwnerFromBreakpointSite(o, a)
  BY <1>2, RemoveKeeps
<1>3. CASE \E r \in Reads : ReadMemory(r)
  BY <1>3, SameKeeps DEF ReadMemory
<1>4. CASE \E r \in Writes, u, v \in Values : WriteMemory(r, Data(r, u, v))
  BY <1>4, WriteKeeps
<1>5. CASE \E r \in Expedited : AddL1CacheData(r)
  BY <1>5, SameKeeps DEF AddL1CacheData
<1>6. CASE \E x \in Stores, v \in Values : InferiorRuns(x, v)
  BY <1>6, RunsKeeps
<1>7. CASE \E x \in Stores, v \in Values, a \in SiteAddrs : StepOver(a, x, v)
  BY <1>7, StepOverKeeps
<1>8. CASE \E a \in SiteAddrs : ReenableBreakpointSite(a)
  BY <1>8, ReenableKeeps
<1>9. CASE UNCHANGED vars
  BY <1>9, SameKeeps DEF vars
<1> QED BY <1>1, <1>2, <1>3, <1>4, <1>5, <1>6, <1>7, <1>8, <1>9 DEF Next

(* Whatever the sites, their owners and the program's stores: memory has a  *)
(* trap exactly where an enabled software site is, and every site keeps the *)
(* bytes its trap hides (EnableSoftwareBreakpoint,                          *)
(* DisableSoftwareBreakpoint, WriteMemory), if no write begins inside an    *)
(* opcode or meets a site of the stub.                                      *)
THEOREM MemoryStaysIntact ==
  ASSUME WritesKept PROVE Spec => []MemoryIntact
<1>1. Init => MemoryTypeOK /\ MemoryIntact
  BY MemoryInit
<1>2. MemoryTypeOK /\ MemoryIntact /\ [Next]_vars => MemoryTypeOK' /\ MemoryIntact'
  BY MemoryStep
<1> QED BY <1>1, <1>2, PTL DEF Spec

---------------------------------------------------------------------------
(* Reads *)

(* What a read returned is the program's, but for what a step over wrote    *)
(* into an opcode.                                                          *)
Agrees(f, r) == \A i \in 1 .. r[2] : f[i] = program[r[1] + i - 1] \/ r[1] + i - 1 \in hidden

(* A read of the inferior has no trap, and shows the program.               *)
LEMMA ReadTyped ==
  ASSUME MemoryTypeOK, ReadsAligned, NEW r \in Reads \union {<<x, LineSize>> : x \in Lines}
  PROVE  /\ ReadMemoryFromInferior(r) \in [1 .. r[2] -> Values]
         /\ MemoryIntact => Agrees(ReadMemoryFromInferior(r), r)
<1>1. /\ r[1] \in Int /\ r[2] \in Nat /\ Bytes(r) = r[1] .. r[1] + r[2] - 1
      /\ Bytes(r) \subseteq Addr /\ Addr \subseteq Int
      /\ FindInRange(r) \subseteq Placed
      /\ \A a \in Placed : a >= r[1] /\ IntersectsRange(a, r) => a \in FindInRange(r)
  BY FindMeans, SitesApart
<1> DEFINE over(x) == {a \in FindInRange(r) : IsSoftware(a) /\ x \in SiteBytes(a)}
           shown(x) == IF over(x) = {} THEN memory[x]
                                       ELSE LET a == Min(over(x)) IN sites[a].saved[x - a + 1]
<1>2. ReadMemoryFromInferior(r) = [i \in 1 .. r[2] |-> shown(r[1] + i - 1)]
  BY DEF ReadMemoryFromInferior, RemoveBreakpointOpcodes
<1>3. ASSUME NEW x \in Bytes(r)
      PROVE  shown(x) \in Values /\ (MemoryIntact => shown(x) = program[x] \/ x \in hidden)
  <2>1. x \in Addr /\ x \in Int
    BY <1>1
  <2>2. CASE over(x) = {}
    <3>1. x \notin Trapped
      <4> SUFFICES ASSUME NEW a \in SiteAddrs, OnTrap(a), x \in SiteBytes(a) PROVE FALSE
        BY TrappedMeans
      <4>1. a \in Int /\ OpcodeSize \in Nat /\ SiteBytes(a) = a .. a + OpcodeSize - 1
            /\ a \in Placed /\ IsSoftware(a)
        BY SitesApart, ProcessMemoryAssumption DEF IsSoftware, OnTrap
      <4>2. "software" \in SiteTypes
        BY <4>1 DEF MemoryTypeOK, SiteTypeOK, IsSoftware
      <4>3. a < r[1] => a + OpcodeSize <= r[1]
        BY <4>2 DEF ReadsAligned
      <4>4. a >= r[1]
        BY <1>1, <2>1, <4>1, <4>3
      <4>5. a \in FindInRange(r)
        BY <1>1, <4>1, <4>4 DEF IntersectsRange
      <4> QED BY <2>2, <4>1, <4>5
    <3> QED BY <2>1, <2>2, <3>1 DEF MemoryTypeOK, MemoryIntact
  <2>3. CASE over(x) # {}
    <3>1. PICK a \in FindInRange(r) : IsSoftware(a) /\ x \in SiteBytes(a)
      BY <2>3
    <3>2. a \in Placed /\ a \in SiteAddrs /\ a \in Int
      BY <1>1, SitesApart DEF Placed
    <3>3. over(x) = {a}
      <4>1. a \in over(x)
        BY <3>1
      <4>2. ASSUME NEW b \in over(x) PROVE b = a
        <5>1. b \in SiteAddrs /\ x \in SiteBytes(b)
          BY <1>1 DEF Placed
        <5> QED BY <2>1, <3>1, <3>2, <5>1, SitesApart
      <4> QED BY <4>1, <4>2
    <3>4. Min({a}) = a
      BY <3>2 DEF Min
    <3>5. shown(x) = sites[a].saved[x - a + 1]
      BY <3>3, <3>4
    <3>6. x - a + 1 \in 1 .. OpcodeSize
      BY <3>1, <3>2, Places
    <3>7. sites[a].saved \in [1 .. OpcodeSize -> Values]
      BY <3>1, <3>2, PlacedMeans
    <3>8. MemoryIntact => sites[a].saved[x - a + 1] = program[x] \/ x \in hidden
      BY <3>1, <3>2, PlacedMeans DEF SavedRight
    <3> QED BY <3>5, <3>6, <3>7, <3>8
  <2> QED BY <2>2, <2>3
<1> HIDE DEF shown
<1>4. \A i \in 1 .. r[2] : r[1] + i - 1 \in Bytes(r)
  BY <1>1
<1> QED BY <1>2, <1>3, <1>4 DEF Agrees

---------------------------------------------------------------------------
(* The caches *)

(* A set of naturals has a first element, and a last one if it is bounded.  *)
LEMMA MinMember ==
  ASSUME NEW T, T \subseteq Nat, T # {}
  PROVE  Min(T) \in T /\ \A y \in T : Min(T) <= y
<1>1. PICK x \in T : \A y \in T : ~(<<y, x>> \in OpToRel(<, Nat))
  BY NatLessThanWellFounded, WFMin
<1>2. \A y \in T : x <= y
  <2> SUFFICES ASSUME NEW y \in T, y < x PROVE FALSE
    OBVIOUS
  <2>1. <<y, x>> \in OpToRel(<, Nat)
    BY DEF OpToRel
  <2> QED BY <1>1, <2>1
<1> QED BY <1>2 DEF Min

(* A bounded nonempty set of naturals has a greatest member.                *)
LEMMA MaxMember ==
  ASSUME NEW T, T \subseteq Nat, T # {}, NEW n \in Nat, \A y \in T : y <= n
  PROVE  Max(T) \in T /\ \A y \in T : Max(T) >= y
<1> DEFINE S == {n - y : y \in T}
<1>1. S \subseteq Nat /\ S # {}
  <2>1. \A y \in T : n - y \in Nat
    OBVIOUS
  <2>2. PICK y \in T : n - y \in S
    OBVIOUS
  <2> QED BY <2>1, <2>2
<1>2. PICK m \in S : \A y \in S : m <= y
  BY <1>1, MinMember
<1>3. PICK x \in T : m = n - x
  BY <1>2
<1>4. \A y \in T : x >= y
  BY <1>2, <1>3
<1> QED BY <1>4 DEF Max

(* What may be in the caches.                                               *)
CacheTypeOK ==
  /\ l1 \in [Addr -> Seq(Values)] /\ \A b \in Addr : b + Len(l1[b]) <= Size
  /\ l2 \in [Lines -> [1 .. LineSize -> Values] \union {<<>>}]
  /\ hidden \subseteq Addr /\ missed \subseteq Addr

(* A line that is in a cache shows the program, and so does a chunk that no *)
(* flush has missed.                                                        *)
CacheShows ==
  /\ \A b \in Chunks \ missed : Agrees(l1[b], ChunkRange(b))
  /\ \A x \in Lines : l2[x] # <<>> => Agrees(l2[x], <<x, LineSize>>)

(* The line of a byte of memory is a line.                                  *)
LEMMA LineMeans ==
  ASSUME NEW x \in Addr
  PROVE  LineOf(x) \in Lines /\ LineOf(x) \in Nat /\ LineOf(x) <= x /\ x < LineOf(x) + LineSize
<1>1. x \in Nat /\ x < Size /\ Size \in Nat /\ LineSize \in Nat \ {0}
  BY ProcessMemoryAssumption DEF Addr
<1>2. /\ LineOf(x) \in Nat /\ LineOf(x) % LineSize = 0
      /\ LineOf(x) <= x /\ x < LineOf(x) + LineSize
  BY <1>1, LineFirst DEF LineOf
<1> QED BY <1>1, <1>2 DEF Lines, Addr

(* A line that a read goes through.                                         *)
LEMMA LineTyped ==
  ASSUME MemoryTypeOK, CacheTypeOK, ReadsAligned, NEW x \in Lines
  PROVE  /\ Line(x) \in [1 .. LineSize -> Values]
         /\ MemoryIntact /\ CacheShows => Agrees(Line(x), <<x, LineSize>>)
<1>1. /\ ReadMemoryFromInferior(<<x, LineSize>>) \in [1 .. LineSize -> Values]
      /\ MemoryIntact => Agrees(ReadMemoryFromInferior(<<x, LineSize>>), <<x, LineSize>>)
  <2> DEFINE r == <<x, LineSize>>
  <2>1. r \in Reads \union {<<y, LineSize>> : y \in Lines} /\ r[2] = LineSize
    OBVIOUS
  <2> HIDE DEF r
  <2>2. /\ ReadMemoryFromInferior(r) \in [1 .. r[2] -> Values]
        /\ MemoryIntact => Agrees(ReadMemoryFromInferior(r), r)
    BY <2>1, ReadTyped
  <2> QED BY <2>1, <2>2 DEF r
<1>2. l2[x] \in [1 .. LineSize -> Values] \union {<<>>}
  BY DEF CacheTypeOK
<1> QED BY <1>1, <1>2 DEF Line, CacheShows

(* Sequences of the caches.                                                 *)
LEMMA Sequence ==
  /\ <<>> \in Seq(Values) /\ Len(<<>>) = 0
  /\ \A n \in Nat : \A f \in [1 .. n -> Values] : f \in Seq(Values) /\ Len(f) = n
BY SeqDef

(* A range that is read, written or sent along with a stop.                 *)
LEMMA RangeMeans ==
  ASSUME NEW r \in Reads \union Writes \union Expedited
  PROVE  /\ r[1] \in Addr /\ r[1] \in Nat /\ r[2] \in Nat \ {0} /\ r[1] + r[2] <= Size
         /\ Bytes(r) = r[1] .. r[1] + r[2] - 1 /\ Bytes(r) \subseteq Addr
         /\ \A i \in 1 .. r[2] : r[1] + i - 1 \in Bytes(r)
<1>1. r[1] \in Addr /\ r[2] \in Nat \ {0} /\ r[1] + r[2] <= Size /\ Size \in Nat
  BY ProcessMemoryAssumption
<1> QED BY <1>1 DEF Addr, Bytes

(* What the stub sends has no trap in it.                                   *)
LEMMA ExpeditedMeans ==
  ASSUME MemoryTypeOK, ExpeditedApart, NEW r \in Expedited
  PROVE  /\ Slice(memory, r) \in [1 .. r[2] -> Values]
         /\ MemoryIntact => Agrees(Slice(memory, r), r)
<1>1. ASSUME NEW x \in Bytes(r) PROVE x \notin Trapped
  <2> SUFFICES ASSUME NEW a \in SiteAddrs, OnTrap(a), x \in SiteBytes(a) PROVE FALSE
    BY TrappedMeans
  <2>1. "software" \in SiteTypes
    BY DEF MemoryTypeOK, SiteTypeOK, IsSoftware, OnTrap
  <2> QED BY <1>1, <2>1 DEF ExpeditedApart, IntersectsRange
<1>2. \A x \in Bytes(r) : x \in Addr /\ memory[x] \in Values /\ (MemoryIntact => memory[x] = program[x])
  BY <1>1, RangeMeans DEF MemoryTypeOK, MemoryIntact
<1> QED BY <1>2, RangeMeans DEF Slice, Agrees

(* No flush and no read puts a trap into a cache.                           *)
LEMMA CacheTyped ==
  ASSUME MemoryTypeOK, CacheTypeOK, ReadsAligned, ExpeditedApart, [Next]_vars
  PROVE  CacheTypeOK'
<1> USE DEF CacheTypeOK
<1>1. CASE UNCHANGED <<l1, l2, hidden, missed>>
  BY <1>1
<1>2. ASSUME NEW r, r[1] \in Addr, r[2] \in Nat, r[1] + r[2] <= Size,
             NEW f \in [1 .. r[2] -> Values],
             l1' = [l1 EXCEPT ![r[1]] = f], missed' = missed \ {r[1]},
             UNCHANGED <<l2, hidden>>
      PROVE  CacheTypeOK'
  <2>1. f \in Seq(Values) /\ Len(f) = r[2]
    BY <1>2, Sequence
  <2> QED BY <1>2, <2>1
<1>3. ASSUME NEW r \in Reads, ReadMemory(r) PROVE CacheTypeOK'
  <2>1. CASE r[2] > LineSize
    <3>1. /\ l1' = [l1 EXCEPT ![r[1]] = ReadMemoryFromInferior(r)]
          /\ missed' = missed \ {r[1]} /\ UNCHANGED <<l2, hidden>>
      BY <1>3, <2>1 DEF ReadMemory
    <3> QED BY <1>2, <3>1, ReadTyped, RangeMeans
  <2>2. CASE ~(r[2] > LineSize)
    <3>1. /\ l2' = [x \in Lines |-> IF x \in LinesOf(r) THEN Line(x) ELSE l2[x]]
          /\ UNCHANGED <<l1, hidden, missed>>
      BY <1>3, <2>2 DEF ReadMemory
    <3>2. \A x \in Lines : Line(x) \in [1 .. LineSize -> Values]
      BY LineTyped
    <3> QED BY <3>1, <3>2
  <2> QED BY <2>1, <2>2
<1>4. ASSUME NEW r \in Expedited, AddL1CacheData(r) PROVE CacheTypeOK'
  BY <1>2, <1>4, ExpeditedMeans, RangeMeans DEF AddL1CacheData
<1>5. ASSUME NEW r \in Writes, Flush(r), hidden' = hidden \ Bytes(r) PROVE CacheTypeOK'
  <2>1. /\ l1' = [x \in Addr |-> IF x \in FlushedChunks(r) THEN <<>> ELSE l1[x]]
        /\ l2' = [x \in Lines |-> IF x \in FlushedLines(r) THEN <<>> ELSE l2[x]]
        /\ missed' \subseteq Addr /\ hidden' \subseteq Addr
    BY <1>5 DEF Flush, MissedChunks, Chunks
  <2>2. \A b \in Addr : b \in Nat /\ b < Size
    BY ProcessMemoryAssumption DEF Addr
  <2> QED BY <2>1, <2>2, Sequence, ProcessMemoryAssumption
<1>6. ASSUME Clear, hidden' \subseteq Addr PROVE CacheTypeOK'
  <2>1. \A b \in Addr : b \in Nat /\ b < Size
    BY ProcessMemoryAssumption DEF Addr
  <2> QED BY <1>6, <2>1, Sequence, ProcessMemoryAssumption DEF Clear
<1>7. ASSUME NEW x \in Stores, NEW v \in Values, NEW a \in SiteAddrs, StepOver(a, x, v)
      PROVE  Clear /\ hidden' \subseteq Addr
  BY <1>7, ProcessMemoryAssumption DEF StepOver
<1>8. ASSUME NEW x \in Stores, NEW v \in Values, InferiorRuns(x, v) PROVE Clear /\ hidden' \subseteq Addr
  BY <1>8 DEF InferiorRuns
<1> QED BY <1>1, <1>3, <1>4, <1>5, <1>6, <1>7, <1>8
     DEF Next, vars, CreateBreakpointSite, RemoveOwnerFromBreakpointSite, ReenableBreakpointSite,
         WriteMemory

(* No read puts a trap into a cache or shows one, and no site saves the     *)
(* trap of another, whichever sites are placed in whatever order, if no     *)
(* read begins inside an opcode and the stub sends no code.                 *)
THEOREM TypesCorrect ==
  ASSUME ReadsAligned, ExpeditedApart PROVE Spec => []TypeOK
<1>1. Init => MemoryTypeOK /\ CacheTypeOK
  <2>1. \A b \in Addr : b \in Nat /\ b < Size
    BY ProcessMemoryAssumption DEF Addr
  <2> QED BY <2>1, MemoryInit, Sequence, ProcessMemoryAssumption DEF Init, CacheTypeOK
<1>2. MemoryTypeOK /\ CacheTypeOK /\ [Next]_vars => MemoryTypeOK' /\ CacheTypeOK'
  BY MemoryStep, CacheTyped
<1>3. MemoryTypeOK /\ CacheTypeOK => TypeOK
  BY DEF MemoryTypeOK, SiteTypeOK, CacheTypeOK, Site, TypeOK
<1> QED BY <1>1, <1>2, <1>3, PTL DEF Spec

(* The last chunk that starts at x or before, or else the first, is a chunk.*)
LEMMA ChunkAtMeans ==
  ASSUME NEW x \in Addr, Chunks # {}
  PROVE  /\ ChunkAt(x) \in Chunks
         /\ \/ ChunkAt(x) <= x /\ \A b \in Chunks : b <= x => b <= ChunkAt(x)
            \/ \A b \in Chunks : x < b /\ ChunkAt(x) <= b
<1> DEFINE before == {b \in Chunks : b <= x}
<1>1. Chunks \subseteq Nat /\ before \subseteq Nat /\ x \in Nat
  BY ProcessMemoryAssumption DEF Chunks, Addr
<1>2. CASE before # {}
  <2>1. Max(before) \in before /\ \A y \in before : Max(before) >= y
    BY <1>1, <1>2, MaxMember
  <2>2. ChunkAt(x) = Max(before)
    BY <1>2 DEF ChunkAt
  <2> HIDE DEF before
  <2>3. ChunkAt(x) \in before /\ \A y \in before : ChunkAt(x) >= y
    BY <2>1, <2>2
  <2> QED BY <1>1, <2>3 DEF before
<1>3. CASE before = {}
  <2>1. Min(Chunks) \in Chunks /\ \A y \in Chunks : Min(Chunks) <= y
    BY <1>1, MinMember
  <2>2. ChunkAt(x) = Min(Chunks)
    BY <1>3 DEF ChunkAt
  <2> QED BY <1>1, <1>3, <2>1, <2>2
<1> QED BY <1>2, <1>3

Touch(p, q) == Bytes(p) \intersect Bytes(q) # {}

(* What agreed with the program still does after a write elsewhere.         *)
LEMMA AgreesElsewhere ==
  ASSUME NEW f, NEW q, q[1] \in Nat, q[2] \in Nat, Bytes(q) \subseteq Addr, NEW r, ~Touch(q, r),
         \A x \in Addr : x \notin Bytes(r) => program'[x] = program[x],
         hidden' = hidden \ Bytes(r), Agrees(f, q)
  PROVE  \A i \in 1 .. q[2] : f[i] = program'[q[1] + i - 1] \/ q[1] + i - 1 \in hidden'
<1>1. \A i \in 1 .. q[2] : q[1] + i - 1 \in Bytes(q)
  BY DEF Bytes
<1>2. \A x \in Bytes(q) : program'[x] = program[x] /\ x \notin Bytes(r)
  BY DEF Touch
<1> QED BY <1>1, <1>2 DEF Agrees

(* What a chunk of the L1 cache covers.                                     *)
LEMMA ChunkMeans ==
  ASSUME CacheTypeOK, NEW b \in Chunks
  PROVE  /\ b \in Addr /\ b \in Nat /\ Len(l1[b]) \in Nat
         /\ ChunkRange(b)[1] = b /\ ChunkRange(b)[2] = Len(l1[b])
         /\ Bytes(ChunkRange(b)) = b .. b + Len(l1[b]) - 1 /\ Bytes(ChunkRange(b)) \subseteq Addr
<1>1. b \in Addr /\ b \in Nat /\ Size \in Nat
  BY ProcessMemoryAssumption DEF Chunks, Addr
<1>2. Len(l1[b]) \in Nat /\ b + Len(l1[b]) <= Size
  BY <1>1 DEF CacheTypeOK
<1>3. ChunkRange(b)[1] = b /\ ChunkRange(b)[2] = Len(l1[b])
  BY DEF ChunkRange
<1> HIDE DEF ChunkRange
<1> QED BY <1>1, <1>2, <1>3 DEF Bytes, Addr

(* A chunk that a write touches is flushed or missed.                       *)
LEMMA ChunkFlushed ==
  ASSUME CacheTypeOK, NEW r \in Writes, NEW b \in Chunks, Touch(ChunkRange(b), r)
  PROVE  b \in FlushedChunks(r) \/ b \in MissedChunks(r)
<1>1. Chunks \subseteq Nat /\ ChunkAt(r[1]) \in Chunks
  BY RangeMeans, ChunkMeans, ChunkAtMeans
<1>2. DoesIntersect(b, r)
  BY DEF DoesIntersect, Touch
<1>3. PICK first \in Nat : first = ChunkAt(r[1])
  BY <1>1
<1>4. CASE b < first \/ \E c \in Chunks : c \in first .. b /\ ~DoesIntersect(c, r)
  BY <1>2, <1>3, <1>4 DEF MissedChunks
<1>5. CASE ~(b < first \/ \E c \in Chunks : c \in first .. b /\ ~DoesIntersect(c, r))
  <2>1. b \in Nat
    BY <1>1
  <2>2. b >= first /\ \A c \in Chunks : c \in first .. b => DoesIntersect(c, r)
    BY <1>5, <2>1
  <2> QED BY <1>3, <2>2 DEF FlushedChunks
<1> QED BY <1>4, <1>5

(* A line that a write touches is flushed.                                  *)
LEMMA LineFlushed ==
  ASSUME NEW r \in Writes, NEW x \in Lines, Touch(<<x, LineSize>>, r)
  PROVE  x \in FlushedLines(r)
<1> DEFINE last == r[1] + r[2] - 1
<1>1. /\ r[1] \in Addr /\ r[1] \in Nat /\ r[2] \in Nat /\ Bytes(r) = r[1] .. last
      /\ Bytes(r) \subseteq Addr
  BY FindMeans, ProcessMemoryAssumption DEF Addr
<1>2. LineSize \in Nat \ {0} /\ x \in Nat /\ x % LineSize = 0
  BY ProcessMemoryAssumption DEF Lines, Addr
<1>3. PICK y \in Bytes(r) : x <= y /\ y <= x + LineSize - 1
  BY <1>1, <1>2 DEF Touch, Bytes
<1>4. last \in Addr /\ last \in Nat /\ y <= last /\ r[1] <= y /\ y \in Nat
  <2>1. y \in Nat /\ y <= last /\ r[1] <= y
    BY <1>1, <1>3
  <2>2. last \in Nat /\ last \in Bytes(r)
    BY <1>1, <2>1
  <2> QED BY <1>1, <2>1, <2>2
<1> HIDE DEF last
<1>5. /\ LineOf(r[1]) \in Lines /\ LineOf(r[1]) \in Nat /\ LineOf(r[1]) <= r[1]
      /\ LineOf(last) \in Lines /\ LineOf(last) \in Nat /\ last < LineOf(last) + LineSize
  BY <1>1, <1>4, LineMeans
<1>6. LineOf(r[1]) % LineSize = 0 /\ LineOf(last) % LineSize = 0
  BY <1>5 DEF Lines
<1>7. x < LineOf(r[1]) => x + LineSize <= LineOf(r[1])
  BY <1>2, <1>5, <1>6, Multiples
<1>8. LineOf(last) < x => LineOf(last) + LineSize <= x
  BY <1>2, <1>5, <1>6, Multiples
<1>9. x >= LineOf(r[1])
  BY <1>1, <1>2, <1>3, <1>4, <1>5, <1>7
<1>10. x <= LineOf(last)
  BY <1>2, <1>3, <1>4, <1>5, <1>8
<1> QED BY <1>9, <1>10 DEF FlushedLines, last

(* The caches show the program after every step, but for what a flush has   *)
(* missed.                                                                  *)
LEMMA CacheStep ==
  ASSUME MemoryTypeOK, CacheTypeOK, MemoryIntact, CacheShows,
         ReadsAligned, ExpeditedApart, [Next]_vars
  PROVE  CacheShows'
<1>1. CASE UNCHANGED <<l1, l2, program, hidden, missed>>
  BY <1>1 DEF CacheShows, Agrees, Chunks, ChunkRange
<1>2. ASSUME NEW r, r[1] \in Addr, r[2] \in Nat, NEW f \in [1 .. r[2] -> Values], Agrees(f, r),
             l1' = [l1 EXCEPT ![r[1]] = f], missed' = missed \ {r[1]},
             UNCHANGED <<l2, program, hidden>>
      PROVE  CacheShows'
  <2>1. Len(f) = r[2]
    BY <1>2, Sequence
  <2>2. ASSUME NEW b \in Addr, l1'[b] # <<>>, b \notin missed'
        PROVE  \A i \in 1 .. Len(l1'[b]) : l1'[b][i] = program[b + i - 1] \/ b + i - 1 \in hidden
    <3>1. CASE b = r[1]
      <4>1. l1'[b] = f
        BY <1>2, <3>1 DEF CacheTypeOK
      <4> QED BY <1>2, <2>1, <3>1, <4>1 DEF Agrees
    <3>2. CASE b # r[1]
      <4>1. l1'[b] = l1[b] /\ b \notin missed
        BY <1>2, <2>2, <3>2 DEF CacheTypeOK
      <4>2. b \in Chunks
        BY <2>2, <4>1 DEF Chunks
      <4>3. Agrees(l1[b], ChunkRange(b))
        BY <4>1, <4>2 DEF CacheShows
      <4> QED BY <4>1, <4>3 DEF Agrees, ChunkRange
    <3> QED BY <3>1, <3>2
  <2> QED BY <1>2, <2>2 DEF CacheShows, Agrees, Chunks, ChunkRange
<1>3. ASSUME NEW r \in Reads, ReadMemory(r) PROVE CacheShows'
  <2>1. CASE r[2] > LineSize
    <3>1. /\ l1' = [l1 EXCEPT ![r[1]] = ReadMemoryFromInferior(r)]
          /\ missed' = missed \ {r[1]} /\ UNCHANGED <<l2, program, hidden>>
      BY <1>3, <2>1 DEF ReadMemory
    <3> QED BY <1>2, <3>1, ReadTyped, RangeMeans
  <2>2. CASE ~(r[2] > LineSize)
    <3>1. /\ l2' = [x \in Lines |-> IF x \in LinesOf(r) THEN Line(x) ELSE l2[x]]
          /\ UNCHANGED <<l1, program, hidden, missed>>
      BY <1>3, <2>2 DEF ReadMemory
    <3>2. \A x \in Lines : Agrees(Line(x), <<x, LineSize>>)
      BY LineTyped
    <3>3. \A x \in Lines : l2'[x] # <<>> => Agrees(l2'[x], <<x, LineSize>>)
      BY <3>1, <3>2 DEF CacheShows
    <3>4. \A x \in Lines : l2'[x] # <<>> => Agrees(l2[x], <<x, LineSize>>)'
      BY <3>1, <3>3 DEF Agrees
    <3>5. \A b \in Chunks' \ missed' : Agrees(l1[b], ChunkRange(b))'
      BY <3>1 DEF CacheShows, Agrees, Chunks, ChunkRange
    <3> QED BY <3>4, <3>5 DEF CacheShows
  <2> QED BY <2>1, <2>2
<1>4. ASSUME NEW r \in Expedited, AddL1CacheData(r) PROVE CacheShows'
  BY <1>2, <1>4, ExpeditedMeans, RangeMeans DEF AddL1CacheData
<1>5. ASSUME NEW r \in Writes, NEW u \in Values, NEW v \in Values, WriteMemory(r, Data(r, u, v))
      PROVE  CacheShows'
  <2>1. /\ Flush(r) /\ \A x \in Addr : x \notin Bytes(r) => program'[x] = program[x]
        /\ hidden' = hidden \ Bytes(r)
    BY <1>5 DEF WriteMemory
  <2>2. ASSUME NEW b \in Addr, l1'[b] # <<>>, b \notin missed'
        PROVE  \A i \in 1 .. Len(l1'[b]) : l1'[b][i] = program'[b + i - 1] \/ b + i - 1 \in hidden'
    <3>1. /\ b \notin FlushedChunks(r) /\ b \notin MissedChunks(r) /\ b \notin missed
          /\ l1'[b] = l1[b]
      BY <2>1, <2>2 DEF Flush
    <3>2. b \in Chunks
      BY <2>2, <3>1 DEF Chunks
    <3>3. Agrees(l1[b], ChunkRange(b)) /\ ~Touch(ChunkRange(b), r)
      BY <3>1, <3>2, ChunkFlushed DEF CacheShows
    <3>4. /\ ChunkRange(b)[1] = b /\ ChunkRange(b)[2] = Len(l1[b])
          /\ b \in Nat /\ Len(l1[b]) \in Nat /\ Bytes(ChunkRange(b)) \subseteq Addr
      BY <3>2, ChunkMeans
    <3>5. \A i \in 1 .. ChunkRange(b)[2] :
             \/ l1[b][i] = program'[ChunkRange(b)[1] + i - 1]
             \/ ChunkRange(b)[1] + i - 1 \in hidden'
      BY <2>1, <3>3, <3>4, AgreesElsewhere
    <3> QED BY <3>1, <3>4, <3>5
  <2>3. ASSUME NEW x \in Lines, l2'[x] # <<>>
        PROVE  \A i \in 1 .. LineSize : l2'[x][i] = program'[x + i - 1] \/ x + i - 1 \in hidden'
    <3> DEFINE q == <<x, LineSize>>
    <3>1. x \notin FlushedLines(r) /\ l2'[x] = l2[x]
      BY <2>1, <2>3 DEF Flush
    <3>2. Agrees(l2[x], q) /\ ~Touch(q, r)
      BY <2>3, <3>1, LineFlushed DEF CacheShows
    <3>3. q[1] = x /\ q[2] = LineSize /\ q \in {<<y, LineSize>> : y \in Lines}
      OBVIOUS
    <3>4. x \in Nat /\ LineSize \in Nat
      BY ProcessMemoryAssumption DEF Lines, Addr
    <3> HIDE DEF q
    <3>5. Bytes(q) \subseteq Addr
      BY <3>3, FindMeans
    <3>6. \A i \in 1 .. q[2] : l2[x][i] = program'[q[1] + i - 1] \/ q[1] + i - 1 \in hidden'
      BY <2>1, <3>2, <3>3, <3>4, <3>5, AgreesElsewhere
    <3> QED BY <3>1, <3>3, <3>6
  <2> QED BY <2>2, <2>3 DEF CacheShows, Agrees, Chunks, ChunkRange
<1>6. ASSUME Clear PROVE CacheShows'
  BY <1>6 DEF Clear, CacheShows, Chunks
<1> QED BY <1>1, <1>3, <1>4, <1>5, <1>6
     DEF Next, vars, CreateBreakpointSite, RemoveOwnerFromBreakpointSite, ReenableBreakpointSite,
         InferiorRuns, StepOver

(* What a read returns, from the chunk that covers it, from the inferior,   *)
(* or line by line.                                                         *)
LEMMA ReadsShow ==
  ASSUME MemoryTypeOK, CacheTypeOK, MemoryIntact, CacheShows, ReadsAligned, NEW r \in Reads,
         InL1(r) => ChunkAt(r[1]) \notin missed
  PROVE  ShowsProgram(r)
<1> SUFFICES \A i \in 1 .. r[2] :
               ReadResult(r)[i] = program[r[1] + i - 1] \/ r[1] + i - 1 \in hidden
  BY DEF ShowsProgram
<1>1. /\ r[1] \in Addr /\ r[1] \in Nat /\ r[2] \in Nat /\ Bytes(r) \subseteq Addr
      /\ \A i \in 1 .. r[2] : r[1] + i - 1 \in Bytes(r)
  BY RangeMeans
<1>2. CASE InL1(r)
  <2> DEFINE b == ChunkAt(r[1])
  <2>1. b \in Chunks /\ Bytes(r) \subseteq Bytes(ChunkRange(b)) /\ b \notin missed
    BY <1>1, <1>2, ChunkAtMeans DEF InL1
  <2>2. ReadResult(r) = [i \in 1 .. r[2] |-> l1[b][r[1] - b + i]]
    BY <1>2 DEF ReadResult
  <2> HIDE DEF b
  <2>3. /\ b \in Nat /\ Len(l1[b]) \in Nat /\ Bytes(ChunkRange(b)) = b .. b + Len(l1[b]) - 1
        /\ \A i \in 1 .. Len(l1[b]) : l1[b][i] = program[b + i - 1] \/ b + i - 1 \in hidden
    BY <2>1, ChunkMeans DEF CacheShows, Agrees
  <2>4. ASSUME NEW i \in 1 .. r[2]
        PROVE  l1[b][r[1] - b + i] = program[r[1] + i - 1] \/ r[1] + i - 1 \in hidden
    <3>1. r[1] + i - 1 \in b .. b + Len(l1[b]) - 1
      BY <1>1, <2>1, <2>3
    <3>2. r[1] - b + i \in 1 .. Len(l1[b]) /\ b + (r[1] - b + i) - 1 = r[1] + i - 1
      BY <1>1, <2>3, <3>1
    <3> QED BY <2>3, <3>2
  <2> QED BY <2>2, <2>4
<1>3. CASE ~InL1(r) /\ r[2] > LineSize
  BY <1>3, ReadTyped DEF ReadResult, Agrees
<1>4. CASE ~InL1(r) /\ ~(r[2] > LineSize)
  <2> DEFINE shown(x) == Line(LineOf(x))[x - LineOf(x) + 1]
  <2>1. ReadResult(r) = [i \in 1 .. r[2] |-> shown(r[1] + i - 1)]
    BY <1>4 DEF ReadResult
  <2>2. ASSUME NEW x \in Bytes(r) PROVE shown(x) = program[x] \/ x \in hidden
    <3>1. /\ LineOf(x) \in Lines /\ LineOf(x) \in Nat /\ LineOf(x) <= x /\ x < LineOf(x) + LineSize
          /\ x \in Int /\ LineSize \in Nat
      BY <1>1, LineMeans, SitesApart, ProcessMemoryAssumption
    <3>2. Agrees(Line(LineOf(x)), <<LineOf(x), LineSize>>)
      BY <3>1, LineTyped
    <3>3. x - LineOf(x) + 1 \in 1 .. LineSize /\ LineOf(x) + (x - LineOf(x) + 1) - 1 = x
      BY <3>1
    <3> QED BY <3>2, <3>3 DEF Agrees
  <2> HIDE DEF shown
  <2> QED BY <1>1, <2>1, <2>2
<1> QED BY <1>2, <1>3, <1>4

(* A read shows the program, without traps and never what a write or a run  *)
(* has replaced, whichever cache serves it (MemoryCache::Read, Flush and    *)
(* Clear), unless the chunk of the L1 cache that serves it is one that a    *)
(* Flush has missed, for any layout of the chunks; for reads and writes     *)
(* that meet sites as the hypotheses say.                                   *)
THEOREM ReadsShowProgram ==
  ASSUME ReadsAligned, WritesKept, ExpeditedApart PROVE Spec => []ReadsCurrent
<1> DEFINE IInv == MemoryTypeOK /\ CacheTypeOK /\ MemoryIntact /\ CacheShows
<1>1. Init => IInv
  <2>1. \A b \in Addr : b \in Nat /\ b < Size
    BY ProcessMemoryAssumption DEF Addr
  <2> QED BY <2>1, MemoryInit, Sequence, ProcessMemoryAssumption
       DEF Init, CacheTypeOK, CacheShows, Chunks
<1>2. IInv /\ [Next]_vars => IInv'
  BY MemoryStep, CacheTyped, CacheStep
<1>3. IInv => ReadsCurrent
  BY ReadsShow DEF ReadsCurrent
<1> QED BY <1>1, <1>2, <1>3, PTL DEF Spec
=============================================================================
