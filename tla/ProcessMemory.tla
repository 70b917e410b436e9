--------------------------- MODULE ProcessMemory ---------------------------
(***************************************************************************)
(* The memory of a stopped inferior as Process shows it: breakpoint sites  *)
(* that replace the program's opcodes by traps (Process.cpp, BreakpointSite *)
(* and BreakpointSiteList), and the two caches a read goes through         *)
(* (MemoryCache in Memory.cpp).  program holds what the program and the    *)
(* debugger's user have written; the code must show exactly that.          *)
(*                                                                         *)
(* Every action is one call under the API mutex; InferiorRuns and StepOver *)
(* are a whole run, from resume to stop.  StepOver leaves its site         *)
(* disabled; until ReenableBreakpointSite the private state thread may     *)
(* read, and a stop it handles may add and remove breakpoints.  Left out:  *)
(* a DoReadMemory or DoWriteMemory that fails or is short,                 *)
(* m_invalid_ranges, and a program that writes over a trap.                *)
(***************************************************************************)
EXTENDS Integers, Sequences, FiniteSetsExt

CONSTANTS
  Size,        \* bytes of memory
  LineSize,    \* m_L2_cache_line_byte_size
  Values,      \* what a byte of the program may be
  Trap,        \* a byte of the trap opcode
  OpcodeSize,  \* bytes of the trap opcode
  SiteAddrs,   \* addresses with a breakpoint location
  Owners,      \* the breakpoint locations that may share a site
  SiteTypes,   \* what EnableBreakpointSite can place
  Reads,       \* what clients read, as <<address, length>>
  Writes,      \* what they write
  Stores,      \* where the program writes
  Expedited    \* what the stub sends along with a stop

Addr == 0 .. Size - 1
Bytes(r) == r[1] .. r[1] + r[2] - 1

ASSUME ProcessMemoryAssumption ==
  /\ Size \in Nat \ {0} /\ LineSize \in Nat \ {0} /\ OpcodeSize \in Nat \ {0}
  /\ Size % LineSize = 0
  /\ Values # {} /\ Trap \notin Values
  /\ SiteTypes \subseteq {"software", "external"}
  /\ \A r \in Reads \union Writes \union Expedited :
       r[1] \in Addr /\ r[2] \in Nat \ {0} /\ r[1] + r[2] <= Size
  /\ Stores \subseteq Addr
  /\ \A a \in SiteAddrs : a \in Addr /\ a + OpcodeSize <= Size
  /\ \A a, b \in SiteAddrs : a < b => a + OpcodeSize <= b

VARIABLES
  memory,   \* the bytes of the inferior
  sites,    \* m_breakpoint_site_list: a site without owners is not in the list
  l1, l2,   \* m_L1_cache and m_L2_cache by address; <<>> is not in the cache
  program,  \* history: the bytes the program should have
  hidden,   \* history: what a step over wrote since l1 and l2 were cleared,
            \* in the opcode that its site had saved
  missed    \* history: chunks of l1 that a Flush should have erased

vars == <<memory, sites, l1, l2, program, hidden, missed>>

Lines == {x \in Addr : x % LineSize = 0}
LineOf(x) == x - (x % LineSize)
Slice(f, r) == [i \in 1 .. r[2] |-> f[r[1] + i - 1]]
SiteBytes(a) == Bytes(<<a, OpcodeSize>>)
NoSite == [type |-> "software", owners |-> {}, saved |-> <<>>, enabled |-> FALSE]

TypeOK ==
  /\ memory \in [Addr -> Values \union {Trap}]
  /\ program \in [Addr -> Values]
  /\ DOMAIN sites = SiteAddrs
  /\ \A a \in SiteAddrs :
       /\ sites[a].owners \subseteq Owners
       /\ sites[a].type \in {"software", "external"}
       /\ sites[a].saved \in [1 .. OpcodeSize -> Values] \union {<<>>}
       /\ sites[a].enabled \in BOOLEAN
  /\ DOMAIN l1 = Addr /\ DOMAIN l2 = Lines
  /\ \A x \in Addr : l1[x] \in Seq(Values)
  /\ \A x \in Lines : l2[x] \in [1 .. LineSize -> Values] \union {<<>>}
  /\ hidden \subseteq Addr /\ missed \subseteq Addr

Init ==
  /\ \E v \in Values : program = [x \in Addr |-> v]
  /\ memory = program
  /\ sites = [a \in SiteAddrs |-> NoSite]
  /\ l1 = [x \in Addr |-> <<>>]
  /\ l2 = [x \in Lines |-> <<>>]
  /\ hidden = {} /\ missed = {}

---------------------------------------------------------------------------
(* Breakpoint sites *)

Placed == {a \in SiteAddrs : sites[a].owners # {}}
IsSoftware(a) == a \in Placed /\ sites[a].type = "software"
AllEnabled == \A a \in Placed : sites[a].enabled
IntersectsRange(a, r) == SiteBytes(a) \intersect Bytes(r) # {}

(* FindInRange: nothing unless a site starts in the range; then also the    *)
(* previous site if it reaches into it, and a site that starts at its end.  *)
FindInRange(r) ==
  LET lower == r[1]
      upper == r[1] + r[2]
  IN  IF \A a \in Placed : a < lower \/ a >= upper
        THEN {}
        ELSE {a \in Placed : IF a < lower THEN a + OpcodeSize > lower ELSE a <= upper}

(* The bytes of r in m, or under the sites it finds.                        *)
RemoveBreakpointOpcodes(r, m) ==
  [i \in 1 .. r[2] |->
     LET x == r[1] + i - 1
         over == {a \in FindInRange(r) : IsSoftware(a) /\ x \in SiteBytes(a)}
     IN  IF over = {} THEN m[x] ELSE LET a == Min(over) IN sites[a].saved[x - a + 1]]

ReadMemoryFromInferior(r) == RemoveBreakpointOpcodes(r, memory)

(* Mutant: the opcode is saved after the trap has been written.             *)
EnableSoftwareBreakpoint_SavesLate(a, m) ==
  LET trapped == [x \in Addr |-> IF x \in SiteBytes(a) THEN Trap ELSE m[x]]
  IN  [memory |-> trapped, saved |-> Slice(trapped, <<a, OpcodeSize>>)]

(* The opcode in m is saved, then replaced by the trap.                     *)
EnableSoftwareBreakpoint(a, m) ==
  [memory |-> [x \in Addr |-> IF x \in SiteBytes(a) THEN Trap ELSE m[x]],
   saved |-> Slice(m, <<a, OpcodeSize>>)]

(* EnableBreakpointSite of ProcessGDBRemote: the stub places the breakpoint *)
(* (Z0, Z1) and hides it, or lldb writes the trap itself.                   *)
EnableBreakpointSite(a, type, m) ==
  IF type = "external" THEN [memory |-> m, saved |-> <<>>]
                       ELSE EnableSoftwareBreakpoint(a, m)

(* The saved opcode goes back to memory, unless it is there already.        *)
DisableBreakpointSite(a, m) ==
  IF IsSoftware(a) /\ sites[a].enabled
    THEN [x \in Addr |-> IF x \in SiteBytes(a) THEN sites[a].saved[x - a + 1] ELSE m[x]]
    ELSE m

(* A location shares the site at its address, or gets a new one.            *)
CreateBreakpointSite(o, a, type) ==
  /\ o \notin sites[a].owners
  /\ IF a \in Placed
       THEN /\ sites' = [sites EXCEPT ![a].owners = @ \union {o}]
            /\ UNCHANGED memory
       ELSE LET placed == EnableBreakpointSite(a, type, memory)
            IN  /\ memory' = placed.memory
                /\ sites' = [sites EXCEPT ![a] = [type |-> type, owners |-> {o},
                                                  saved |-> placed.saved,
                                                  enabled |-> TRUE]]
  /\ UNCHANGED <<l1, l2, program, hidden, missed>>

(* Mutant: the site is disabled whoever leaves it.                          *)
RemoveOwnerFromBreakpointSite_Disables(o, a) ==
  /\ o \in sites[a].owners
  /\ memory' = DisableBreakpointSite(a, memory)
  /\ sites' = [sites EXCEPT ![a] = IF @.owners = {o} THEN NoSite
                                   ELSE [@ EXCEPT !.owners = @ \ {o}]]
  /\ UNCHANGED <<l1, l2, program, hidden, missed>>

(* The last owner takes the site with it.                                   *)
RemoveOwnerFromBreakpointSite(o, a) ==
  /\ o \in sites[a].owners
  /\ IF sites[a].owners = {o}
       THEN /\ memory' = DisableBreakpointSite(a, memory)
            /\ sites' = [sites EXCEPT ![a] = NoSite]
       ELSE /\ sites' = [sites EXCEPT ![a].owners = @ \ {o}]
            /\ UNCHANGED memory
  /\ UNCHANGED <<l1, l2, program, hidden, missed>>

---------------------------------------------------------------------------
(* The caches *)

Chunks == {b \in Addr : l1[b] # <<>>}
ChunkRange(b) == <<b, Len(l1[b])>>

(* upper_bound(x), and one back if there is one: the last chunk that starts *)
(* at x or before, or else the first.                                       *)
ChunkAt(x) ==
  LET before == {b \in Chunks : b <= x}
  IN  IF before # {} THEN Max(before) ELSE Min(Chunks)

InL1(r) == Chunks # {} /\ Bytes(r) \subseteq Bytes(ChunkRange(ChunkAt(r[1])))

LinesOf(r) == {LineOf(x) : x \in Bytes(r)}

(* A line of l2 that a read goes through, from the cache or the inferior.   *)
Line(x) == IF l2[x] # <<>> THEN l2[x] ELSE ReadMemoryFromInferior(<<x, LineSize>>)

(* What ReadMemory returns.                                                 *)
ReadResult(r) ==
  IF InL1(r)
    THEN LET b == ChunkAt(r[1]) IN [i \in 1 .. r[2] |-> l1[b][r[1] - b + i]]
  ELSE IF r[2] > LineSize
    THEN ReadMemoryFromInferior(r)
  ELSE [i \in 1 .. r[2] |-> LET x == r[1] + i - 1
                                line == Line(LineOf(x))
                            IN  line[x - LineOf(x) + 1]]

(* MemoryCache::Read: a miss that is longer than a line fills the L1 cache, *)
(* any other the lines it goes through.                                     *)
ReadMemory(r) ==
  /\ ~InL1(r)
  /\ IF r[2] > LineSize
       THEN /\ l1' = [l1 EXCEPT ![r[1]] = ReadMemoryFromInferior(r)]
            /\ missed' = missed \ {r[1]}
            /\ UNCHANGED l2
       ELSE /\ l2' = [x \in Lines |-> IF x \in LinesOf(r) THEN Line(x) ELSE l2[x]]
            /\ UNCHANGED <<l1, missed>>
  /\ UNCHANGED <<memory, sites, program, hidden>>

DoesIntersect(b, r) == Bytes(ChunkRange(b)) \intersect Bytes(r) # {}

(* Chunks are erased from ChunkAt on, up to the first that does not         *)
(* intersect.                                                               *)
FlushedChunks(r) ==
  {b \in Chunks :
     /\ b >= ChunkAt(r[1])
     /\ \A c \in Chunks : c \in ChunkAt(r[1]) .. b => DoesIntersect(c, r)}

(* The chunks it should erase too: they start before ChunkAt, or after a    *)
(* chunk that does not intersect.                                           *)
MissedChunks(r) ==
  {b \in Chunks :
     /\ DoesIntersect(b, r)
     /\ \/ b < ChunkAt(r[1])
        \/ \E c \in Chunks : c \in ChunkAt(r[1]) .. b /\ ~DoesIntersect(c, r)}

(* Mutant: the line of the last byte is forgotten.                          *)
FlushedLines_First(r) == {LineOf(r[1])}

FlushedLines(r) == {x \in Lines : x >= LineOf(r[1]) /\ x <= LineOf(r[1] + r[2] - 1)}

Flush(r) ==
  /\ l1' = [x \in Addr |-> IF x \in FlushedChunks(r) THEN <<>> ELSE l1[x]]
  /\ l2' = [x \in Lines |-> IF x \in FlushedLines(r) THEN <<>> ELSE l2[x]]
  /\ missed' = (missed \ FlushedChunks(r)) \union MissedChunks(r)

(* SetPrivateState clears the caches at every stop.                         *)
Clear ==
  /\ l1' = [x \in Addr |-> <<>>]
  /\ l2' = [x \in Lines |-> <<>>]
  /\ missed' = {}

(* SetThreadStopInfo puts what the stub has read of memory into the L1      *)
(* cache as it came, whatever is there.  It came with the stop, which       *)
(* RefreshStateAfterStop handles before anyone can write, or just now       *)
(* (WillPublicStop).                                                        *)
AddL1CacheData(r) ==
  /\ l1' = [l1 EXCEPT ![r[1]] = Slice(memory, r)]
  /\ missed' = missed \ {r[1]}
  /\ UNCHANGED <<memory, sites, l2, program, hidden>>

---------------------------------------------------------------------------
(* Writes *)

(* WriteMemory: after the flush, bytes under a site that FindInRange found  *)
(* go to its saved opcode, the others to memory.  A found site that does    *)
(* not intersect fails the assertion in line 2441, and the debugger ends.   *)
(* Clients write when the stop is public, and no site is disabled then.     *)
WriteMemory(r, data) ==
  LET found == FindInRange(r)
      byte(x) == data[x - r[1] + 1]
      covered == UNION {SiteBytes(a) : a \in found}
  IN  /\ AllEnabled
      /\ \A a \in found : IntersectsRange(a, r)
      /\ Flush(r)
      /\ memory' = [x \in Addr |-> IF x \in Bytes(r) \ covered THEN byte(x) ELSE memory[x]]
      /\ sites' = [a \in SiteAddrs |->
                     IF a \notin found \/ ~IsSoftware(a) THEN sites[a]
                     ELSE [sites[a] EXCEPT !.saved =
                             [i \in 1 .. OpcodeSize |->
                                IF a + i - 1 \in Bytes(r) THEN byte(a + i - 1) ELSE @[i]]]]
      /\ program' = [x \in Addr |-> IF x \in Bytes(r) THEN byte(x) ELSE program[x]]
      /\ hidden' = hidden \ Bytes(r)

(* The first byte is u and the others are v.                                *)
Data(r, u, v) == [i \in 1 .. r[2] |-> IF i = 1 THEN u ELSE v]

---------------------------------------------------------------------------
(* Runs of the inferior *)

Trapped == UNION {SiteBytes(a) : a \in {b \in Placed : IsSoftware(b) /\ sites[b].enabled}}

(* The program stores v at x and stops.                                     *)
InferiorRuns(x, v) ==
  /\ AllEnabled
  /\ x \notin Trapped
  /\ memory' = [memory EXCEPT ![x] = v]
  /\ program' = [program EXCEPT ![x] = v]
  /\ hidden' = {}
  /\ Clear
  /\ UNCHANGED sites

(* ThreadPlanStepOverBreakpoint takes the trap out and lets its thread      *)
(* alone run; if the thread is still there it runs again.                   *)
StepOver(a, x, v) ==
  /\ a \in Placed
  /\ \A b \in Placed \ {a} : sites[b].enabled
  /\ x \notin Trapped \ SiteBytes(a)
  /\ memory' = [DisableBreakpointSite(a, memory) EXCEPT ![x] = v]
  /\ sites' = [sites EXCEPT ![a].enabled = FALSE]
  /\ program' = [program EXCEPT ![x] = v]
  /\ hidden' = (IF sites[a].enabled THEN {} ELSE hidden) \union (SiteBytes(a) \intersect {x})
  /\ Clear

(* The plan puts it in again, over what the program has left there.         *)
ReenableBreakpointSite(a) ==
  /\ a \in Placed /\ ~sites[a].enabled
  /\ LET enabled == EnableBreakpointSite(a, sites[a].type, memory)
     IN  /\ memory' = enabled.memory
         /\ sites' = [sites EXCEPT ![a].saved = enabled.saved, ![a].enabled = TRUE]
  /\ UNCHANGED <<l1, l2, program, hidden, missed>>

Next ==
  \/ \E a \in SiteAddrs, o \in Owners :
       \/ \E type \in SiteTypes : CreateBreakpointSite(o, a, type)
       \/ RemoveOwnerFromBreakpointSite(o, a)
  \/ \E a \in SiteAddrs : ReenableBreakpointSite(a)
  \/ \E r \in Reads : ReadMemory(r)
  \/ \E r \in Writes, u, v \in Values : WriteMemory(r, Data(r, u, v))
  \/ \E r \in Expedited : AddL1CacheData(r)
  \/ \E x \in Stores, v \in Values :
       \/ InferiorRuns(x, v)
       \/ \E a \in SiteAddrs : StepOver(a, x, v)

Spec == Init /\ [][Next]_vars

---------------------------------------------------------------------------
(* Properties *)

(* However sites are shared, stepped over, written over and removed, memory *)
(* has a trap exactly where an enabled software site is, the program's own  *)
(* bytes elsewhere, and the site keeps the bytes its trap hides             *)
(* (EnableSoftwareBreakpoint, DisableSoftwareBreakpoint, WriteMemory).      *)
MemoryIntact ==
  /\ \A x \in Addr : memory[x] = IF x \in Trapped THEN Trap ELSE program[x]
  /\ \A a \in Placed :
       IsSoftware(a) => \A x \in SiteBytes(a) :
         sites[a].saved[x - a + 1] = program[x] \/ (~sites[a].enabled /\ x \in hidden)

(* What a read returns is the program's, but for the bytes that the program *)
(* stored in an opcode while it was stepped over: the site has the old ones *)
(* saved until it is enabled again, and a cache until the next stop.        *)
ShowsProgram(r) ==
  \A i \in 1 .. r[2] :
    LET x == r[1] + i - 1 IN ReadResult(r)[i] = program[x] \/ x \in hidden

(* A read shows the program's bytes, without the traps and not those from   *)
(* before a write or a run, whichever cache it is served from, unless a     *)
(* chunk of the L1 cache serves it that MemoryCache::Flush has missed.      *)
ReadsCurrent ==
  \A r \in Reads : ShowsProgram(r) \/ (InL1(r) /\ ChunkAt(r[1]) \in missed)

(* "Erase any blocks from the L1 cache that intersect with the flush range" *)
(* (Memory.cpp:65): no read shows what a write has replaced.                *)
ReadsProgram == \A r \in Reads : ShowsProgram(r)
=============================================================================
