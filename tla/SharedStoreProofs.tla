-------------------------- MODULE SharedStoreProofs --------------------------
(***************************************************************************)
(* Theorems about SharedStore, for any number of processes, calls and      *)
(* kills, and any overlap of the calls: the store never loses a cell, an   *)
(* edge never dangles, and a cell is only retired for a stored successor.  *)
(*                                                                         *)
(* The invariant says of every process that what it carries is backed by   *)
(* the tables: a cell it is going to write back is stored with the same    *)
(* content (Kept), the work left in its call concerns stored cells (Plan), *)
(* and only the call that drew a key writes the first row under it         *)
(* (Place, Apart).                                                         *)
(***************************************************************************)
EXTENDS SharedStore, TLAPS

Targets(links)   == {l.to : l \in links}
Replaced(p)      == {l.to : l \in {x \in p.links : x.rel = "supersedes"}}

\* A proposal that supersedes t is stored.
Retired(t) ==
    \E k \in DOMAIN rows, p \in Proposals :
       /\ p.content = rows[k].content
       /\ [rel |-> "supersedes", to |-> t] \in p.links

\* Putting the cell c changes no content, retires only what has a successor
\* and stores only edges between stored cells.
Kept(c) ==
    /\ c.key \in DOMAIN rows
    /\ c.row.content = rows[c.key].content
    /\ c.row.status # "active" => Retired(c.key)
    /\ Targets(c.links) \subseteq DOMAIN rows

\* The work left in the call of a process.
Plan(l) ==
    /\ l.supersedes \cup l.weighs \cup l.members \subseteq DOMAIN rows
    /\ \A c \in l.queue : Kept(c)
    /\ l.joins # {} \/ l.supersedes # {} \/ l.weighs # {} \/ l.final => l.key # NoKey
    /\ l.key # NoKey => /\ l.prop \in Proposals
                        /\ Targets(l.prop.links) \subseteq DOMAIN rows
                        /\ l.supersedes \subseteq Replaced(l.prop)
                        /\ l.key \in DOMAIN rows => rows[l.key].content = l.prop.content

\* The first row of a cell is about to be written.
First(l) ==
    /\ l.pc = "row"
    /\ l.key # NoKey
    /\ l.key \notin DOMAIN rows
    /\ l.out.key = l.key
    /\ l.out.row.content = l.prop.content
    /\ l.out.row.status = "active"
    /\ Targets(l.out.links) \subseteq DOMAIN rows

\* Where a process is in its call.
Place(l) ==
    /\ l.pc \in {"row", "clear", "link"} => l.out \in Cell /\ l.left \subseteq l.out.links
    /\ l.pc \in {"clear", "link"} => Kept(l.out)
    /\ l.pc = "row" => Kept(l.out) \/ First(l)
    /\ l.pc \in {"join", "member", "supersede", "weigh", "finish"} => l.key # NoKey
    /\ l.pc = "member" => l.bundle \in Bundles
    /\ l.key # NoKey /\ l.key \notin DOMAIN rows => First(l)

\* No two calls draw the same key.
Apart ==
    \A s, o \in Procs : s # o /\ proc[s].key # NoKey => proc[s].key # proc[o].key

Held == \A s \in Procs : Plan(proc[s]) /\ Place(proc[s])

IInv == TypeOK /\ EdgesAnchored /\ RetiredForNewer /\ Apart /\ Held

-----------------------------------------------------------------------------
(* Types *)

\* A process at rest is a process.
LEMMA RestType == Rest \in Local
BY DEF Rest, Local, Phases

\* Going on with a call, or putting a cell, leaves a process.
LEMMA ResumeType == ASSUME NEW l \in Local PROVE Resume(l) \in Local
<1>1. \A pc \in Phases : [l EXCEPT !.pc = pc, !.out = NoKey] \in Local
  BY DEF Local
<1> QED
  BY <1>1, RestType DEF Resume, Phases

\* The same, for the start of a put.
LEMMA PuttingType ==
    ASSUME NEW l \in Local, NEW c \in Cell
    PROVE  Putting(l, c) \in Local
BY DEF Putting, Local, Cell, Phases

\* What is read from a well-typed store is a cell, also once it is recomputed.
LEMMA ReadType ==
    ASSUME TypeOK, NEW k \in DOMAIN rows
    PROVE  /\ Read(k) \in Cell
           /\ Recounted(k) \in Cell
           /\ [Read(k) EXCEPT !.row.status = "superseded"] \in Cell
<1>1. Read(k) \in Cell
  BY DEF TypeOK, Read, Cell
<1>2. Incoming(k) \in SUBSET Evidence
  BY DEF Incoming
<1> QED
  BY <1>1, <1>2 DEF Recounted, Cell, Row

\* So is what admit() builds.
LEMMA BuiltType ==
    ASSUME SharedAssumption, NEW k \in Keys, NEW p \in Proposals,
           NEW lineage \in SUBSET Keys, NEW counted \in SUBSET Evidence
    PROVE  Built(k, p, lineage, counted) \in Cell
BY DEF SharedAssumption, Proposal, Built, Cell, Row

-----------------------------------------------------------------------------
(* What the other processes may do to a process *)

\* The cells table grows, by the cell j at most, and keeps every content.
Grows(j) ==
    /\ DOMAIN rows \subseteq DOMAIN rows'
    /\ DOMAIN rows' \subseteq DOMAIN rows \cup {j}
    /\ \A k \in DOMAIN rows : rows'[k].content = rows[k].content

\* A cell that has a stored successor keeps it.
LEMMA RetiredStays ==
    ASSUME NEW j, Grows(j), NEW t, Retired(t)
    PROVE  Retired(t)'
BY DEF Grows, Retired

\* A copy of a cell stays fit to be written back.
LEMMA KeptStays ==
    ASSUME NEW j, Grows(j), NEW c, Kept(c)
    PROVE  Kept(c)'
<1>1. Retired(c.key) => Retired(c.key)'
  BY RetiredStays
<1> QED
  BY <1>1 DEF Grows, Kept, Targets

\* A process that did not draw the new key keeps its plan and its place.
LEMMA HeldStays ==
    ASSUME NEW j, Grows(j), NEW l, Plan(l), Place(l),
           l.key = NoKey \/ l.key # j
    PROVE  Plan(l)' /\ Place(l)'
<1>1. \A c : Kept(c) => Kept(c)'
  BY KeptStays
<1>2. Plan(l)'
  BY <1>1 DEF Grows, Plan
<1>3. l.key # NoKey => (l.key \in DOMAIN rows <=> l.key \in DOMAIN rows')
  BY DEF Grows
<1>4. First(l) => First(l)'
  BY <1>3 DEF Grows, First
<1>5. Place(l)'
  BY <1>1, <1>3, <1>4 DEF Place
<1> QED
  BY <1>2, <1>5

\* A step of one process, that becomes l, keeps the invariant when it keeps
\* what the invariant says of the tables and of that process.
LEMMA Frame ==
    ASSUME SharedAssumption, IInv,
           NEW s \in Procs, NEW l \in Local, Becomes(s, l),
           Grows(proc[s].key),
           DOMAIN rows' \subseteq Keys, \A k \in DOMAIN rows' : rows'[k] \in Row,
           edges' \subseteq Edge, bundles' \in [Bundles -> SUBSET Keys],
           ops' \in 0..MaxOps, crashes' \in 0..MaxCrashes,
           EdgesAnchored', RetiredForNewer',
           l.key = NoKey \/ \A o \in Procs : o # s => proc[o].key # l.key,
           Plan(l)', Place(l)'
    PROVE  IInv'
<1>1. proc' \in [Procs -> Local] /\ proc'[s] = l /\ \A o \in Procs : o # s => proc'[o] = proc[o]
  BY DEF IInv, TypeOK, Becomes
<1>2. TypeOK'
  BY <1>1 DEF TypeOK
<1>3. Apart'
  BY <1>1 DEF IInv, Apart
<1>4. ASSUME NEW o \in Procs PROVE Plan(proc[o])' /\ Place(proc[o])'
  <2>1. CASE o = s
    BY <1>1, <2>1 DEF Plan, Place, Kept, First, Retired, Targets, Replaced
  <2>2. CASE o # s
    <3>1. PICK m : m = proc[o]
      OBVIOUS
    <3>2. Plan(m) /\ Place(m)
      BY <3>1 DEF IInv, Held
    <3>3. m.key = NoKey \/ m.key # proc[s].key
      BY <2>2, <3>1 DEF IInv, Apart
    <3>4. Plan(m)' /\ Place(m)'
      BY <3>2, <3>3, HeldStays
    <3> QED
      BY <1>1, <2>2, <3>1, <3>4 DEF Plan, Place, Kept, First, Retired, Targets, Replaced
  <2> QED
    BY <2>1, <2>2
<1> QED
  BY <1>2, <1>3, <1>4 DEF IInv, Held

\* The same for a step that leaves the tables alone.
LEMMA QuietFrame ==
    ASSUME SharedAssumption, IInv,
           NEW s \in Procs, NEW l \in Local, Becomes(s, l),
           UNCHANGED <<rows, edges, bundles>>,
           ops' \in 0..MaxOps, crashes' \in 0..MaxCrashes,
           l.key = NoKey \/ \A o \in Procs : o # s => proc[o].key # l.key,
           Plan(l), Place(l)
    PROVE  IInv'
<1>1. Grows(proc[s].key)
  BY DEF Grows
<1>2. EdgesAnchored' /\ RetiredForNewer'
  BY DEF IInv, EdgesAnchored, RetiredForNewer, IsActive
<1>3. Plan(l)' /\ Place(l)'
  BY DEF Plan, Place, Kept, First, Retired
<1>4. /\ DOMAIN rows' \subseteq Keys /\ \A k \in DOMAIN rows' : rows'[k] \in Row
      /\ edges' \subseteq Edge /\ bundles' \in [Bundles -> SUBSET Keys]
  BY DEF IInv, TypeOK
<1> QED
  BY <1>1, <1>2, <1>3, <1>4, Frame

-----------------------------------------------------------------------------
(* What a process holds, as it goes on *)

\* A process whose cell is stored goes on with its call.
LEMMA ResumeHeld ==
    ASSUME NEW l \in Local, Plan(l), l.key # NoKey => l.key \in DOMAIN rows
    PROVE  Plan(Resume(l)) /\ Place(Resume(l))
<1>1. Plan(Rest) /\ Place(Rest)
  BY DEF Plan, Place, Rest
<1>2. ASSUME NEW pc \in {"join", "supersede", "weigh", "finish", "tick"},
             pc # "tick" => l.key # NoKey
      PROVE  /\ Plan([l EXCEPT !.pc = pc, !.out = NoKey])
             /\ Place([l EXCEPT !.pc = pc, !.out = NoKey])
  BY <1>2 DEF Plan, Place, Local
<1> QED
  BY <1>1, <1>2 DEF Resume, Plan

\* A process whose cell is stored starts to put a cell it may write back.
LEMMA PuttingHeld ==
    ASSUME NEW l \in Local, Plan(l), NEW c \in Cell, Kept(c),
           l.key # NoKey => l.key \in DOMAIN rows
    PROVE  Plan(Putting(l, c)) /\ Place(Putting(l, c))
<1>1. Plan(Putting(l, c))
  BY DEF Plan, Putting, Local
<1>2. /\ Putting(l, c).pc = "row" /\ Putting(l, c).key = l.key
      /\ Putting(l, c).out = c /\ Putting(l, c).left = c.links
  BY DEF Putting, Local
<1> QED
  BY <1>1, <1>2 DEF Place

\* What is read may be written back, also once it is recomputed.
LEMMA ReadKept ==
    ASSUME IInv, NEW k \in DOMAIN rows
    PROVE  Kept(Read(k)) /\ Kept(Recounted(k))
<1>1. Targets(Read(k).links) \subseteq DOMAIN rows
  BY DEF Read, Targets, IInv, EdgesAnchored
<1>2. rows[k].status # "active" => Retired(k)
  BY DEF IInv, RetiredForNewer, IsActive, Retired
<1>3. Read(k).key = k /\ Read(k).row = rows[k]
  BY DEF Read
<1>4. rows[k] \in Row
  BY DEF IInv, TypeOK
<1>5. /\ Recounted(k).key = k /\ Recounted(k).links = Read(k).links
      /\ Recounted(k).row.content = rows[k].content
      /\ Recounted(k).row.status = rows[k].status
  BY <1>4 DEF Recounted, Read, Row
<1> QED
  BY <1>1, <1>2, <1>3, <1>5 DEF Kept

-----------------------------------------------------------------------------
(* Each step keeps the invariant *)

\* What the invariant says of one process.
LEMMA HeldBy ==
    ASSUME IInv, NEW s \in Procs
    PROVE  /\ proc[s] \in Local
           /\ Plan(proc[s]) /\ Place(proc[s])
           /\ proc[s].key # NoKey => \A o \in Procs : o # s => proc[o].key # proc[s].key
           /\ proc[s].key # NoKey => proc[s].key \in Keys
           /\ proc[s].pc # "row" /\ proc[s].key # NoKey => proc[s].key \in DOMAIN rows
           /\ ops \in 0..MaxOps /\ crashes \in 0..MaxCrashes
<1>1. proc[s] \in Local /\ ops \in 0..MaxOps /\ crashes \in 0..MaxCrashes
  BY DEF IInv, TypeOK
<1>2. Plan(proc[s]) /\ Place(proc[s])
  BY DEF IInv, Held
<1>3. proc[s].key # NoKey => \A o \in Procs : o # s => proc[o].key # proc[s].key
  BY DEF IInv, Apart
<1> QED
  BY <1>1, <1>2, <1>3 DEF Place, First, Local

\* A process that had its cell stored, and goes on as Resume(m) says, keeps the
\* invariant.
LEMMA ResumeStep ==
    ASSUME SharedAssumption, IInv, NEW s \in Procs, NEW m \in Local,
           Becomes(s, Resume(m)), Plan(m),
           m.key = proc[s].key, m.key # NoKey => m.key \in DOMAIN rows,
           UNCHANGED <<rows, edges, bundles>>,
           ops' \in 0..MaxOps, crashes' \in 0..MaxCrashes
    PROVE  IInv'
<1>1. PICK l \in Local : l = Resume(m)
  BY ResumeType
<1>2. Plan(l) /\ Place(l)
  BY <1>1, ResumeHeld
<1>3. l.key \in {m.key, NoKey}
  BY <1>1 DEF Resume, Rest, Local
<1>4. l.key = NoKey \/ \A o \in Procs : o # s => proc[o].key # l.key
  BY <1>3, HeldBy
<1>5. Becomes(s, l)
  BY <1>1
<1> QED
  BY <1>2, <1>4, <1>5, QuietFrame

\* A process that had its cell stored, and starts to put a cell it may write
\* back, keeps the invariant.
LEMMA PuttingStep ==
    ASSUME SharedAssumption, IInv, NEW s \in Procs, NEW m \in Local, NEW c \in Cell,
           Becomes(s, Putting(m, c)), Plan(m), Kept(c),
           m.key \in {proc[s].key, NoKey}, m.key # NoKey => m.key \in DOMAIN rows,
           UNCHANGED <<rows, edges, bundles>>,
           ops' \in 0..MaxOps, crashes' \in 0..MaxCrashes
    PROVE  IInv'
<1>1. PICK l \in Local : l = Putting(m, c)
  BY PuttingType
<1>2. Plan(l) /\ Place(l)
  BY <1>1, PuttingHeld
<1>3. l.key = m.key
  BY <1>1 DEF Putting, Local
<1>4. l.key = NoKey \/ \A o \in Procs : o # s => proc[o].key # l.key
  BY <1>3, HeldBy
<1>5. Becomes(s, l)
  BY <1>1
<1> QED
  BY <1>2, <1>4, <1>5, QuietFrame

\* The row of a cell is written: the first one under its key, or one with the
\* content that is stored.
LEMMA PutRowStep ==
    ASSUME SharedAssumption, IInv, NEW s \in Procs, PutRow(s)
    PROVE  IInv' /\ Grows(proc[s].key)
<1> DEFINE c == proc[s].out
<1>1. /\ proc[s] \in Local /\ Plan(proc[s]) /\ Place(proc[s])
      /\ proc[s].pc = "row" /\ c \in Cell
      /\ Kept(c) \/ First(proc[s])
  BY HeldBy DEF PutRow, Place
<1>2. /\ DOMAIN rows' = DOMAIN rows \cup {c.key}
      /\ rows'[c.key] = c.row
      /\ \A k \in DOMAIN rows : k # c.key => rows'[k] = rows[k]
      /\ edges' = edges /\ bundles' = bundles /\ ops' = ops /\ crashes' = crashes
  BY DEF PutRow
<1>3. Grows(proc[s].key)
  BY <1>1, <1>2 DEF Grows, Kept, First
<1>4. PICK l \in Local : l = [proc[s] EXCEPT !.pc = "clear"]
  BY <1>1 DEF Local, Phases
<1>5. /\ l.pc = "clear" /\ l.key = proc[s].key /\ l.out = c /\ l.left = proc[s].left
      /\ l.prop = proc[s].prop /\ l.supersedes = proc[s].supersedes
      /\ l.weighs = proc[s].weighs /\ l.members = proc[s].members
      /\ l.queue = proc[s].queue /\ l.joins = proc[s].joins /\ l.final = proc[s].final
  BY <1>1, <1>4 DEF Local
<1>6. \A k \in DOMAIN rows' : rows'[k] \in Row
  BY <1>1, <1>2 DEF IInv, TypeOK, Cell
<1>7. DOMAIN rows' \subseteq Keys
  BY <1>1, <1>2 DEF IInv, TypeOK, Cell
<1>8. EdgesAnchored'
  BY <1>2 DEF IInv, EdgesAnchored
<1>9. RetiredForNewer'
  <2>1. ASSUME NEW t \in DOMAIN rows', rows'[t].status # "active"
        PROVE  Retired(t)'
    <3>1. Retired(t)
      BY <1>1, <1>2, <2>1 DEF Kept, First, IInv, RetiredForNewer, IsActive, Retired
    <3> QED
      BY <1>3, <3>1, RetiredStays
  <2> QED
    BY <2>1 DEF RetiredForNewer, IsActive, Retired
<1>10. PICK d \in Cell : d = c
  BY <1>1
<1>11. Kept(d)'
  <2>1. CASE Kept(c)
    <3>1. Kept(d)
      BY <1>10, <2>1
    <3> QED
      BY <3>1, <1>3, KeptStays
  <2>2. CASE First(proc[s])
    BY <1>2, <1>10, <2>2 DEF Kept, First
  <2> QED
    BY <1>1, <2>1, <2>2
<1>12. Plan(l)'
  <2>1. \A x \in l.queue : Kept(x)'
    BY <1>1, <1>3, <1>5, KeptStays DEF Plan
  <2>2. l.key # NoKey => (l.key \in DOMAIN rows' => rows'[l.key].content = l.prop.content)
    BY <1>1, <1>2, <1>3, <1>5 DEF Plan, Place, Grows, Kept, First
  <2> QED
    BY <1>1, <1>3, <1>5, <2>1, <2>2 DEF Plan, Grows
<1>13. Place(l)'
  <2>1. l.key # NoKey => l.key \in DOMAIN rows'
    BY <1>1, <1>2, <1>5 DEF Place, First
  <2>2. l.out \in Cell /\ l.left \subseteq l.out.links
    BY <1>1, <1>5 DEF Place
  <2>3. Kept(l.out)'
    BY <1>5, <1>10, <1>11
  <2> QED
    BY <1>5, <2>1, <2>2, <2>3 DEF Place
<1>14. l.key = NoKey \/ \A o \in Procs : o # s => proc[o].key # l.key
  BY <1>5, HeldBy
<1>15. /\ edges' \subseteq Edge /\ bundles' \in [Bundles -> SUBSET Keys]
       /\ ops' \in 0..MaxOps /\ crashes' \in 0..MaxCrashes
  BY <1>2 DEF IInv, TypeOK
<1>16. Becomes(s, l)
  BY <1>4 DEF PutRow
<1> HIDE DEF c
<1> QED
  BY <1>3, <1>6, <1>7, <1>8, <1>9, <1>12, <1>13, <1>14, <1>15, <1>16, Frame

\* A statement that writes edges or a bundle, and no row, keeps the invariant
\* when what it writes is anchored and its process goes on well.
LEMMA TablesStep ==
    ASSUME SharedAssumption, IInv, NEW s \in Procs, NEW l \in Local, Becomes(s, l),
           Plan(l), Place(l), l.key \in {proc[s].key, NoKey},
           edges' \subseteq Edge, bundles' \in [Bundles -> SUBSET Keys], EdgesAnchored',
           UNCHANGED <<rows, ops, crashes>>
    PROVE  IInv'
<1>1. Grows(proc[s].key)
  BY DEF Grows
<1>2. Plan(l)' /\ Place(l)'
  BY DEF Plan, Place, Kept, First, Retired
<1>3. RetiredForNewer'
  BY DEF IInv, RetiredForNewer, IsActive
<1>4. l.key = NoKey \/ \A o \in Procs : o # s => proc[o].key # l.key
  BY HeldBy
<1>5. /\ DOMAIN rows' \subseteq Keys /\ \A k \in DOMAIN rows' : rows'[k] \in Row
      /\ ops' \in 0..MaxOps /\ crashes' \in 0..MaxCrashes
  BY DEF IInv, TypeOK
<1> QED
  BY <1>1, <1>2, <1>3, <1>4, <1>5, Frame

\* The edges of the cell are deleted.
LEMMA PutClearStep ==
    ASSUME SharedAssumption, IInv, NEW s \in Procs, PutClear(s)
    PROVE  IInv'
<1>1. /\ proc[s] \in Local /\ Plan(proc[s]) /\ Place(proc[s])
      /\ proc[s].key # NoKey => proc[s].key \in DOMAIN rows
      /\ proc[s].pc = "clear"
  BY HeldBy DEF PutClear
<1>2. edges' \subseteq Edge /\ bundles' \in [Bundles -> SUBSET Keys] /\ EdgesAnchored'
  BY DEF PutClear, IInv, TypeOK, EdgesAnchored
<1>3. CASE proc[s].left = {}
  <2>1. PICK l \in Local : l = Resume(proc[s])
    BY <1>1, ResumeType
  <2>2. Plan(l) /\ Place(l)
    BY <1>1, <2>1, ResumeHeld
  <2>3. l.key \in {proc[s].key, NoKey}
    BY <1>1, <2>1 DEF Resume, Rest, Local
  <2>4. Becomes(s, l)
    BY <1>3, <2>1 DEF PutClear
  <2> QED
    BY <1>2, <2>2, <2>3, <2>4, TablesStep DEF PutClear
<1>4. CASE proc[s].left # {}
  <2>1. PICK l \in Local : l = [proc[s] EXCEPT !.pc = "link"]
    BY <1>1 DEF Local, Phases
  <2>2. Plan(l) /\ Place(l)
    BY <1>1, <2>1 DEF Plan, Place, Local
  <2>3. l.key = proc[s].key
    BY <1>1, <2>1 DEF Local
  <2>4. Becomes(s, l)
    BY <1>4, <2>1 DEF PutClear
  <2> QED
    BY <1>2, <2>2, <2>3, <2>4, TablesStep DEF PutClear
<1> QED
  BY <1>3, <1>4

\* One edge of the cell is inserted.
LEMMA PutLinkStep ==
    ASSUME SharedAssumption, IInv, NEW s \in Procs, PutLink(s)
    PROVE  IInv'
<1>1. /\ proc[s] \in Local /\ Plan(proc[s]) /\ Place(proc[s])
      /\ proc[s].key # NoKey => proc[s].key \in DOMAIN rows
      /\ proc[s].pc = "link"
  BY HeldBy DEF PutLink
<1>2. PICK x \in proc[s].left :
         /\ edges' = edges \cup {[from |-> proc[s].out.key, rel |-> x.rel, to |-> x.to]}
         /\ LET now == [proc[s] EXCEPT !.left = @ \ {x}] IN
            Becomes(s, IF now.left = {} THEN Resume(now) ELSE now)
  BY DEF PutLink
<1>3. /\ proc[s].out \in Cell /\ Kept(proc[s].out) /\ x \in proc[s].out.links
  BY <1>1 DEF Place
<1>4. /\ x \in Link /\ proc[s].out.key \in Keys
      /\ proc[s].out.key \in DOMAIN rows /\ x.to \in DOMAIN rows
  BY <1>3 DEF Cell, Kept, Targets
<1>5. edges' \subseteq Edge
  BY <1>2, <1>4 DEF IInv, TypeOK, Edge, Link
<1>6. bundles' = bundles /\ rows' = rows /\ ops' = ops /\ crashes' = crashes
  BY DEF PutLink
<1>7. EdgesAnchored'
  BY <1>2, <1>4, <1>6 DEF IInv, EdgesAnchored
<1>8. bundles' \in [Bundles -> SUBSET Keys]
  BY <1>6 DEF IInv, TypeOK
<1>9. PICK m \in Local : m = [proc[s] EXCEPT !.left = @ \ {x}]
  BY <1>1 DEF Local
<1>10. Plan(m) /\ Place(m) /\ m.key = proc[s].key
  BY <1>1, <1>9 DEF Plan, Place, Local
<1>11. CASE m.left = {}
  <2>1. PICK l \in Local : l = Resume(m)
    BY ResumeType
  <2>2. Plan(l) /\ Place(l)
    BY <1>1, <1>10, <2>1, ResumeHeld
  <2>3. l.key \in {proc[s].key, NoKey}
    BY <1>10, <2>1 DEF Resume, Rest, Local
  <2>4. Becomes(s, l)
    BY <1>2, <1>9, <1>11, <2>1
  <2> QED
    BY <1>5, <1>6, <1>7, <1>8, <2>2, <2>3, <2>4, TablesStep
<1>12. CASE m.left # {}
  <2>1. Becomes(s, m)
    BY <1>2, <1>9, <1>12
  <2> QED
    BY <1>5, <1>6, <1>7, <1>8, <1>10, <2>1, TablesStep
<1> QED
  BY <1>11, <1>12

\* admit() passes its checks and starts to put the new cell.
LEMMA BeginAdmitStep ==
    ASSUME SharedAssumption, IInv, NEW s \in Procs,
           NEW p \in Proposals, NEW k \in Keys, BeginAdmit(s, p, k)
    PROVE  IInv'
<1> DEFINE plan == [Rest EXCEPT
          !.call = "admit", !.key = k, !.prop = p, !.final = TRUE, !.joins = p.bundles,
          !.supersedes = {l.to : l \in {x \in p.links : x.rel = "supersedes"}},
          !.weighs = {l.to : l \in {x \in p.links : x.rel \in Evidential}}]
<1>1. p \in Proposal /\ k # NoKey
  BY DEF SharedAssumption
<1>2. /\ \A l \in p.links : l.to \in DOMAIN rows /\ l \in Link
      /\ k \notin DOMAIN rows /\ \A o \in Procs : proc[o].key # k
      /\ "admit" \in Calls
  BY <1>1 DEF BeginAdmit, TargetsStored, Unused, MayStart, Proposal
<1>3. /\ {l.to : l \in {x \in p.links : x.rel = "supersedes"}} \in SUBSET Keys
      /\ {l.to : l \in {x \in p.links : x.rel \in Evidential}} \in SUBSET Keys
  BY <1>2 DEF Link
<1>4. plan \in Local
  BY <1>1, <1>2, <1>3, RestType DEF Local, Proposal
<1>5. /\ plan.key = k /\ plan.prop = p /\ plan.queue = {} /\ plan.members = {}
      /\ plan.supersedes = Replaced(p)
      /\ plan.weighs = {l.to : l \in {x \in p.links : x.rel \in Evidential}}
  BY DEF Rest, Replaced
<1>6. Plan(plan)
  BY <1>1, <1>2, <1>5 DEF Plan, Targets, Replaced
<1>7. Built(k, p, {}, {}) \in Cell
  BY BuiltType
<1>8. PICK l \in Local : l = Putting(plan, Built(k, p, {}, {}))
  BY <1>4, <1>7, PuttingType
<1>9. Becomes(s, l) /\ UNCHANGED <<rows, edges, bundles, crashes>> /\ ops' = ops + 1
  BY <1>8 DEF BeginAdmit
<1>10. /\ l.pc = "row" /\ l.out = Built(k, p, {}, {}) /\ l.left = l.out.links
       /\ l.key = k /\ l.prop = p /\ l.queue = {} /\ l.members = {}
       /\ l.supersedes = plan.supersedes /\ l.weighs = plan.weighs
  BY <1>4, <1>5, <1>8 DEF Putting, Built, Local
<1>11. Plan(l)
  BY <1>1, <1>5, <1>6, <1>10 DEF Plan
<1>12. First(l)
  BY <1>1, <1>2, <1>10 DEF First, Built, Targets
<1>13. Place(l)
  BY <1>7, <1>10, <1>12 DEF Place
<1>14. ops' \in 0..MaxOps /\ crashes' \in 0..MaxCrashes
  BY <1>9 DEF IInv, TypeOK, BeginAdmit, MayStart, SharedAssumption
<1> HIDE DEF plan
<1> QED
  BY <1>2, <1>9, <1>10, <1>11, <1>13, <1>14, QuietFrame


\* A bundle not joined yet is read.
LEMMA JoinReadStep ==
    ASSUME SharedAssumption, IInv, NEW s \in Procs, JoinRead(s)
    PROVE  IInv'
<1>1. /\ proc[s] \in Local /\ Plan(proc[s]) /\ Place(proc[s])
      /\ proc[s].pc = "join" /\ proc[s].key # NoKey /\ proc[s].key \in DOMAIN rows
  BY HeldBy DEF JoinRead, Place
<1>2. PICK b \in proc[s].joins :
         Becomes(s, [proc[s] EXCEPT !.pc = "member", !.bundle = b,
                                    !.members = bundles[b], !.joins = @ \ {b}])
  BY DEF JoinRead
<1>3. b \in Bundles /\ bundles[b] \in SUBSET Keys /\ bundles[b] \subseteq DOMAIN rows
  BY <1>1 DEF Local, IInv, TypeOK, EdgesAnchored
<1>4. PICK l \in Local : l = [proc[s] EXCEPT !.pc = "member", !.bundle = b,
                                    !.members = bundles[b], !.joins = @ \ {b}]
  BY <1>1, <1>3 DEF Local, Phases
<1>5. /\ l.pc = "member" /\ l.bundle = b /\ l.members = bundles[b] /\ l.key = proc[s].key
      /\ l.prop = proc[s].prop /\ l.supersedes = proc[s].supersedes
      /\ l.weighs = proc[s].weighs /\ l.queue = proc[s].queue /\ l.final = proc[s].final
  BY <1>1, <1>4 DEF Local
<1>6. Plan(l) /\ Place(l)
  BY <1>1, <1>3, <1>5 DEF Plan, Place
<1>7. Becomes(s, l)
  BY <1>2, <1>4
<1>8. l.key = NoKey \/ \A o \in Procs : o # s => proc[o].key # l.key
  BY <1>5, HeldBy
<1>9. ops' \in 0..MaxOps /\ crashes' \in 0..MaxCrashes
  BY DEF JoinRead, IInv, TypeOK
<1> QED
  BY <1>6, <1>7, <1>8, <1>9, QuietFrame DEF JoinRead

\* The bundle is written back with the new cell.
LEMMA JoinWriteStep ==
    ASSUME SharedAssumption, IInv, NEW s \in Procs, JoinWrite(s)
    PROVE  IInv'
<1>1. /\ proc[s] \in Local /\ Plan(proc[s]) /\ Place(proc[s])
      /\ proc[s].pc = "member" /\ proc[s].bundle \in Bundles
      /\ proc[s].key \in Keys /\ proc[s].key \in DOMAIN rows
  BY HeldBy DEF JoinWrite, Place
<1>2. PICK m \in Local : m = [proc[s] EXCEPT !.bundle = NoKey, !.members = {}]
  BY <1>1 DEF Local
<1>3. Plan(m) /\ m.key = proc[s].key
  BY <1>1, <1>2 DEF Plan, Local
<1>4. PICK l \in Local : l = Resume(m)
  BY ResumeType
<1>5. Plan(l) /\ Place(l)
  BY <1>1, <1>3, <1>4, ResumeHeld
<1>6. l.key \in {proc[s].key, NoKey}
  BY <1>3, <1>4 DEF Resume, Rest, Local
<1>7. Becomes(s, l)
  BY <1>2, <1>4 DEF JoinWrite
<1>8. /\ bundles' = [bundles EXCEPT ![proc[s].bundle] = proc[s].members \cup {proc[s].key}]
      /\ UNCHANGED <<rows, edges, ops, crashes>>
  BY DEF JoinWrite
<1>9. proc[s].members \in SUBSET Keys /\ proc[s].members \subseteq DOMAIN rows
  BY <1>1 DEF Local, Plan
<1>10. bundles' \in [Bundles -> SUBSET Keys]
  BY <1>1, <1>8, <1>9 DEF IInv, TypeOK
<1>11. EdgesAnchored'
  BY <1>1, <1>8, <1>9 DEF IInv, TypeOK, EdgesAnchored
<1>12. edges' \subseteq Edge
  BY <1>8 DEF IInv, TypeOK
<1> QED
  BY <1>5, <1>6, <1>7, <1>8, <1>10, <1>11, <1>12, TablesStep

\* A target to supersede is read, and demoted if it is active.
LEMMA SupersedeStep ==
    ASSUME SharedAssumption, IInv, NEW s \in Procs, Supersede(s)
    PROVE  IInv'
<1>1. /\ proc[s] \in Local /\ Plan(proc[s]) /\ Place(proc[s])
      /\ proc[s].pc = "supersede" /\ proc[s].key # NoKey /\ proc[s].key \in DOMAIN rows
  BY HeldBy DEF Supersede, Place
<1>2. PICK t \in proc[s].supersedes :
         LET now == [proc[s] EXCEPT !.supersedes = @ \ {t}] IN
         Becomes(s, IF IsActive(t)
                    THEN Putting([now EXCEPT !.lineage = @ \cup {t}],
                                 [Read(t) EXCEPT !.row.status = "superseded"])
                    ELSE Resume(now))
  BY DEF Supersede
<1>3. t \in DOMAIN rows /\ t \in Keys /\ t \in Replaced(proc[s].prop)
  BY <1>1 DEF Plan, IInv, TypeOK
<1>4. PICK now \in Local : now = [proc[s] EXCEPT !.supersedes = @ \ {t}]
  BY <1>1 DEF Local
<1>5. Plan(now) /\ now.key = proc[s].key
  BY <1>1, <1>4 DEF Plan, Local
<1>6. /\ UNCHANGED <<rows, edges, bundles>>
      /\ ops' \in 0..MaxOps /\ crashes' \in 0..MaxCrashes
  BY DEF Supersede, IInv, TypeOK
<1>7. CASE IsActive(t)
  <2>1. PICK m \in Local : m = [now EXCEPT !.lineage = @ \cup {t}]
    <3>1. now.lineage \cup {t} \in SUBSET Keys
      BY <1>3, <1>4 DEF Local
    <3> QED
      BY <1>4, <3>1 DEF Local
  <2>2. Plan(m) /\ m.key = proc[s].key
    BY <1>5, <2>1 DEF Plan, Local
  <2>3. PICK c \in Cell : c = [Read(t) EXCEPT !.row.status = "superseded"]
    BY <1>3, ReadType DEF IInv
  <2>4. /\ c.key = t /\ c.links = Read(t).links /\ c.row.content = rows[t].content
    BY <1>3, <2>3 DEF Read, IInv, TypeOK, Row
  <2>5. Retired(t)
    BY <1>1, <1>3 DEF Retired, Replaced, Plan, SharedAssumption, Proposal, Link
  <2>6. Kept(Read(t))
    BY <1>3, ReadKept
  <2>7. Kept(c)
    BY <2>4, <2>5, <2>6 DEF Kept, Read
  <2>8. Becomes(s, Putting(m, c))
    BY <1>2, <1>4, <1>7, <2>1, <2>3
  <2> QED
    BY <1>1, <1>6, <2>2, <2>7, <2>8, PuttingStep
<1>8. CASE ~IsActive(t)
  <2>1. Becomes(s, Resume(now))
    BY <1>2, <1>4, <1>8
  <2> QED
    BY <1>1, <1>5, <1>6, <2>1, ResumeStep
<1> QED
  BY <1>7, <1>8

\* A target of evidence is read, recomputed and going to be put.
LEMMA WeighStep ==
    ASSUME SharedAssumption, IInv, NEW s \in Procs, Weigh(s)
    PROVE  IInv'
<1>1. /\ proc[s] \in Local /\ Plan(proc[s]) /\ Place(proc[s])
      /\ proc[s].pc = "weigh" /\ proc[s].key # NoKey /\ proc[s].key \in DOMAIN rows
  BY HeldBy DEF Weigh, Place
<1>2. PICK t \in proc[s].weighs :
         Becomes(s, Putting([proc[s] EXCEPT !.weighs = @ \ {t}], Recounted(t)))
  BY DEF Weigh
<1>3. t \in DOMAIN rows
  BY <1>1 DEF Plan
<1>4. PICK m \in Local : m = [proc[s] EXCEPT !.weighs = @ \ {t}]
  BY <1>1 DEF Local
<1>5. Plan(m) /\ m.key = proc[s].key
  BY <1>1, <1>4 DEF Plan, Local
<1>6. PICK c \in Cell : c = Recounted(t)
  BY <1>3, ReadType DEF IInv
<1>7. Kept(c)
  BY <1>3, <1>6, ReadKept
<1>8. Becomes(s, Putting(m, c))
  BY <1>2, <1>4, <1>6
<1>9. /\ UNCHANGED <<rows, edges, bundles>>
      /\ ops' \in 0..MaxOps /\ crashes' \in 0..MaxCrashes
  BY DEF Weigh, IInv, TypeOK
<1> QED
  BY <1>1, <1>5, <1>7, <1>8, <1>9, PuttingStep

\* The new cell is going to be put again.
LEMMA FinishStep ==
    ASSUME SharedAssumption, IInv, NEW s \in Procs, Finish(s)
    PROVE  IInv'
<1>1. /\ proc[s] \in Local /\ Plan(proc[s]) /\ Place(proc[s])
      /\ proc[s].pc = "finish" /\ proc[s].key # NoKey
      /\ proc[s].key \in Keys /\ proc[s].key \in DOMAIN rows
  BY HeldBy DEF Finish, Place
<1>2. /\ proc[s].prop \in Proposals /\ Targets(proc[s].prop.links) \subseteq DOMAIN rows
      /\ rows[proc[s].key].content = proc[s].prop.content
  BY <1>1 DEF Plan
<1>3. Incoming(proc[s].key) \in SUBSET Evidence /\ proc[s].lineage \in SUBSET Keys
  BY <1>1 DEF Incoming, Local
<1>4. PICK c \in Cell : c = Built(proc[s].key, proc[s].prop, proc[s].lineage,
                                  Incoming(proc[s].key))
  BY <1>1, <1>2, <1>3, BuiltType
<1>5. Kept(c)
  BY <1>1, <1>2, <1>4 DEF Kept, Built, Targets
<1>6. PICK m \in Local : m = [proc[s] EXCEPT !.final = FALSE]
  BY <1>1 DEF Local
<1>7. Plan(m) /\ m.key = proc[s].key
  BY <1>1, <1>6 DEF Plan, Local
<1>8. Becomes(s, Putting(m, c))
  BY <1>4, <1>6 DEF Finish
<1>9. /\ UNCHANGED <<rows, edges, bundles>>
      /\ ops' \in 0..MaxOps /\ crashes' \in 0..MaxCrashes
  BY DEF Finish, IInv, TypeOK
<1> QED
  BY <1>1, <1>5, <1>7, <1>8, <1>9, PuttingStep


\* A cell is read, to be put with another salience.
LEMMA BeginTouchStep ==
    ASSUME SharedAssumption, IInv, NEW s \in Procs, NEW k \in DOMAIN rows, BeginTouch(s, k)
    PROVE  IInv'
<1>1. "touch" \in Calls
  BY DEF BeginTouch, MayStart
<1>2. PICK m \in Local : m = [Rest EXCEPT !.call = "touch"]
  BY <1>1, RestType DEF Local
<1>3. Plan(m) /\ m.key = NoKey
  BY <1>2 DEF Plan, Rest
<1>4. PICK c \in Cell : c = Read(k)
  BY ReadType DEF IInv
<1>5. Kept(c)
  BY <1>4, ReadKept
<1>6. Becomes(s, Putting(m, c))
  BY <1>2, <1>4 DEF BeginTouch
<1>7. /\ UNCHANGED <<rows, edges, bundles>>
      /\ ops' \in 0..MaxOps /\ crashes' \in 0..MaxCrashes
  BY DEF BeginTouch, MayStart, IInv, TypeOK, SharedAssumption
<1> QED
  BY <1>3, <1>5, <1>6, <1>7, PuttingStep

\* A tick reads the active cells and recomputes them.
LEMMA BeginTickStep ==
    ASSUME SharedAssumption, IInv, NEW s \in Procs, BeginTick(s)
    PROVE  IInv'
<1> DEFINE read == {Recounted(k) : k \in {c \in DOMAIN rows : IsActive(c)}}
<1>1. "tick" \in Calls
  BY DEF BeginTick, MayStart
<1>2. read \in SUBSET Cell /\ \A c \in read : Kept(c)
  BY ReadType, ReadKept DEF IInv
<1>3. PICK m \in Local : m = [Rest EXCEPT !.call = "tick", !.queue = read]
  BY <1>1, <1>2, RestType DEF Local
<1>4. /\ m.key = NoKey /\ m.queue = read /\ m.joins = {} /\ m.supersedes = {}
      /\ m.weighs = {} /\ m.members = {} /\ m.final = FALSE
  BY <1>3 DEF Rest
<1>5. Plan(m)
  BY <1>2, <1>4 DEF Plan
<1>6. PICK l \in Local : l = Resume(m)
  BY ResumeType
<1>7. Plan(l) /\ Place(l)
  BY <1>4, <1>5, <1>6, ResumeHeld
<1>8. l.key = NoKey
  BY <1>4, <1>6 DEF Resume, Rest, Local
<1>9. Becomes(s, l)
  BY <1>3, <1>6 DEF BeginTick
<1>10. /\ UNCHANGED <<rows, edges, bundles>>
       /\ ops' \in 0..MaxOps /\ crashes' \in 0..MaxCrashes
  BY DEF BeginTick, MayStart, IInv, TypeOK, SharedAssumption
<1> QED
  BY <1>7, <1>8, <1>9, <1>10, QuietFrame

\* The tick goes on with one of the cells it read.
LEMMA TickNextStep ==
    ASSUME SharedAssumption, IInv, NEW s \in Procs, TickNext(s)
    PROVE  IInv'
<1>1. /\ proc[s] \in Local /\ Plan(proc[s]) /\ Place(proc[s])
      /\ proc[s].key # NoKey => proc[s].key \in DOMAIN rows
  BY HeldBy DEF TickNext
<1>2. PICK c \in proc[s].queue : Becomes(s, Putting([proc[s] EXCEPT !.queue = @ \ {c}], c))
  BY DEF TickNext
<1>3. c \in Cell /\ Kept(c)
  BY <1>1 DEF Plan, Local
<1>4. PICK m \in Local : m = [proc[s] EXCEPT !.queue = @ \ {c}]
  BY <1>1 DEF Local
<1>5. Plan(m) /\ m.key = proc[s].key
  BY <1>1, <1>4 DEF Plan, Local
<1>6. Becomes(s, Putting(m, c))
  BY <1>2, <1>4
<1>7. /\ UNCHANGED <<rows, edges, bundles>>
      /\ ops' \in 0..MaxOps /\ crashes' \in 0..MaxCrashes
  BY DEF TickNext, IInv, TypeOK
<1> QED
  BY <1>1, <1>3, <1>5, <1>6, <1>7, PuttingStep

\* A process that is killed holds nothing.
LEMMA CrashStep ==
    ASSUME SharedAssumption, IInv, NEW s \in Procs, Crash(s)
    PROVE  IInv'
<1>1. PICK l \in Local : l = Rest
  BY RestType
<1>2. Plan(l) /\ Place(l) /\ l.key = NoKey
  BY <1>1 DEF Plan, Place, Rest
<1>3. Becomes(s, l)
  BY <1>1 DEF Crash
<1>4. /\ UNCHANGED <<rows, edges, bundles>>
      /\ ops' \in 0..MaxOps /\ crashes' \in 0..MaxCrashes
  BY DEF Crash, IInv, TypeOK, SharedAssumption
<1> QED
  BY <1>2, <1>3, <1>4, QuietFrame

-----------------------------------------------------------------------------
(* The theorems *)

\* The invariant holds at the start.
LEMMA InitInvariant ==
    ASSUME Init
    PROVE  IInv
<1>1. /\ rows = [k \in {} |-> {}] /\ edges = {} /\ bundles = [b \in Bundles |-> {}]
      /\ proc = [s \in Procs |-> Rest] /\ ops = 0 /\ crashes = 0
  BY DEF Init
<1>2. TypeOK
  BY <1>1, RestType, SharedAssumption DEF TypeOK, SharedAssumption
<1>3. EdgesAnchored /\ RetiredForNewer
  BY <1>1 DEF EdgesAnchored, RetiredForNewer
<1>4. Apart
  BY <1>1 DEF Apart, Rest
<1>5. Held
  BY <1>1 DEF Held, Plan, Place, Rest
<1> QED
  BY <1>2, <1>3, <1>4, <1>5 DEF IInv

\* The invariant holds after every step, and the step keeps what is stored.
LEMMA StepInvariant ==
    ASSUME IInv, [Next]_vars
    PROVE  IInv' /\ \A k \in DOMAIN rows : k \in DOMAIN rows'
                                             /\ rows'[k].content = rows[k].content
<1>1. CASE UNCHANGED vars
  <2>1. TypeOK' /\ EdgesAnchored' /\ Apart'
    BY <1>1 DEF vars, IInv, TypeOK, EdgesAnchored, Apart
  <2>2. RetiredForNewer'
    BY <1>1 DEF vars, IInv, RetiredForNewer, IsActive
  <2>3. ASSUME NEW s \in Procs PROVE Plan(proc[s])' /\ Place(proc[s])'
    <3>1. Plan(proc[s])'
      BY <1>1 DEF vars, IInv, Held, Plan, Kept, Retired
    <3>2. Place(proc[s])'
      BY <1>1 DEF vars, IInv, Held, Place, Kept, First, Retired
    <3> QED
      BY <3>1, <3>2
  <2> QED
    BY <1>1, <2>1, <2>2, <2>3 DEF vars, IInv, Held
<1>2. ASSUME NEW s \in Procs, PutRow(s)
      PROVE  IInv' /\ \A k \in DOMAIN rows : k \in DOMAIN rows'
                                               /\ rows'[k].content = rows[k].content
  BY <1>2, SharedAssumption, PutRowStep DEF Grows
<1>3. ASSUME NEW s \in Procs, Begin(s)
      PROVE  IInv' /\ rows' = rows
  <2>1. CASE \E p \in Proposals, k \in Keys : BeginAdmit(s, p, k)
    BY <2>1, SharedAssumption, BeginAdmitStep DEF BeginAdmit
  <2>2. CASE \E k \in DOMAIN rows : BeginTouch(s, k)
    BY <2>2, SharedAssumption, BeginTouchStep DEF BeginTouch
  <2>3. CASE BeginTick(s)
    BY <2>3, SharedAssumption, BeginTickStep DEF BeginTick
  <2> QED
    BY <1>3, <2>1, <2>2, <2>3 DEF Begin
<1>4. ASSUME NEW s \in Procs, Continue(s), ~PutRow(s)
      PROVE  IInv' /\ rows' = rows
  <2>1. CASE PutClear(s)
    BY <2>1, SharedAssumption, PutClearStep DEF PutClear
  <2>2. CASE PutLink(s)
    BY <2>2, SharedAssumption, PutLinkStep DEF PutLink
  <2>3. CASE JoinRead(s)
    BY <2>3, SharedAssumption, JoinReadStep DEF JoinRead
  <2>4. CASE JoinWrite(s)
    BY <2>4, SharedAssumption, JoinWriteStep DEF JoinWrite
  <2>5. CASE Supersede(s)
    BY <2>5, SharedAssumption, SupersedeStep DEF Supersede
  <2>6. CASE Weigh(s)
    BY <2>6, SharedAssumption, WeighStep DEF Weigh
  <2>7. CASE Finish(s)
    BY <2>7, SharedAssumption, FinishStep DEF Finish
  <2>8. CASE TickNext(s)
    BY <2>8, SharedAssumption, TickNextStep DEF TickNext
  <2> QED
    BY <1>4, <2>1, <2>2, <2>3, <2>4, <2>5, <2>6, <2>7, <2>8 DEF Continue
<1>5. ASSUME NEW s \in Procs, Crash(s)
      PROVE  IInv' /\ rows' = rows
  BY <1>5, SharedAssumption, CrashStep DEF Crash
<1> QED
  BY <1>1, <1>2, <1>3, <1>4, <1>5 DEF Next

\* The invariant holds throughout.
LEMMA Invariant == Spec => []IInv
<1>1. Init => IInv
  BY InitInvariant
<1>2. IInv /\ [Next]_vars => IInv'
  BY StepInvariant
<1> QED
  BY <1>1, <1>2, PTL DEF Spec

\* However many processes share the file, the tables and what the processes
\* hold keep their types.
THEOREM SharedType == Spec => []TypeOK
<1>1. IInv => TypeOK
  BY DEF IInv
<1> QED
  BY <1>1, Invariant, PTL

\* However many processes share the file, and whichever are killed between two
\* statements of put() or admit(), every stored edge joins two stored cells and
\* every member of a bundle is stored.
THEOREM SharedEdgesAnchored == Spec => []EdgesAnchored
<1>1. IInv => EdgesAnchored
  BY DEF IInv
<1> QED
  BY <1>1, Invariant, PTL

\* However many processes share the file, and whichever are killed, admit() has
\* stored the successor of every cell that is superseded.
THEOREM SharedRetiredForNewer == Spec => []RetiredForNewer
<1>1. IInv => RetiredForNewer
  BY DEF IInv
<1> QED
  BY <1>1, Invariant, PTL

\* However many processes write whole cells back, none loses a cell or changes
\* what a cell says.
THEOREM SharedNothingLost == Spec => NothingLost
<1>1. IInv /\ [Next]_vars =>
         [\A k \in DOMAIN rows : k \in DOMAIN rows' /\ rows'[k].content = rows[k].content]_rows
  BY StepInvariant
<1> QED
  BY <1>1, Invariant, PTL DEF Spec, NothingLost

-----------------------------------------------------------------------------
(***************************************************************************)
(* Theorems about SharedStore when calls take turns (Overlap = {}), for    *)
(* any number of processes and calls: bundles keep their members, what a   *)
(* killed call leaves behind can be traced, and without kills the calls    *)
(* settle the store and implement the memory Recall promises.              *)
(*                                                                         *)
(* A call is a sequence of statements, and between two of them the tables  *)
(* are half written.  The invariant therefore speaks of the tables as they *)
(* will read once the put() under way is done (Seen, Whole): the three     *)
(* statements of a put leave those unchanged, and every other step of a    *)
(* call changes them as a whole.  Of them it says what the call still owes *)
(* (Book), and what no call owes any more is right (Clean, Traced).        *)
(***************************************************************************)
Puts == {"row", "clear", "link"}

EdgesOf(k, links) == {[from |-> k, rel |-> x.rel, to |-> x.to] : x \in links}
LinksOf(W, k)     == {x \in Link : [from |-> k, rel |-> x.rel, to |-> x.to] \in W}

\* The cells that links bear on.
Borne(links) == {l.to : l \in {x \in links : x.rel \in Evidential}}

\* The evidence for k in the cells V and the edges W.
Heard(V, W, k) == {x \in Evidence : /\ x.from \in DOMAIN V
                                    /\ [from |-> x.from, rel |-> x.rel, to |-> k] \in W}

\* The cells V once the row of c is written.
With(V, c) == [k \in DOMAIN V \cup {c.key} |-> IF k = c.key THEN c.row ELSE V[k]]

\* The cells R and the edges E once the put() that l is in is done.
Seen(R, l)  == IF l.pc = "row" THEN With(R, l.out) ELSE R
Whole(E, l) == IF l.pc \in Puts THEN E \cup EdgesOf(l.out.key, l.left) ELSE E

\* The row about to be written replaces a stored one: it says the same, with the
\* edges that are stored, and it demotes a cell of the lineage at most, or names
\* the lineage when it is the last put of an admission.
Rewrites(R, E, l) ==
    LET c == l.out IN
    /\ c.key \in DOMAIN R
    /\ LinksOf(E, c.key) = c.links
    /\ c.row.content = R[c.key].content
    /\ c.row.status = R[c.key].status \/ c.key \in l.lineage
    /\ c.row.lineage = R[c.key].lineage \/ c.key = l.key
    /\ c.key = l.key => ~l.final

\* The row about to be written is the first under its key.
Opens(R, l) == l.out.key = l.key /\ l.final /\ l.key \notin DOMAIN R

\* How far the put() under way is, and what is left of the call: the first put
\* comes before anything is demoted, the last one when nothing else is left.
Fit(R, E, l) ==
    /\ l.pc \in Puts =>
          /\ l.left \subseteq l.out.links
          /\ LinksOf(E, l.out.key) \cup l.left = l.out.links
          /\ l.pc # "link" => l.left = l.out.links
          /\ l.key # NoKey /\ l.final /\ l.out.key = l.key => l.lineage = {}
    /\ l.pc = "row" => Opens(R, l) \/ Rewrites(R, E, l)
    /\ l.key # NoKey /\ ~l.final => l.pc \in Puts /\ l.out.key = l.key
    /\ l.pc = "finish" \/ ~l.final => l.joins = {} /\ l.supersedes = {} /\ l.weighs = {}
    /\ l.pc = "finish" => l.final

\* The books of a call.  What a tick has read is what is stored; the cell an
\* admission has put is active, holds the edges of its proposal, and has
\* demoted the cells of its lineage, which its own row names with the last put.
Book(V, W, l) ==
    /\ \A c \in l.queue : /\ c.key \in DOMAIN V
                          /\ c.row = [V[c.key] EXCEPT !.counted = Heard(V, W, c.key)]
                          /\ c.links = LinksOf(W, c.key)
    /\ l.key = NoKey => l.lineage = {} /\ ~l.final
    /\ l.key # NoKey =>
          /\ l.queue = {}
          /\ l.key \in DOMAIN V
          /\ V[l.key].status = "active"
          /\ V[l.key].content = l.prop.content
          /\ V[l.key].lineage = IF l.final THEN {} ELSE l.lineage
          /\ LinksOf(W, l.key) = l.prop.links
          /\ l.key \notin l.lineage \cup l.supersedes \cup l.weighs
          /\ l.lineage \subseteq Replaced(l.prop)
          /\ \A t \in l.lineage : t \in DOMAIN V /\ V[t].status = "superseded"

\* Confidence accounts for the stored evidence, but for the cells the call is
\* yet to weigh; lineage is among the edges; every superseded cell is in the
\* lineage of one stored, or of the call.
Clean(V, W, l) ==
    \A k \in DOMAIN V :
       /\ V[k].counted = Heard(V, W, k) \/ k \in l.weighs
       /\ \A t \in V[k].lineage : [from |-> k, rel |-> "supersedes", to |-> t] \in W
       /\ V[k].status = "superseded" =>
             k \in l.lineage \/ \E j \in DOMAIN V : k \in V[j].lineage

\* A superseded cell can be traced to its successor, by lineage or by edge.
Traced(V, W, l) ==
    \A k \in DOMAIN V : V[k].status = "superseded" =>
       \/ k \in l.lineage
       \/ \E j \in DOMAIN V : \/ k \in V[j].lineage
                              \/ [from |-> j, rel |-> "supersedes", to |-> k] \in W

\* The cells V and the edges W, with the call l under way and n calls killed.
Sound(V, W, n, l) ==
    /\ Book(V, W, l)
    /\ n = 0 => Clean(V, W, l)
    /\ n <= 1 => Traced(V, W, l)

Good(R, E, B, n, l) ==
    /\ Fit(R, E, l)
    /\ Sound(Seen(R, l), Whole(E, l), n, l)
    /\ l.pc = "member" => l.members = B[l.bundle]

\* At most one process is in a call; between calls the store is as good as
\* under a process at rest.
Alone == \A s, o \in Procs : s # o => proc[s].pc = "idle" \/ proc[o].pc = "idle"

TInv ==
    /\ Alone
    /\ Idle => Good(rows, edges, bundles, crashes, Rest)
    /\ \A s \in Procs : IF proc[s].pc = "idle" THEN proc[s] = Rest
                        ELSE Good(rows, edges, bundles, crashes, proc[s])

-----------------------------------------------------------------------------
(* A call goes on *)

\* A call that goes on with the same cell, and with less to do, stays in order.
LEMMA SoundOn ==
    ASSUME NEW V, NEW W, NEW n, NEW l, NEW m, Sound(V, W, n, l),
           m.key = l.key, m.prop = l.prop, m.lineage = l.lineage, m.final = l.final,
           m.weighs = l.weighs, m.supersedes \subseteq l.supersedes,
           m.queue \subseteq l.queue
    PROVE  Sound(V, W, n, m)
<1>1. Book(V, W, m)
  BY DEF Sound, Book
<1>2. Clean(V, W, l) => Clean(V, W, m)
  BY DEF Clean
<1>3. Traced(V, W, l) => Traced(V, W, m)
  BY DEF Traced
<1> QED
  BY <1>1, <1>2, <1>3 DEF Sound

\* A call that has nothing left to do leaves the store settled.
LEMMA SoundRest ==
    ASSUME NEW V, NEW W, NEW n, NEW l, Sound(V, W, n, l), ~l.final, l.weighs = {}
    PROVE  Sound(V, W, n, Rest)
<1>1. Rest.queue = {} /\ Rest.key = NoKey /\ Rest.lineage = {} /\ Rest.final = FALSE /\ Rest.weighs = {}
  BY DEF Rest
<1>2. Book(V, W, Rest)
  BY <1>1 DEF Book
<1>3. \A k \in l.lineage : \E j \in DOMAIN V : k \in V[j].lineage
  BY DEF Sound, Book
<1>4. Clean(V, W, l) => Clean(V, W, Rest)
  BY <1>1, <1>3 DEF Clean
<1>5. Traced(V, W, l) => Traced(V, W, Rest)
  BY <1>1, <1>3 DEF Traced
<1> QED
  BY <1>2, <1>4, <1>5 DEF Sound

\* A process at rest is in order when the tables are.
LEMMA RestGood ==
    ASSUME NEW R, NEW E, NEW B, NEW n, Sound(R, E, n, Rest)
    PROVE  Good(R, E, B, n, Rest)
<1>1. Rest.pc = "idle" /\ Rest.key = NoKey /\ Rest.joins = {} /\ Rest.supersedes = {} /\ Rest.weighs = {}
  BY DEF Rest
<1>2. Fit(R, E, Rest)
  BY <1>1 DEF Fit, Puts
<1> QED
  BY <1>1, <1>2 DEF Good, Seen, Whole, Puts

\* When a put is done, or there is none, the call goes on or ends.
LEMMA ResumeGood ==
    ASSUME NEW R, NEW E, NEW B, NEW n, NEW l \in Local, Sound(R, E, n, l),
           ~l.final => l.joins = {} /\ l.supersedes = {} /\ l.weighs = {}
    PROVE  Good(R, E, B, n, Resume(l))
<1>1. ASSUME NEW pc \in {"join", "supersede", "weigh", "finish", "tick"},
             pc = "tick" => l.queue # {},
             pc # "tick" => l.final,
             pc = "finish" => l.joins = {} /\ l.supersedes = {} /\ l.weighs = {}
      PROVE  Good(R, E, B, n, [l EXCEPT !.pc = pc, !.out = NoKey])
  <2>1. PICK m : m = [l EXCEPT !.pc = pc, !.out = NoKey]
    OBVIOUS
  <2>2. /\ m.pc = pc /\ m.key = l.key /\ m.prop = l.prop /\ m.lineage = l.lineage
        /\ m.final = l.final /\ m.weighs = l.weighs /\ m.supersedes = l.supersedes
        /\ m.queue = l.queue /\ m.joins = l.joins
    BY <2>1 DEF Local
  <2>3. Sound(R, E, n, m)
    BY <2>2, SoundOn
  <2>4. l.queue # {} => l.key = NoKey
    BY DEF Sound, Book
  <2>5. Fit(R, E, m)
    BY <1>1, <2>2, <2>4 DEF Fit, Puts
  <2>6. Good(R, E, B, n, m)
    BY <1>1, <2>2, <2>3, <2>5 DEF Good, Seen, Whole, Puts
  <2> QED
    BY <2>1, <2>6
<1>2. ~l.final => Good(R, E, B, n, Rest)
  BY SoundRest, RestGood
<1> QED
  BY <1>1, <1>2 DEF Resume, Local

-----------------------------------------------------------------------------
(* The three statements of a put *)

\* The row is written; what is left is to write the edges.
LEMMA RowGood ==
    ASSUME NEW R, NEW E, NEW B, NEW n, NEW l \in Local, Good(R, E, B, n, l), l.pc = "row",
           NEW S, S = With(R, l.out)
    PROVE  Good(S, E, B, n, [l EXCEPT !.pc = "clear"])
<1>1. PICK m : m = [l EXCEPT !.pc = "clear"]
  OBVIOUS
<1>2. /\ m.pc = "clear" /\ m.key = l.key /\ m.prop = l.prop /\ m.lineage = l.lineage
      /\ m.final = l.final /\ m.weighs = l.weighs /\ m.supersedes = l.supersedes
      /\ m.queue = l.queue /\ m.joins = l.joins /\ m.out = l.out /\ m.left = l.left
  BY <1>1 DEF Local
<1>3. Seen(S, m) = Seen(R, l) /\ Whole(E, m) = Whole(E, l)
  BY <1>2 DEF Seen, Whole, Puts
<1>4. Sound(Seen(S, m), Whole(E, m), n, m)
  BY <1>2, <1>3, SoundOn DEF Good
<1>5. Fit(S, E, m)
  BY <1>2 DEF Good, Fit, Puts
<1>6. Good(S, E, B, n, m)
  BY <1>2, <1>4, <1>5 DEF Good
<1> QED
  BY <1>1, <1>6

\* The edges of a cell and its links say the same.
LEMMA LinkEdges ==
    ASSUME NEW E \in SUBSET Edge, NEW k \in Keys, NEW links \in SUBSET Link
    PROVE  /\ \A e \in E : e.from = k =>
                 \E x \in LinksOf(E, k) : e = [from |-> k, rel |-> x.rel, to |-> x.to]
           /\ EdgesOf(k, links) \in SUBSET Edge
           /\ LinksOf(E \cup EdgesOf(k, links), k) = LinksOf(E, k) \cup links
           /\ LinksOf(E, k) \subseteq links =>
                 \A e \in E : e.from # k \/ e \in EdgesOf(k, links)
<1>1. ASSUME NEW e \in E, e.from = k
      PROVE  \E x \in LinksOf(E, k) : e = [from |-> k, rel |-> x.rel, to |-> x.to]
  <2>1. PICK x : x = [rel |-> e.rel, to |-> e.to]
    OBVIOUS
  <2>2. x \in Link /\ e = [from |-> k, rel |-> x.rel, to |-> x.to]
    BY <1>1, <2>1 DEF Edge, Link
  <2> QED
    BY <2>2 DEF LinksOf
<1>2. EdgesOf(k, links) \in SUBSET Edge
  BY DEF EdgesOf, Edge, Link
<1>3. ASSUME NEW x \in Link
      PROVE  [from |-> k, rel |-> x.rel, to |-> x.to] \in EdgesOf(k, links) <=> x \in links
  <2>1. ASSUME NEW y \in links, [from |-> k, rel |-> x.rel, to |-> x.to]
                              = [from |-> k, rel |-> y.rel, to |-> y.to]
        PROVE  x = y
    BY <2>1 DEF Link
  <2> QED
    BY <2>1 DEF EdgesOf
<1>4. LinksOf(E \cup EdgesOf(k, links), k) = LinksOf(E, k) \cup links
  BY <1>3 DEF LinksOf
<1>5. ASSUME LinksOf(E, k) \subseteq links, NEW e \in E
      PROVE  e.from # k \/ e \in EdgesOf(k, links)
  BY <1>1, <1>5 DEF EdgesOf
<1> QED
  BY <1>1, <1>2, <1>4, <1>5

\* What a well-typed process is in the middle of putting.
LEMMA PutType ==
    ASSUME NEW l \in Local, l.out \in Cell, l.left \subseteq l.out.links
    PROVE  l.out.key \in Keys /\ l.out.row \in Row /\ l.out.links \in SUBSET Link /\ l.left \in SUBSET Link
BY DEF Cell

\* The edges of the cell are deleted: the put is done, or they are all to be
\* inserted.
LEMMA ClearGood ==
    ASSUME NEW R, NEW E \in SUBSET Edge, NEW B, NEW n, NEW l \in Local, l.out \in Cell,
           Good(R, E, B, n, l), l.pc = "clear",
           NEW F, F = {e \in E : e.from # l.out.key}
    PROVE  Good(R, F, B, n, IF l.left = {} THEN Resume(l) ELSE [l EXCEPT !.pc = "link"])
<1>1. /\ l.left = l.out.links /\ LinksOf(E, l.out.key) \subseteq l.left
      /\ l.out.key \in Keys /\ l.left \in SUBSET Link
  BY PutType DEF Good, Fit, Puts
<1>2. E \cup EdgesOf(l.out.key, l.left) = F \cup EdgesOf(l.out.key, l.left)
  <2>1. \A e \in E : e.from # l.out.key \/ e \in EdgesOf(l.out.key, l.left)
    BY <1>1, LinkEdges
  <2> QED
    BY <2>1
<1>3. Sound(R, F \cup EdgesOf(l.out.key, l.left), n, l)
  BY <1>2 DEF Good, Seen, Whole, Puts
<1>4. CASE l.left = {}
  <2>1. EdgesOf(l.out.key, l.left) = {}
    BY <1>4 DEF EdgesOf
  <2>2. Sound(R, F, n, l)
    BY <1>3, <2>1
  <2>3. ~l.final => l.joins = {} /\ l.supersedes = {} /\ l.weighs = {}
    BY DEF Good, Fit
  <2> QED
    BY <1>4, <2>2, <2>3, ResumeGood
<1>5. CASE l.left # {}
  <2>1. PICK m : m = [l EXCEPT !.pc = "link"]
    OBVIOUS
  <2>2. /\ m.pc = "link" /\ m.key = l.key /\ m.prop = l.prop /\ m.lineage = l.lineage
        /\ m.final = l.final /\ m.weighs = l.weighs /\ m.supersedes = l.supersedes
        /\ m.queue = l.queue /\ m.joins = l.joins /\ m.out = l.out /\ m.left = l.left
    BY <2>1 DEF Local
  <2>3. LinksOf(F, l.out.key) = {}
    BY DEF LinksOf
  <2>4. Fit(R, F, m)
    BY <1>1, <2>2, <2>3 DEF Good, Fit, Puts
  <2>5. Seen(R, m) = R /\ Whole(F, m) = F \cup EdgesOf(l.out.key, l.left)
    BY <2>2 DEF Seen, Whole, Puts
  <2>6. Sound(Seen(R, m), Whole(F, m), n, m)
    BY <1>3, <2>2, <2>5, SoundOn
  <2>7. Good(R, F, B, n, m)
    BY <2>2, <2>4, <2>6 DEF Good
  <2> QED
    BY <1>5, <2>1, <2>7
<1> QED
  BY <1>4, <1>5

\* One of the edges is inserted.
LEMMA LinkGood ==
    ASSUME NEW R, NEW E \in SUBSET Edge, NEW B, NEW n, NEW l \in Local, l.out \in Cell,
           Good(R, E, B, n, l), l.pc = "link", NEW x \in l.left,
           NEW F, F = E \cup {[from |-> l.out.key, rel |-> x.rel, to |-> x.to]},
           NEW m, m = [l EXCEPT !.left = @ \ {x}]
    PROVE  Good(R, F, B, n, IF m.left = {} THEN Resume(m) ELSE m)
<1>0. PICK o : o = m
  OBVIOUS
<1>1. /\ m.pc = "link" /\ m.key = l.key /\ m.prop = l.prop /\ m.lineage = l.lineage
      /\ m.final = l.final /\ m.weighs = l.weighs /\ m.supersedes = l.supersedes
      /\ m.queue = l.queue /\ m.joins = l.joins /\ m.out = l.out /\ m.left = l.left \ {x}
      /\ m \in Local
  BY DEF Local
<1>2. /\ l.left \subseteq l.out.links /\ LinksOf(E, l.out.key) \cup l.left = l.out.links
      /\ l.out.key \in Keys /\ l.left \in SUBSET Link /\ x \in Link
  BY PutType DEF Good, Fit, Puts
<1>3. F = E \cup EdgesOf(l.out.key, {x})
  BY DEF EdgesOf
<1>4. LinksOf(F, l.out.key) = LinksOf(E, l.out.key) \cup {x}
  <2>1. PICK L \in SUBSET Link : L = {x}
    BY <1>2
  <2> QED
    BY <1>2, <1>3, <2>1, LinkEdges
<1>5. F \cup EdgesOf(l.out.key, m.left) = E \cup EdgesOf(l.out.key, l.left)
  BY <1>1, <1>3 DEF EdgesOf
<1>6. Sound(R, F \cup EdgesOf(m.out.key, m.left), n, m)
  <2>1. PICK W : W = F \cup EdgesOf(m.out.key, m.left)
    OBVIOUS
  <2>2. Sound(R, W, n, l)
    BY <1>1, <1>5, <2>1 DEF Good, Seen, Whole, Puts
  <2>3. /\ o.key = l.key /\ o.prop = l.prop /\ o.lineage = l.lineage /\ o.final = l.final
        /\ o.weighs = l.weighs /\ o.supersedes = l.supersedes /\ o.queue = l.queue
    BY <1>0, <1>1
  <2>4. Sound(R, W, n, o)
    BY <2>2, <2>3, SoundOn
  <2> QED
    BY <1>0, <2>1, <2>4
<1>7. CASE m.left = {}
  <2>1. EdgesOf(m.out.key, m.left) = {}
    BY <1>7 DEF EdgesOf
  <2>2. Sound(R, F, n, m)
    BY <1>6, <2>1
  <2>3. ~m.final => m.joins = {} /\ m.supersedes = {} /\ m.weighs = {}
    BY <1>1 DEF Good, Fit
  <2> QED
    BY <1>1, <1>7, <2>2, <2>3, ResumeGood
<1>8. CASE m.left # {}
  <2>1. Fit(R, F, m)
    <3>1. LinksOf(F, m.out.key) \cup m.left = m.out.links /\ m.left \subseteq m.out.links
      <4>1. PICK A, L, O : A = LinksOf(E, l.out.key) /\ L = l.left /\ O = l.out.links
        OBVIOUS
      <4>2. x \in L /\ L \subseteq O /\ A \cup L = O
        BY <1>2, <4>1
      <4>3. (A \cup {x}) \cup (L \ {x}) = O /\ L \ {x} \subseteq O
        BY <4>2
      <4> QED
        BY <1>1, <1>4, <4>1, <4>3
    <3> QED
      BY <1>1, <3>1 DEF Good, Fit, Puts
  <2>2. Seen(R, m) = R /\ Whole(F, m) = F \cup EdgesOf(m.out.key, m.left)
    BY <1>1 DEF Seen, Whole, Puts
  <2>3. Good(R, F, B, n, m)
    BY <1>1, <1>6, <2>1, <2>2 DEF Good
  <2> QED
    BY <1>8, <2>3
<1> QED
  BY <1>7, <1>8

-----------------------------------------------------------------------------
(* A call starts to put a cell *)

\* The tables with one cell in them replaced have the same keys.
LEMMA WithSame ==
    ASSUME NEW V, NEW c, c.key \in DOMAIN V, NEW W
    PROVE  /\ DOMAIN With(V, c) = DOMAIN V
           /\ With(V, c)[c.key] = c.row
           /\ \A k \in DOMAIN V : k # c.key => With(V, c)[k] = V[k]
           /\ \A k : Heard(With(V, c), W, k) = Heard(V, W, k)
<1>1. DOMAIN With(V, c) = DOMAIN V
  BY DEF With
<1> QED
  BY <1>1 DEF With, Heard

\* A cell is going to be written back as it is stored, or with the confidence
\* the stored evidence gives it.
LEMMA SoundRecounted ==
    ASSUME NEW V, NEW W, NEW n, NEW l, Sound(V, W, n, l), NEW c, c.key \in DOMAIN V,
           c.row.status = V[c.key].status, c.row.lineage = V[c.key].lineage,
           c.row.content = V[c.key].content,
           \A h : [c.row EXCEPT !.counted = h] = [V[c.key] EXCEPT !.counted = h],
           c.row.counted = V[c.key].counted \/ c.row.counted = Heard(V, W, c.key),
           NEW m, m.key = l.key, m.prop = l.prop, m.lineage = l.lineage, m.final = l.final,
           m.supersedes \subseteq l.supersedes, m.queue \subseteq l.queue,
           \/ m.weighs = l.weighs
           \/ m.weighs = l.weighs \ {c.key} /\ c.row.counted = Heard(V, W, c.key)
    PROVE  Sound(With(V, c), W, n, m)
<1>1. PICK X : X = With(V, c)
  OBVIOUS
<1>2. /\ DOMAIN X = DOMAIN V
      /\ X[c.key] = c.row
      /\ \A k \in DOMAIN V : k # c.key => X[k] = V[k]
      /\ \A k : Heard(X, W, k) = Heard(V, W, k)
  BY <1>1, WithSame
<1>3. \A k \in DOMAIN V : /\ X[k].content = V[k].content /\ X[k].status = V[k].status
                          /\ X[k].lineage = V[k].lineage
  BY <1>2
<1>4. ASSUME NEW k \in DOMAIN V, NEW h
      PROVE  [X[k] EXCEPT !.counted = h] = [V[k] EXCEPT !.counted = h]
  <2>1. CASE k = c.key
    BY <1>2, <2>1
  <2>2. CASE k # c.key
    BY <1>2, <2>2
  <2> QED
    BY <2>1, <2>2
<1>5. Book(X, W, m)
  <2>1. ASSUME NEW d \in m.queue
        PROVE  /\ d.key \in DOMAIN X
               /\ d.row = [X[d.key] EXCEPT !.counted = Heard(X, W, d.key)]
               /\ d.links = LinksOf(W, d.key)
    <3>1. /\ d.key \in DOMAIN V /\ d.links = LinksOf(W, d.key)
          /\ d.row = [V[d.key] EXCEPT !.counted = Heard(V, W, d.key)]
      BY DEF Sound, Book
    <3>2. Heard(X, W, d.key) = Heard(V, W, d.key)
      BY <1>2
    <3>3. [X[d.key] EXCEPT !.counted = Heard(V, W, d.key)]
          = [V[d.key] EXCEPT !.counted = Heard(V, W, d.key)]
      BY <1>4, <3>1
    <3> QED
      BY <1>2, <3>1, <3>2, <3>3
  <2>2. m.key = NoKey => m.lineage = {} /\ ~m.final
    BY DEF Sound, Book
  <2>3. m.key # NoKey =>
          /\ m.queue = {}
          /\ m.key \in DOMAIN X
          /\ X[m.key].status = "active"
          /\ X[m.key].content = m.prop.content
          /\ X[m.key].lineage = IF m.final THEN {} ELSE m.lineage
          /\ LinksOf(W, m.key) = m.prop.links
          /\ m.key \notin m.lineage \cup m.supersedes \cup m.weighs
          /\ m.lineage \subseteq Replaced(m.prop)
    BY <1>2, <1>3 DEF Sound, Book
  <2>4. m.key # NoKey => \A t \in m.lineage : t \in DOMAIN X /\ X[t].status = "superseded"
    BY <1>2, <1>3 DEF Sound, Book
  <2> QED
    BY <2>1, <2>2, <2>3, <2>4 DEF Book
<1>6. Clean(V, W, l) => Clean(X, W, m)
  BY <1>2, <1>3 DEF Clean
<1>7. Traced(V, W, l) => Traced(X, W, m)
  BY <1>2, <1>3 DEF Traced
<1> QED
  BY <1>1, <1>5, <1>6, <1>7 DEF Sound

\* A cell is going to be demoted, and joins the lineage of the call.
LEMMA SoundDemoted ==
    ASSUME NEW V, NEW W, NEW n, NEW l, Sound(V, W, n, l), NEW c, c.key \in DOMAIN V,
           c.row.status = "superseded", c.row.lineage = V[c.key].lineage,
           c.row.content = V[c.key].content, c.row.counted = V[c.key].counted,
           l.key # NoKey, l.final, c.key \in l.supersedes, c.key \in Replaced(l.prop),
           NEW m, m.key = l.key, m.prop = l.prop, m.lineage = l.lineage \cup {c.key},
           m.final = l.final, m.supersedes \subseteq l.supersedes, m.queue = l.queue,
           m.weighs = l.weighs
    PROVE  Sound(With(V, c), W, n, m)
<1>1. PICK X : X = With(V, c)
  OBVIOUS
<1>2. /\ DOMAIN X = DOMAIN V
      /\ X[c.key] = c.row
      /\ \A k \in DOMAIN V : k # c.key => X[k] = V[k]
      /\ \A k : Heard(X, W, k) = Heard(V, W, k)
  BY <1>1, WithSame
<1>3. l.queue = {} /\ l.lineage \subseteq DOMAIN V /\ c.key # l.key
  BY DEF Sound, Book
<1>4. \A k \in DOMAIN V : /\ X[k].content = V[k].content /\ X[k].lineage = V[k].lineage
                          /\ X[k].counted = V[k].counted
                          /\ k # c.key => X[k].status = V[k].status
  BY <1>2
<1>5. Book(X, W, m)
  BY <1>2, <1>3, <1>4 DEF Sound, Book
<1>6. Clean(V, W, l) => Clean(X, W, m)
  BY <1>2, <1>4 DEF Clean
<1>7. Traced(V, W, l) => Traced(X, W, m)
  BY <1>2, <1>4 DEF Traced
<1> QED
  BY <1>1, <1>5, <1>6, <1>7 DEF Sound

\* What the links of a cell say of its edges.
LEMMA ReplacedEdges ==
    ASSUME NEW W, NEW k, NEW p, p.links = LinksOf(W, k), NEW t \in Replaced(p)
    PROVE  [from |-> k, rel |-> "supersedes", to |-> t] \in W
BY DEF Replaced, LinksOf

\* The new cell is going to be put again, with the cells it demoted as lineage
\* and the confidence the stored evidence gives it.
LEMMA SoundNamed ==
    ASSUME NEW V, NEW W, NEW n, NEW l, Sound(V, W, n, l), NEW c, c.key = l.key,
           c.row.content = l.prop.content, c.row.status = "active",
           c.row.lineage = l.lineage, c.row.counted = Heard(V, W, l.key),
           l.key # NoKey, l.final,
           NEW m, m.key = l.key, m.prop = l.prop, m.lineage = l.lineage, ~m.final,
           m.supersedes \subseteq l.supersedes, m.queue = l.queue, m.weighs = l.weighs
    PROVE  Sound(With(V, c), W, n, m)
<1>1. PICK X : X = With(V, c)
  OBVIOUS
<1>2. c.key \in DOMAIN V /\ V[l.key].lineage = {} /\ V[l.key].status = "active"
  BY DEF Sound, Book
<1>3. /\ DOMAIN X = DOMAIN V
      /\ X[c.key] = c.row
      /\ \A k \in DOMAIN V : k # c.key => X[k] = V[k]
      /\ \A k : Heard(X, W, k) = Heard(V, W, k)
  BY <1>1, <1>2, WithSame
<1>4. Book(X, W, m)
  BY <1>2, <1>3 DEF Sound, Book
<1>5. \A t \in l.lineage : [from |-> l.key, rel |-> "supersedes", to |-> t] \in W
  BY ReplacedEdges DEF Sound, Book
<1>6. Clean(V, W, l) => Clean(X, W, m)
  BY <1>2, <1>3, <1>5 DEF Clean
<1>7. Traced(V, W, l) => Traced(X, W, m)
  BY <1>2, <1>3 DEF Traced
<1> QED
  BY <1>1, <1>4, <1>6, <1>7 DEF Sound

\* A call that starts to write a stored cell back is in order when it is so with
\* the row written.
LEMMA RewriteGood ==
    ASSUME NEW R, NEW E \in SUBSET Edge, NEW B, NEW n, NEW m \in Local, NEW c \in Cell,
           Rewrites(R, E, Putting(m, c)), Sound(With(R, c), E, n, m),
           m.key # NoKey /\ ~m.final => c.key = m.key,
           ~m.final => m.joins = {} /\ m.supersedes = {} /\ m.weighs = {}
    PROVE  Good(R, E, B, n, Putting(m, c))
<1>1. PICK l : l = Putting(m, c)
  OBVIOUS
<1>2. /\ l.pc = "row" /\ l.key = m.key /\ l.prop = m.prop /\ l.lineage = m.lineage
      /\ l.final = m.final /\ l.weighs = m.weighs /\ l.supersedes = m.supersedes
      /\ l.queue = m.queue /\ l.joins = m.joins /\ l.out = c /\ l.left = c.links
  BY <1>1 DEF Putting, Local
<1>3. c.key \in Keys /\ c.links \in SUBSET Link
  BY DEF Cell
<1>4. LinksOf(E, c.key) = c.links /\ (c.key = m.key => ~m.final)
  BY <1>1, <1>2 DEF Rewrites
<1>5. Seen(R, l) = With(R, c)
  BY <1>2 DEF Seen
<1>6. Whole(E, l) = E
  BY <1>2, <1>4 DEF Whole, EdgesOf, LinksOf, Puts
<1>7. Sound(Seen(R, l), Whole(E, l), n, l)
  BY <1>2, <1>5, <1>6, SoundOn
<1>8. Fit(R, E, l)
  BY <1>1, <1>2, <1>4 DEF Fit, Puts
<1> QED
  BY <1>1, <1>2, <1>7, <1>8 DEF Good

\* The evidence a proposal brings concerns the cells that are going to be scored again.
LEMMA HeardWith ==
    ASSUME NEW V, NEW W \in SUBSET Edge, \A e \in W : e.from \in DOMAIN V /\ e.to \in DOMAIN V,
           NEW c \in Cell, c.key \notin DOMAIN V, Targets(c.links) \subseteq DOMAIN V
    PROVE  /\ Heard(With(V, c), W \cup EdgesOf(c.key, c.links), c.key) = {}
           /\ \A k \in DOMAIN V :
                 \/ Heard(With(V, c), W \cup EdgesOf(c.key, c.links), k) = Heard(V, W, k)
                 \/ k \in Borne(c.links)
<1> DEFINE Y == W \cup EdgesOf(c.key, c.links)
<1>1. DOMAIN With(V, c) = DOMAIN V \cup {c.key}
  BY DEF With
<1>2. c.links \in SUBSET Link /\ \A x \in c.links : x.to \in DOMAIN V
  BY DEF Cell, Targets
<1>3. Heard(With(V, c), Y, c.key) = {}
  <2>1. ASSUME NEW x \in Evidence, [from |-> x.from, rel |-> x.rel, to |-> c.key] \in Y
        PROVE  FALSE
    <3>1. CASE [from |-> x.from, rel |-> x.rel, to |-> c.key] \in W
      BY <3>1
    <3>2. CASE \E y \in c.links : [from |-> x.from, rel |-> x.rel, to |-> c.key]
                                = [from |-> c.key, rel |-> y.rel, to |-> y.to]
      BY <1>2, <3>2
    <3> QED
      BY <2>1, <3>1, <3>2 DEF EdgesOf
  <2> QED
    BY <2>1 DEF Heard
<1>4. ASSUME NEW k \in DOMAIN V, Heard(With(V, c), Y, k) # Heard(V, W, k)
      PROVE  k \in Borne(c.links)
  <2>1. \A x \in Heard(V, W, k) : x \in Heard(With(V, c), Y, k)
    BY <1>1 DEF Heard
  <2>2. PICK x \in Heard(With(V, c), Y, k) : x \notin Heard(V, W, k)
    BY <1>4, <2>1
  <2>3. PICK e : e = [from |-> x.from, rel |-> x.rel, to |-> k]
    OBVIOUS
  <2>4. x \in Evidence /\ x.from \in DOMAIN V \cup {c.key} /\ e \in Y
    BY <1>1, <2>2, <2>3 DEF Heard
  <2>5. e.from = x.from /\ e.rel = x.rel /\ e.to = k /\ x.rel \in Evidential
    BY <2>3, <2>4 DEF Evidence
  <2>6. e \notin W
    BY <2>2, <2>3, <2>4, <2>5 DEF Heard
  <2>7. PICK y \in c.links : e = [from |-> c.key, rel |-> y.rel, to |-> y.to]
    BY <2>4, <2>6 DEF EdgesOf
  <2>8. y.rel \in Evidential /\ y.to = k
    BY <2>5, <2>7
  <2> QED
    BY <2>8 DEF Borne
<1> QED
  BY <1>3, <1>4

\* A call that starts to put a cell under a new key is in order when it is so
\* with the cell put.
LEMMA SoundOpened ==
    ASSUME NEW V, NEW W \in SUBSET Edge, NEW n, Sound(V, W, n, Rest),
           \A e \in W : e.from \in DOMAIN V /\ e.to \in DOMAIN V,
           NEW c \in Cell, c.key \notin DOMAIN V, Targets(c.links) \subseteq DOMAIN V,
           NEW Y, Y = W \cup EdgesOf(c.key, c.links),
           c.row.status = "active", c.row.lineage = {}, c.row.counted = {},
           NEW m, m.key = c.key, m.key # NoKey, m.final, m.lineage = {}, m.queue = {},
           m.prop.content = c.row.content, m.prop.links = c.links,
           m.supersedes \subseteq DOMAIN V,
           m.weighs = Borne(c.links)
    PROVE  Sound(With(V, c), Y, n, m)
<1>1. PICK X : X = With(V, c)
  OBVIOUS
<1>2. /\ DOMAIN X = DOMAIN V \cup {c.key}
      /\ X[c.key] = c.row
      /\ \A k \in DOMAIN V : k # c.key => X[k] = V[k]
  BY <1>1 DEF With
<1>3. /\ Heard(X, Y, c.key) = {}
      /\ \A k \in DOMAIN V : Heard(X, Y, k) = Heard(V, W, k) \/ k \in m.weighs
  <2>1. /\ Heard(With(V, c), W \cup EdgesOf(c.key, c.links), c.key) = {}
        /\ \A k \in DOMAIN V :
              \/ Heard(With(V, c), W \cup EdgesOf(c.key, c.links), k) = Heard(V, W, k)
              \/ k \in Borne(c.links)
    BY HeardWith
  <2> QED
    BY <1>1, <2>1
<1>4. Rest.lineage = {} /\ Rest.weighs = {}
  BY DEF Rest
<1>5. c.key \in Keys /\ c.links \in SUBSET Link /\ m.weighs \subseteq DOMAIN V
  BY DEF Cell, Targets, Borne
<1>6. LinksOf(Y, c.key) = c.links
  <2>1. LinksOf(W, c.key) = {}
    BY DEF LinksOf
  <2>2. PICK k \in Keys, L \in SUBSET Link : k = c.key /\ L = c.links
    BY <1>5
  <2>3. LinksOf(W \cup EdgesOf(k, L), k) = LinksOf(W, k) \cup L
    BY LinkEdges
  <2> QED
    BY <2>1, <2>2, <2>3
<1>7. Book(X, Y, m)
  BY <1>2, <1>5, <1>6 DEF Book
<1>8. Clean(V, W, Rest) => Clean(X, Y, m)
  <2>1. ASSUME Clean(V, W, Rest), NEW k \in DOMAIN V
        PROVE  /\ X[k].counted = Heard(X, Y, k) \/ k \in m.weighs
               /\ \A t \in X[k].lineage : [from |-> k, rel |-> "supersedes", to |-> t] \in Y
               /\ X[k].status = "superseded" => \E j \in DOMAIN X : k \in X[j].lineage
    <3>1. /\ V[k].counted = Heard(V, W, k)
          /\ \A t \in V[k].lineage : [from |-> k, rel |-> "supersedes", to |-> t] \in W
          /\ V[k].status = "superseded" => \E j \in DOMAIN V : k \in V[j].lineage
      BY <1>4, <2>1 DEF Clean
    <3>2. X[k] = V[k]
      BY <1>2
    <3> QED
      BY <1>2, <1>3, <3>1, <3>2
  <2> QED
    BY <1>2, <1>3, <2>1 DEF Clean
<1>9. Traced(V, W, Rest) => Traced(X, Y, m)
  BY <1>2, <1>4 DEF Traced
<1> QED
  BY <1>1, <1>7, <1>8, <1>9 DEF Sound

-----------------------------------------------------------------------------
(* A process is killed *)

\* What the first killed call leaves half written can be traced: the cells it
\* demoted are named by an edge of the cell it put first, and a put loses the
\* edges of a cell only while the row that names its lineage stays.
LEMMA CrashTraced ==
    ASSUME NEW R, NEW E \in SUBSET Edge, NEW B, NEW l \in Local,
           l.pc \in Puts => l.out \in Cell, Good(R, E, B, 0, l)
    PROVE  Traced(R, E, Rest)
<1> DEFINE V == Seen(R, l)
           W == Whole(E, l)
<1>1. Book(V, W, l) /\ Clean(V, W, l) /\ Fit(R, E, l)
  BY DEF Good, Sound
<1>2. SUFFICES ASSUME NEW t \in DOMAIN R, R[t].status = "superseded"
               PROVE  \E j \in DOMAIN R : \/ t \in R[j].lineage
                                          \/ [from |-> j, rel |-> "supersedes", to |-> t] \in E
  BY DEF Traced
<1> HIDE DEF V, W
<1>3. ASSUME NEW k \in DOMAIN V, V[k].status = "superseded"
      PROVE  \/ k \in l.lineage
             \/ \E j \in DOMAIN V : k \in V[j].lineage
  BY <1>1, <1>3 DEF Clean
<1>4. l.lineage # {} => l.key # NoKey
  BY <1>1 DEF Book
<1>5. \A k \in l.lineage : [from |-> l.key, rel |-> "supersedes", to |-> k] \in W
  BY <1>1, <1>4, ReplacedEdges DEF Book
<1>6. CASE l.pc \notin Puts
  <2>1. V = R /\ W = E
    BY <1>6 DEF V, W, Seen, Whole, Puts
  <2>2. l.lineage # {} => l.key \in DOMAIN R
    BY <1>1, <1>4, <2>1 DEF Book
  <2> QED
    BY <1>2, <1>3, <1>5, <2>1, <2>2
<1>7. CASE l.pc = "row" /\ Opens(R, l)
  <2>1. DOMAIN V = DOMAIN R \cup {l.key} /\ \A k \in DOMAIN R : V[k] = R[k]
    BY <1>7 DEF V, Seen, With, Opens
  <2>2. l.lineage = {}
    BY <1>1, <1>7 DEF Book, Fit, Opens, Puts
  <2>3. V[l.key].lineage = {}
    BY <1>1, <1>7, <2>2 DEF Book, Opens
  <2> QED
    BY <1>2, <1>3, <2>1, <2>2, <2>3
<1>8. CASE l.pc = "row" /\ Rewrites(R, E, l)
  <2>1. /\ DOMAIN V = DOMAIN R /\ V[l.out.key] = l.out.row
        /\ \A k \in DOMAIN R : k # l.out.key => V[k] = R[k]
    BY <1>8 DEF V, Seen, With, Rewrites
  <2>2. W = E
    BY <1>1, <1>8 DEF W, Whole, EdgesOf, LinksOf, Rewrites, Fit, Puts
  <2>3. V[t].status = "superseded" \/ t \in l.lineage
    BY <1>2, <1>8, <2>1 DEF Rewrites
  <2>4. l.lineage # {} => l.key \in DOMAIN R
    BY <1>1, <1>4, <2>1 DEF Book
  <2>5. ASSUME NEW j \in DOMAIN V, t \in V[j].lineage
        PROVE  t \in R[j].lineage \/ t \in l.lineage
    <3>1. CASE j = l.key /\ l.key # NoKey
      BY <1>1, <2>5, <3>1 DEF Book
    <3>2. CASE j # l.key
      BY <1>8, <2>1, <2>5, <3>2 DEF Rewrites
    <3>3. CASE l.key = NoKey /\ j = l.key
      BY <1>8, <2>1, <2>5, <3>3, SharedAssumption DEF Rewrites, Puts, Cell, SharedAssumption
    <3> QED
      BY <3>1, <3>2, <3>3
  <2> QED
    BY <1>2, <1>3, <1>5, <2>1, <2>2, <2>3, <2>4, <2>5
<1>9. CASE l.pc \in {"clear", "link"}
  <2>1. V = R /\ W = E \cup EdgesOf(l.out.key, l.left)
    BY <1>9 DEF V, W, Seen, Whole, Puts
  <2>2. ASSUME t \in l.lineage
        PROVE  \E j \in DOMAIN R : \/ t \in R[j].lineage
                                   \/ [from |-> j, rel |-> "supersedes", to |-> t] \in E
    <3>1. l.key # NoKey /\ l.key \in DOMAIN R
      BY <1>1, <1>4, <2>1, <2>2 DEF Book
    <3>2. CASE l.out.key = l.key
      <4>1. ~l.final
        BY <1>1, <1>9, <2>2, <3>1, <3>2 DEF Fit, Puts
      <4>2. t \in R[l.key].lineage
        BY <1>1, <2>1, <2>2, <3>1, <4>1 DEF Book
      <4> QED
        BY <3>1, <4>2
    <3>3. CASE l.out.key # l.key
      <4>1. PICK e : e = [from |-> l.key, rel |-> "supersedes", to |-> t]
        OBVIOUS
      <4>2. e \in W /\ e.from = l.key
        BY <1>5, <2>2, <4>1
      <4>3. e \in E
        BY <2>1, <3>3, <4>2 DEF EdgesOf
      <4> QED
        BY <3>1, <4>1, <4>3
    <3> QED
      BY <3>2, <3>3
  <2> QED
    BY <1>2, <1>3, <2>1, <2>2
<1> QED
  BY <1>1, <1>6, <1>7, <1>8, <1>9 DEF Fit, Puts

\* The tables a killed process leaves are in order.
LEMMA CrashGood ==
    ASSUME NEW R, NEW E \in SUBSET Edge, NEW B, NEW n \in Nat, NEW l \in Local,
           l.pc \in Puts => l.out \in Cell, Good(R, E, B, n, l)
    PROVE  Good(R, E, B, n + 1, Rest)
<1>1. Book(R, E, Rest)
  BY DEF Book, Rest
<1>2. n = 0 => Traced(R, E, Rest)
  BY CrashTraced
<1>3. Sound(R, E, n + 1, Rest)
  <2>1. n + 1 # 0 /\ (n + 1 <= 1 => n = 0)
    OBVIOUS
  <2> QED
    BY <1>1, <1>2, <2>1 DEF Sound
<1> QED
  BY <1>3, RestGood

-----------------------------------------------------------------------------
(* Each step keeps the invariant *)

\* What the invariants say of the process that is in a call.
LEMMA BusyBy ==
    ASSUME IInv, TInv, NEW s \in Procs, proc[s].pc # "idle"
    PROVE  /\ proc[s] \in Local /\ Plan(proc[s]) /\ Place(proc[s])
           /\ Good(rows, edges, bundles, crashes, proc[s])
           /\ proc[s].pc \in Puts => proc[s].out \in Cell
           /\ edges \in SUBSET Edge
           /\ \A k \in DOMAIN rows : k \in Keys /\ rows[k] \in Row
<1>1. proc[s] \in Local /\ Plan(proc[s]) /\ Place(proc[s])
  BY HeldBy
<1>2. Good(rows, edges, bundles, crashes, proc[s])
  BY DEF TInv
<1> QED
  BY <1>1, <1>2 DEF Place, Puts, IInv, TypeOK

\* A step of one process, that becomes l, keeps the invariant when l is in order.
LEMMA TurnFrame ==
    ASSUME IInv, TInv, NEW s \in Procs, NEW l, Becomes(s, l),
           Good(rows', edges', bundles', crashes', l), l.pc = "idle" => l = Rest,
           proc[s].pc = "idle" => Idle
    PROVE  TInv'
<1>1. proc'[s] = l /\ \A o \in Procs : o # s => proc'[o] = proc[o]
  BY DEF IInv, TypeOK, Becomes
<1>2. \A o \in Procs : o # s => proc[o].pc = "idle"
  BY DEF TInv, Alone, Idle
<1>3. Alone'
  BY <1>1, <1>2 DEF Alone
<1>4. Idle' => Good(rows, edges, bundles, crashes, Rest)'
  BY <1>1 DEF Idle
<1>5. ASSUME NEW o \in Procs
      PROVE  IF proc'[o].pc = "idle" THEN proc'[o] = Rest
             ELSE Good(rows', edges', bundles', crashes', proc'[o])
  BY <1>1, <1>2 DEF TInv
<1> QED
  BY <1>3, <1>4, <1>5 DEF TInv

\* A process that goes on as Resume says is at rest, or in a call.
LEMMA ResumeIdle == ASSUME NEW l \in Local PROVE Resume(l).pc = "idle" => Resume(l) = Rest
BY DEF Resume, Local

\* The statements of a put.
LEMMA PutTurn ==
    ASSUME IInv, TInv, NEW s \in Procs, PutRow(s) \/ PutClear(s) \/ PutLink(s)
    PROVE  TInv'
<1>1. proc[s].pc \in Puts /\ proc[s].pc # "idle"
  BY DEF PutRow, PutClear, PutLink, Puts
<1>2. /\ proc[s] \in Local /\ proc[s].out \in Cell /\ edges \in SUBSET Edge
      /\ Good(rows, edges, bundles, crashes, proc[s])
  BY <1>1, BusyBy
<1>3. bundles' = bundles /\ crashes' = crashes
  BY DEF PutRow, PutClear, PutLink
<1>4. CASE PutRow(s)
  <2>1. rows' = With(rows, proc[s].out) /\ edges' = edges
    BY <1>4 DEF PutRow, With
  <2>2. PICK l : l = [proc[s] EXCEPT !.pc = "clear"]
    OBVIOUS
  <2>3. Good(rows', edges', bundles', crashes', l)
    BY <1>2, <1>3, <1>4, <2>1, <2>2, RowGood DEF PutRow
  <2>4. Becomes(s, l) /\ l.pc = "clear"
    BY <1>2, <1>4, <2>2 DEF PutRow, Local
  <2> QED
    BY <1>1, <2>3, <2>4, TurnFrame
<1>5. CASE PutClear(s)
  <2>1. rows' = rows /\ edges' = {e \in edges : e.from # proc[s].out.key}
    BY <1>5 DEF PutClear
  <2>2. PICK l : l = IF proc[s].left = {} THEN Resume(proc[s]) ELSE [proc[s] EXCEPT !.pc = "link"]
    OBVIOUS
  <2>3. Good(rows', edges', bundles', crashes', l)
    BY <1>2, <1>3, <1>5, <2>1, <2>2, ClearGood DEF PutClear
  <2>4. Becomes(s, l)
    BY <1>5, <2>2 DEF PutClear
  <2>5. l.pc = "idle" => l = Rest
    BY <1>2, <2>2, ResumeIdle DEF Local
  <2> QED
    BY <1>1, <2>3, <2>4, <2>5, TurnFrame
<1>6. CASE PutLink(s)
  <2>1. PICK x \in proc[s].left :
           /\ edges' = edges \cup {[from |-> proc[s].out.key, rel |-> x.rel, to |-> x.to]}
           /\ LET now == [proc[s] EXCEPT !.left = @ \ {x}] IN
              Becomes(s, IF now.left = {} THEN Resume(now) ELSE now)
    BY <1>6 DEF PutLink
  <2>2. PICK m : m = [proc[s] EXCEPT !.left = @ \ {x}]
    OBVIOUS
  <2>3. m \in Local /\ m.pc = "link" /\ rows' = rows
    BY <1>2, <1>6, <2>2 DEF PutLink, Local
  <2>4. PICK l : l = IF m.left = {} THEN Resume(m) ELSE m
    OBVIOUS
  <2>5. Good(rows', edges', bundles', crashes', l)
    <3>1. PICK p : p = proc[s]
      OBVIOUS
    <3>2. /\ p \in Local /\ p.out \in Cell /\ p.pc = "link" /\ x \in p.left
          /\ Good(rows, edges, bundles, crashes, p)
          /\ edges' = edges \cup {[from |-> p.out.key, rel |-> x.rel, to |-> x.to]}
          /\ m = [p EXCEPT !.left = @ \ {x}]
      BY <1>2, <1>6, <2>1, <2>2, <3>1 DEF PutLink
    <3>3. Good(rows, edges', bundles, crashes, IF m.left = {} THEN Resume(m) ELSE m)
      BY <1>2, <3>2, LinkGood
    <3> QED
      BY <1>3, <2>3, <2>4, <3>3
  <2>6. Becomes(s, l)
    BY <2>1, <2>2, <2>4
  <2>7. l.pc = "idle" => l = Rest
    BY <2>3, <2>4, ResumeIdle
  <2> QED
    BY <1>1, <2>5, <2>6, <2>7, TurnFrame
<1> QED
  BY <1>4, <1>5, <1>6

\* What is in order between two puts.
LEMMA BetweenPuts ==
    ASSUME IInv, TInv, NEW s \in Procs, proc[s].pc \notin Puts, proc[s].pc # "idle"
    PROVE  /\ Sound(rows, edges, crashes, proc[s])
           /\ proc[s].key # NoKey => proc[s].final
           /\ ~proc[s].final => proc[s].joins = {} /\ proc[s].supersedes = {} /\ proc[s].weighs = {}
BY BusyBy DEF Good, Seen, Whole, Fit, Puts

\* The members of a bundle are read.
LEMMA JoinReadTurn ==
    ASSUME IInv, TInv, NEW s \in Procs, JoinRead(s)
    PROVE  TInv'
<1>1. /\ proc[s].pc = "join" /\ proc[s] \in Local /\ Sound(rows, edges, crashes, proc[s])
      /\ proc[s].key # NoKey => proc[s].final
      /\ ~proc[s].final => proc[s].joins = {} /\ proc[s].supersedes = {} /\ proc[s].weighs = {}
  BY BusyBy, BetweenPuts DEF JoinRead, Puts
<1>2. PICK b \in proc[s].joins :
         Becomes(s, [proc[s] EXCEPT !.pc = "member", !.bundle = b,
                                    !.members = bundles[b], !.joins = @ \ {b}])
  BY DEF JoinRead
<1>3. PICK l : l = [proc[s] EXCEPT !.pc = "member", !.bundle = b,
                                   !.members = bundles[b], !.joins = @ \ {b}]
  OBVIOUS
<1>4. /\ l.pc = "member" /\ l.bundle = b /\ l.members = bundles[b] /\ l.joins = proc[s].joins \ {b}
      /\ l.key = proc[s].key /\ l.prop = proc[s].prop /\ l.lineage = proc[s].lineage
      /\ l.final = proc[s].final /\ l.weighs = proc[s].weighs
      /\ l.supersedes = proc[s].supersedes /\ l.queue = proc[s].queue
  BY <1>1, <1>3 DEF Local
<1>5. UNCHANGED <<rows, edges, bundles, crashes>>
  BY DEF JoinRead
<1>6. Sound(rows, edges, crashes, l)
  BY <1>1, <1>4, SoundOn
<1>7. Good(rows, edges, bundles, crashes, l)
  BY <1>1, <1>4, <1>6 DEF Good, Seen, Whole, Fit, Puts
<1>8. Becomes(s, l)
  BY <1>2, <1>3
<1> QED
  BY <1>1, <1>4, <1>5, <1>7, <1>8, TurnFrame

\* They are written back with the new one.
LEMMA JoinWriteTurn ==
    ASSUME IInv, TInv, NEW s \in Procs, JoinWrite(s)
    PROVE  TInv' /\ \A b \in Bundles : bundles[b] \subseteq bundles'[b]
<1>1. /\ proc[s].pc = "member" /\ proc[s] \in Local /\ Sound(rows, edges, crashes, proc[s])
      /\ proc[s].key # NoKey => proc[s].final
      /\ ~proc[s].final => proc[s].joins = {} /\ proc[s].supersedes = {} /\ proc[s].weighs = {}
      /\ Good(rows, edges, bundles, crashes, proc[s])
  BY BusyBy, BetweenPuts DEF JoinWrite, Puts
<1>2. PICK m : m = [proc[s] EXCEPT !.bundle = NoKey, !.members = {}]
  OBVIOUS
<1>3. /\ m \in Local /\ m.joins = proc[s].joins
      /\ m.key = proc[s].key /\ m.prop = proc[s].prop /\ m.lineage = proc[s].lineage
      /\ m.final = proc[s].final /\ m.weighs = proc[s].weighs
      /\ m.supersedes = proc[s].supersedes /\ m.queue = proc[s].queue
  BY <1>1, <1>2 DEF Local
<1>4. rows' = rows /\ edges' = edges /\ crashes' = crashes
  BY DEF JoinWrite
<1>5. Sound(rows, edges, crashes, m)
  BY <1>1, <1>3, SoundOn
<1>6. Good(rows, edges, bundles', crashes, Resume(m))
  BY <1>1, <1>3, <1>5, ResumeGood
<1>7. PICK l : l = Resume(m)
  OBVIOUS
<1>8. TInv'
  <2>1. Becomes(s, l)
    BY <1>2, <1>7 DEF JoinWrite
  <2>2. l.pc = "idle" => l = Rest
    BY <1>3, <1>7, ResumeIdle
  <2>3. Good(rows', edges', bundles', crashes', l)
    BY <1>4, <1>6, <1>7
  <2> QED
    BY <1>1, <2>1, <2>2, <2>3, TurnFrame
<1>9. \A b \in Bundles : bundles[b] \subseteq bundles'[b]
  <2>1. proc[s].members = bundles[proc[s].bundle]
    BY <1>1 DEF Good
  <2> QED
    BY <2>1 DEF JoinWrite, IInv, TypeOK
<1> QED
  BY <1>8, <1>9

\* What store.get() reads of a cell.
LEMMA ReadFields ==
    ASSUME IInv, NEW k \in DOMAIN rows
    PROVE  /\ Read(k).key = k /\ Read(k).row = rows[k] /\ Read(k).links = LinksOf(edges, k)
           /\ Recounted(k).key = k /\ Recounted(k).links = LinksOf(edges, k)
           /\ Recounted(k).row = [rows[k] EXCEPT !.counted = Heard(rows, edges, k)]
<1>1. Read(k).key = k /\ Read(k).row = rows[k] /\ Read(k).links = LinksOf(edges, k)
  BY DEF Read, LinksOf
<1>2. Incoming(k) = Heard(rows, edges, k)
  BY DEF Incoming, Heard
<1>3. /\ Recounted(k).key = Read(k).key /\ Recounted(k).links = Read(k).links
      /\ Recounted(k).row = [Read(k).row EXCEPT !.counted = Incoming(k)]
  BY DEF Recounted, Read
<1> QED
  BY <1>1, <1>2, <1>3

\* The fields of a row that has its confidence replaced.
LEMMA WeighedFields ==
    ASSUME NEW r \in Row, NEW w
    PROVE  /\ [r EXCEPT !.counted = w].content = r.content
           /\ [r EXCEPT !.counted = w].status = r.status
           /\ [r EXCEPT !.counted = w].lineage = r.lineage
           /\ [r EXCEPT !.counted = w].counted = w
           /\ \A h : [[r EXCEPT !.counted = w] EXCEPT !.counted = h] = [r EXCEPT !.counted = h]
BY DEF Row

\* A call that starts to write back a cell as it is stored, or with the
\* confidence the stored evidence gives it, is in order.
LEMMA ReweighGood ==
    ASSUME NEW R, \A k \in DOMAIN R : R[k] \in Row, NEW E \in SUBSET Edge, NEW B, NEW n,
           NEW l, Sound(R, E, n, l), NEW c \in Cell, c.key \in DOMAIN R,
           c.links = LinksOf(E, c.key),
           NEW w, c.row = [R[c.key] EXCEPT !.counted = w],
           w = R[c.key].counted \/ w = Heard(R, E, c.key),
           NEW m \in Local, m.key = l.key, m.prop = l.prop, m.lineage = l.lineage, m.final = l.final,
           m.supersedes \subseteq l.supersedes, m.queue \subseteq l.queue,
           \/ m.weighs = l.weighs
           \/ m.weighs = l.weighs \ {c.key} /\ w = Heard(R, E, c.key),
           m.key # NoKey => m.final /\ c.key # m.key,
           ~m.final => m.joins = {} /\ m.supersedes = {} /\ m.weighs = {}
    PROVE  Good(R, E, B, n, Putting(m, c))
<1>1. /\ c.row.content = R[c.key].content /\ c.row.status = R[c.key].status
      /\ c.row.lineage = R[c.key].lineage /\ c.row.counted = w
      /\ \A h : [c.row EXCEPT !.counted = h] = [R[c.key] EXCEPT !.counted = h]
  <2>1. PICK r \in Row : r = R[c.key]
    OBVIOUS
  <2>2. c.row = [r EXCEPT !.counted = w]
    BY <2>1
  <2>3. /\ [r EXCEPT !.counted = w].content = r.content
        /\ [r EXCEPT !.counted = w].status = r.status
        /\ [r EXCEPT !.counted = w].lineage = r.lineage
        /\ [r EXCEPT !.counted = w].counted = w
        /\ \A h : [[r EXCEPT !.counted = w] EXCEPT !.counted = h] = [r EXCEPT !.counted = h]
    BY WeighedFields
  <2>4. /\ c.row.content = r.content /\ c.row.status = r.status
        /\ c.row.lineage = r.lineage /\ c.row.counted = w
        /\ \A h : [c.row EXCEPT !.counted = h] = [r EXCEPT !.counted = h]
    BY <2>2, <2>3, Zenon
  <2> QED
    BY <2>1, <2>4, Zenon
<1>2. Sound(With(R, c), E, n, m)
  <2>1. PICK d : d = c
    OBVIOUS
  <2>2. /\ d.key \in DOMAIN R /\ d.row.content = R[d.key].content
        /\ d.row.status = R[d.key].status /\ d.row.lineage = R[d.key].lineage
        /\ \A h : [d.row EXCEPT !.counted = h] = [R[d.key] EXCEPT !.counted = h]
        /\ d.row.counted = R[d.key].counted \/ d.row.counted = Heard(R, E, d.key)
        /\ \/ m.weighs = l.weighs
           \/ m.weighs = l.weighs \ {d.key} /\ d.row.counted = Heard(R, E, d.key)
    BY <1>1, <2>1
  <2>3. Sound(With(R, d), E, n, m)
    BY <2>2, SoundRecounted
  <2> QED
    BY <2>1, <2>3
<1>3. /\ Putting(m, c).out = c /\ Putting(m, c).key = m.key /\ Putting(m, c).lineage = m.lineage
      /\ Putting(m, c).final = m.final
  BY DEF Putting, Local
<1>4. c.key = m.key => ~m.final
  BY SharedAssumption DEF Cell, SharedAssumption
<1>5. Rewrites(R, E, Putting(m, c))
  BY <1>1, <1>3, <1>4 DEF Rewrites
<1> QED
  BY <1>2, <1>5, RewriteGood

\* A process that starts a put is in a call.
LEMMA PuttingBusy == ASSUME NEW l \in Local, NEW c PROVE Putting(l, c).pc = "row"
BY DEF Putting, Local

\* A target of evidence is read and recomputed.
LEMMA WeighTurn ==
    ASSUME IInv, TInv, NEW s \in Procs, Weigh(s)
    PROVE  TInv'
<1>1. /\ proc[s].pc = "weigh" /\ proc[s] \in Local /\ Sound(rows, edges, crashes, proc[s])
      /\ proc[s].key # NoKey => proc[s].final
      /\ ~proc[s].final => proc[s].joins = {} /\ proc[s].supersedes = {} /\ proc[s].weighs = {}
      /\ Plan(proc[s]) /\ Place(proc[s]) /\ edges \in SUBSET Edge
      /\ \A k \in DOMAIN rows : rows[k] \in Row
  BY BusyBy, BetweenPuts DEF Weigh, Puts
<1>2. PICK t \in proc[s].weighs :
         Becomes(s, Putting([proc[s] EXCEPT !.weighs = @ \ {t}], Recounted(t)))
  BY DEF Weigh
<1>3. t \in DOMAIN rows /\ proc[s].key # NoKey /\ proc[s].final
  BY <1>1 DEF Plan, Place
<1>4. t # proc[s].key
  BY <1>1, <1>2, <1>3 DEF Sound, Book
<1>5. PICK m : m = [proc[s] EXCEPT !.weighs = @ \ {t}]
  OBVIOUS
<1>6. /\ m \in Local /\ m.joins = proc[s].joins /\ m.weighs = proc[s].weighs \ {t}
      /\ m.key = proc[s].key /\ m.prop = proc[s].prop /\ m.lineage = proc[s].lineage
      /\ m.final = proc[s].final
      /\ m.supersedes = proc[s].supersedes /\ m.queue = proc[s].queue
  BY <1>1, <1>5 DEF Local
<1>7. PICK c \in Cell : c = Recounted(t)
  BY <1>3, ReadType DEF IInv
<1>8. /\ c.key = t /\ c.links = LinksOf(edges, c.key)
      /\ c.row = [rows[c.key] EXCEPT !.counted = Heard(rows, edges, c.key)]
  BY <1>3, <1>7, ReadFields
<1>9. PICK w : w = Heard(rows, edges, c.key)
  OBVIOUS
<1>10. Good(rows, edges, bundles, crashes, Putting(m, c))
  BY <1>1, <1>3, <1>4, <1>6, <1>8, <1>9, ReweighGood
<1>11. PICK l : l = Putting(m, c)
  OBVIOUS
<1>12. Becomes(s, l) /\ l.pc = "row"
  BY <1>2, <1>5, <1>6, <1>7, <1>11, PuttingBusy
<1>13. Good(rows', edges', bundles', crashes', l)
  BY <1>10, <1>11 DEF Weigh
<1> QED
  BY <1>1, <1>12, <1>13, TurnFrame

\* The tick goes on with one of the cells it read: nothing has changed since.
LEMMA TickNextTurn ==
    ASSUME IInv, TInv, NEW s \in Procs, TickNext(s)
    PROVE  TInv'
<1>1. /\ proc[s].pc = "tick" /\ proc[s] \in Local /\ Sound(rows, edges, crashes, proc[s])
      /\ ~proc[s].final => proc[s].joins = {} /\ proc[s].supersedes = {} /\ proc[s].weighs = {}
      /\ Plan(proc[s]) /\ Place(proc[s]) /\ edges \in SUBSET Edge
      /\ \A k \in DOMAIN rows : rows[k] \in Row
  BY BusyBy, BetweenPuts DEF TickNext, Puts
<1>2. PICK c \in proc[s].queue : Becomes(s, Putting([proc[s] EXCEPT !.queue = @ \ {c}], c))
  BY DEF TickNext
<1>3. /\ c \in Cell /\ c.key \in DOMAIN rows /\ c.links = LinksOf(edges, c.key)
      /\ c.row = [rows[c.key] EXCEPT !.counted = Heard(rows, edges, c.key)]
      /\ proc[s].key = NoKey
  BY <1>1, <1>2 DEF Sound, Book, Local
<1>4. PICK m : m = [proc[s] EXCEPT !.queue = @ \ {c}]
  OBVIOUS
<1>5. /\ m \in Local /\ m.joins = proc[s].joins /\ m.weighs = proc[s].weighs
      /\ m.key = proc[s].key /\ m.prop = proc[s].prop /\ m.lineage = proc[s].lineage
      /\ m.final = proc[s].final
      /\ m.supersedes = proc[s].supersedes /\ m.queue = proc[s].queue \ {c}
  BY <1>1, <1>4 DEF Local
<1>6. PICK w : w = Heard(rows, edges, c.key)
  OBVIOUS
<1>7. Good(rows, edges, bundles, crashes, Putting(m, c))
  BY <1>1, <1>3, <1>5, <1>6, ReweighGood
<1>8. PICK l : l = Putting(m, c)
  OBVIOUS
<1>9. Becomes(s, l) /\ l.pc = "row"
  BY <1>2, <1>4, <1>5, <1>8, PuttingBusy
<1>10. Good(rows', edges', bundles', crashes', l)
  BY <1>7, <1>8 DEF TickNext
<1> QED
  BY <1>1, <1>9, <1>10, TurnFrame

\* A target to supersede is read, and demoted if it is active.
LEMMA SupersedeTurn ==
    ASSUME IInv, TInv, NEW s \in Procs, Supersede(s)
    PROVE  TInv'
<1>1. /\ proc[s].pc = "supersede" /\ proc[s] \in Local /\ Sound(rows, edges, crashes, proc[s])
      /\ proc[s].key # NoKey => proc[s].final
      /\ ~proc[s].final => proc[s].joins = {} /\ proc[s].supersedes = {} /\ proc[s].weighs = {}
      /\ Plan(proc[s]) /\ Place(proc[s]) /\ edges \in SUBSET Edge
      /\ \A k \in DOMAIN rows : k \in Keys /\ rows[k] \in Row
  BY BusyBy, BetweenPuts DEF Supersede, Puts
<1>2. PICK t \in proc[s].supersedes :
         LET now == [proc[s] EXCEPT !.supersedes = @ \ {t}] IN
         Becomes(s, IF IsActive(t)
                    THEN Putting([now EXCEPT !.lineage = @ \cup {t}],
                                 [Read(t) EXCEPT !.row.status = "superseded"])
                    ELSE Resume(now))
  BY DEF Supersede
<1>3. t \in DOMAIN rows /\ proc[s].key # NoKey /\ proc[s].final /\ t \in Replaced(proc[s].prop)
  BY <1>1 DEF Plan, Place
<1>4. PICK now : now = [proc[s] EXCEPT !.supersedes = @ \ {t}]
  OBVIOUS
<1>5. /\ now \in Local /\ now.joins = proc[s].joins /\ now.weighs = proc[s].weighs
      /\ now.key = proc[s].key /\ now.prop = proc[s].prop /\ now.lineage = proc[s].lineage
      /\ now.final = proc[s].final
      /\ now.supersedes = proc[s].supersedes \ {t} /\ now.queue = proc[s].queue
  BY <1>1, <1>4 DEF Local
<1>6. UNCHANGED <<rows, edges, bundles, crashes>>
  BY DEF Supersede
<1>7. CASE IsActive(t)
  <2>1. PICK m : m = [now EXCEPT !.lineage = @ \cup {t}]
    OBVIOUS
  <2>2. /\ m \in Local /\ m.joins = now.joins /\ m.weighs = now.weighs
        /\ m.key = now.key /\ m.prop = now.prop /\ m.lineage = now.lineage \cup {t}
        /\ m.final = now.final
        /\ m.supersedes = now.supersedes /\ m.queue = now.queue
    <3>1. t \in Keys /\ now.lineage \cup {t} \in SUBSET Keys
      BY <1>1, <1>3, <1>5 DEF Local
    <3> QED
      BY <1>5, <2>1, <3>1 DEF Local
  <2>3. PICK c \in Cell : c = [Read(t) EXCEPT !.row.status = "superseded"]
    BY <1>3, ReadType DEF IInv
  <2>4. /\ c.key = t /\ c.links = LinksOf(edges, c.key) /\ c.row.status = "superseded"
        /\ c.row.content = rows[c.key].content /\ c.row.lineage = rows[c.key].lineage
        /\ c.row.counted = rows[c.key].counted
    <3>1. c.key = t /\ c.links = Read(t).links /\ c.row = [rows[t] EXCEPT !.status = "superseded"]
      BY <1>3, <2>3 DEF Read
    <3>2. Read(t).links = LinksOf(edges, t)
      BY <1>3, ReadFields
    <3>3. PICK r \in Row : r = rows[t]
      BY <1>1, <1>3
    <3>4. c.row = [r EXCEPT !.status = "superseded"]
      BY <3>1, <3>3
    <3>5. /\ c.row.status = "superseded" /\ c.row.content = r.content
          /\ c.row.lineage = r.lineage /\ c.row.counted = r.counted
      BY <3>4 DEF Row
    <3> QED
      BY <3>1, <3>2, <3>3, <3>5
  <2>5. Sound(With(rows, c), edges, crashes, m)
    <3>1. PICK d, x : d = c /\ x = m
      OBVIOUS
    <3>2. /\ d.key \in DOMAIN rows /\ d.key \in proc[s].supersedes
          /\ d.key \in Replaced(proc[s].prop)
          /\ d.row.status = "superseded" /\ d.row.lineage = rows[d.key].lineage
          /\ d.row.content = rows[d.key].content /\ d.row.counted = rows[d.key].counted
          /\ x.key = proc[s].key /\ x.prop = proc[s].prop
          /\ x.lineage = proc[s].lineage \cup {d.key} /\ x.final = proc[s].final
          /\ x.supersedes \subseteq proc[s].supersedes /\ x.queue = proc[s].queue
          /\ x.weighs = proc[s].weighs
      BY <1>3, <1>5, <2>2, <2>4, <3>1
    <3>3. Sound(With(rows, d), edges, crashes, x)
      BY <1>1, <1>3, <3>2, SoundDemoted
    <3> QED
      BY <3>1, <3>3
  <2>6. /\ Putting(m, c).out = c /\ Putting(m, c).key = m.key /\ Putting(m, c).lineage = m.lineage
        /\ Putting(m, c).final = m.final
    BY <2>2 DEF Putting, Local
  <2>7. t # proc[s].key
    BY <1>1, <1>3 DEF Sound, Book
  <2>8. Rewrites(rows, edges, Putting(m, c))
    BY <1>3, <1>5, <2>2, <2>4, <2>6, <2>7 DEF Rewrites
  <2>9. Good(rows, edges, bundles, crashes, Putting(m, c))
    BY <1>1, <1>3, <1>5, <2>2, <2>5, <2>8, RewriteGood
  <2>10. PICK l : l = Putting(m, c)
    OBVIOUS
  <2>11. Becomes(s, l) /\ l.pc = "row"
    BY <1>2, <1>4, <1>7, <2>1, <2>2, <2>3, <2>10, PuttingBusy
  <2> QED
    BY <1>1, <1>6, <2>9, <2>10, <2>11, TurnFrame
<1>8. CASE ~IsActive(t)
  <2>1. Sound(rows, edges, crashes, now)
    BY <1>1, <1>5, SoundOn
  <2>2. Good(rows, edges, bundles, crashes, Resume(now))
    BY <1>1, <1>3, <1>5, <2>1, ResumeGood
  <2>3. PICK l : l = Resume(now)
    OBVIOUS
  <2>4. Becomes(s, l) /\ (l.pc = "idle" => l = Rest)
    BY <1>2, <1>4, <1>5, <1>8, <2>3, ResumeIdle
  <2> QED
    BY <1>1, <1>6, <2>2, <2>3, <2>4, TurnFrame
<1> QED
  BY <1>7, <1>8

\* The new cell is going to be put again.
LEMMA FinishTurn ==
    ASSUME IInv, TInv, NEW s \in Procs, Finish(s)
    PROVE  TInv'
<1>1. /\ proc[s].pc = "finish" /\ proc[s] \in Local /\ Sound(rows, edges, crashes, proc[s])
      /\ proc[s].joins = {} /\ proc[s].supersedes = {} /\ proc[s].weighs = {} /\ proc[s].final
      /\ Plan(proc[s]) /\ Place(proc[s]) /\ edges \in SUBSET Edge
  BY BusyBy, BetweenPuts DEF Finish, Puts, Good, Fit
<1>2. PICK m : m = [proc[s] EXCEPT !.final = FALSE]
  OBVIOUS
<1>3. /\ m \in Local /\ m.joins = proc[s].joins /\ m.weighs = proc[s].weighs
      /\ m.key = proc[s].key /\ m.prop = proc[s].prop /\ m.lineage = proc[s].lineage
      /\ m.final = FALSE
      /\ m.supersedes = proc[s].supersedes /\ m.queue = proc[s].queue
  BY <1>1, <1>2 DEF Local
<1>4. proc[s].key # NoKey
  BY <1>1 DEF Place
<1>5. /\ proc[s].key \in DOMAIN rows /\ proc[s].prop \in Proposals /\ proc[s].key \in Keys
      /\ rows[proc[s].key].content = proc[s].prop.content
      /\ rows[proc[s].key].status = "active"
      /\ LinksOf(edges, proc[s].key) = proc[s].prop.links
  BY <1>1, <1>4 DEF Sound, Book, Plan, Local
<1>6. Incoming(proc[s].key) = Heard(rows, edges, proc[s].key)
  BY DEF Incoming, Heard
<1>7. Incoming(proc[s].key) \in SUBSET Evidence /\ proc[s].lineage \in SUBSET Keys
  BY <1>1 DEF Incoming, Local
<1>8. PICK c \in Cell : c = Built(proc[s].key, proc[s].prop, proc[s].lineage,
                                  Incoming(proc[s].key))
  BY <1>5, <1>7, BuiltType, SharedAssumption
<1>9. /\ c.key = proc[s].key /\ c.links = proc[s].prop.links
      /\ c.row.content = proc[s].prop.content /\ c.row.status = "active"
      /\ c.row.lineage = proc[s].lineage /\ c.row.counted = Heard(rows, edges, proc[s].key)
  BY <1>6, <1>8 DEF Built
<1>10. Sound(With(rows, c), edges, crashes, m)
  <2>1. PICK d, x : d = c /\ x = m
    OBVIOUS
  <2>2. /\ d.key = proc[s].key
        /\ d.row.content = proc[s].prop.content /\ d.row.status = "active"
        /\ d.row.lineage = proc[s].lineage /\ d.row.counted = Heard(rows, edges, proc[s].key)
        /\ x.key = proc[s].key /\ x.prop = proc[s].prop /\ x.lineage = proc[s].lineage
        /\ ~x.final /\ x.supersedes \subseteq proc[s].supersedes /\ x.queue = proc[s].queue
        /\ x.weighs = proc[s].weighs
    BY <1>3, <1>9, <2>1
  <2>3. Sound(With(rows, d), edges, crashes, x)
    BY <1>1, <1>4, <2>2, SoundNamed
  <2> QED
    BY <2>1, <2>3
<1>11. /\ Putting(m, c).out = c /\ Putting(m, c).key = m.key /\ Putting(m, c).lineage = m.lineage
       /\ Putting(m, c).final = m.final
  BY <1>3 DEF Putting, Local
<1>12. Rewrites(rows, edges, Putting(m, c))
  BY <1>3, <1>5, <1>9, <1>11 DEF Rewrites
<1>13. Good(rows, edges, bundles, crashes, Putting(m, c))
  BY <1>1, <1>3, <1>9, <1>10, <1>12, RewriteGood
<1>14. PICK l : l = Putting(m, c)
  OBVIOUS
<1>15. Becomes(s, l) /\ l.pc = "row"
  BY <1>2, <1>3, <1>8, <1>14, PuttingBusy DEF Finish
<1>16. UNCHANGED <<rows, edges, bundles, crashes>>
  BY DEF Finish
<1> QED
  BY <1>1, <1>13, <1>14, <1>15, <1>16, TurnFrame

\* A call that takes turns starts when no process is in one.
LEMMA StartsAlone ==
    ASSUME TInv, Overlap = {}, NEW s \in Procs, NEW call, MayStart(s, call)
    PROVE  /\ Idle /\ Sound(rows, edges, crashes, Rest)
           /\ call \in Calls
<1>1. Idle /\ call \in Calls
  BY DEF MayStart, Idle
<1>2. Sound(rows, edges, crashes, Rest)
  BY <1>1 DEF TInv, Good, Seen, Whole, Puts, Rest
<1> QED
  BY <1>1, <1>2

\* A cell is read, to be put with another salience.
LEMMA BeginTouchTurn ==
    ASSUME IInv, TInv, Overlap = {}, NEW s \in Procs, NEW k \in DOMAIN rows, BeginTouch(s, k)
    PROVE  TInv'
<1>1. Idle /\ Sound(rows, edges, crashes, Rest) /\ "touch" \in Calls
  BY StartsAlone DEF BeginTouch
<1>2. edges \in SUBSET Edge /\ \A j \in DOMAIN rows : rows[j] \in Row
  BY DEF IInv, TypeOK
<1>3. PICK m : m = [Rest EXCEPT !.call = "touch"]
  OBVIOUS
<1>4. /\ m \in Local /\ m.joins = {} /\ m.weighs = {} /\ m.key = NoKey
      /\ m.key = Rest.key /\ m.prop = Rest.prop /\ m.lineage = Rest.lineage
      /\ m.final = Rest.final /\ m.supersedes = {} /\ m.queue = {} /\ m.weighs = Rest.weighs
  BY <1>1, <1>3, RestType DEF Local, Rest
<1>5. PICK c \in Cell : c = Read(k)
  BY ReadType DEF IInv
<1>6. c.key = k /\ c.row = rows[c.key] /\ c.links = LinksOf(edges, c.key)
  BY <1>5, ReadFields
<1>7. PICK w : w = rows[c.key].counted
  OBVIOUS
<1>8. c.row = [rows[c.key] EXCEPT !.counted = w]
  <2>1. PICK r \in Row : r = rows[c.key]
    BY <1>2, <1>6
  <2>2. r = [r EXCEPT !.counted = r.counted]
    BY DEF Row
  <2> QED
    BY <1>6, <1>7, <2>1, <2>2
<1>9. PICK o : o = Rest
  OBVIOUS
<1>10. Sound(rows, edges, crashes, o)
  BY <1>1, <1>9
<1>11. Good(rows, edges, bundles, crashes, Putting(m, c))
  <2>1. /\ m.key = o.key /\ m.prop = o.prop /\ m.lineage = o.lineage /\ m.final = o.final
        /\ m.supersedes \subseteq o.supersedes /\ m.queue \subseteq o.queue /\ m.weighs = o.weighs
    BY <1>4, <1>9
  <2>2. c.key \in DOMAIN rows /\ c.links = LinksOf(edges, c.key)
    BY <1>6
  <2>3. m.key = NoKey /\ m.joins = {} /\ m.supersedes = {} /\ m.weighs = {} /\ m \in Local
    BY <1>4
  <2> QED
    BY <1>2, <1>7, <1>8, <1>10, <2>1, <2>2, <2>3, ReweighGood
<1>12. PICK l : l = Putting(m, c)
  OBVIOUS
<1>13. Becomes(s, l) /\ l.pc = "row"
  BY <1>3, <1>4, <1>5, <1>12, PuttingBusy DEF BeginTouch
<1>14. UNCHANGED <<rows, edges, bundles, crashes>>
  BY DEF BeginTouch
<1> QED
  BY <1>1, <1>11, <1>12, <1>13, <1>14, TurnFrame

\* A tick reads the active cells and recomputes them.
LEMMA BeginTickTurn ==
    ASSUME IInv, TInv, Overlap = {}, NEW s \in Procs, BeginTick(s)
    PROVE  TInv'
<1> DEFINE read == {Recounted(k) : k \in {c \in DOMAIN rows : IsActive(c)}}
<1>1. Idle /\ Sound(rows, edges, crashes, Rest) /\ "tick" \in Calls
  BY StartsAlone DEF BeginTick
<1>2. /\ read \in SUBSET Cell
      /\ \A c \in read : /\ c.key \in DOMAIN rows
                         /\ c.row = [rows[c.key] EXCEPT !.counted = Heard(rows, edges, c.key)]
                         /\ c.links = LinksOf(edges, c.key)
  <2>1. ASSUME NEW k \in DOMAIN rows, NEW c, c = Recounted(k)
        PROVE  /\ c \in Cell /\ c.key \in DOMAIN rows
               /\ c.row = [rows[c.key] EXCEPT !.counted = Heard(rows, edges, c.key)]
               /\ c.links = LinksOf(edges, c.key)
    BY <2>1, ReadType, ReadFields DEF IInv
  <2> QED
    BY <2>1
<1>3. PICK m : m = [Rest EXCEPT !.call = "tick", !.queue = read]
  OBVIOUS
<1>4. /\ m \in Local /\ m.joins = {} /\ m.weighs = {} /\ m.key = NoKey
      /\ m.lineage = {} /\ m.lineage = Rest.lineage
      /\ ~m.final /\ m.supersedes = {} /\ m.queue = read /\ m.weighs = Rest.weighs
  BY <1>1, <1>2, <1>3, RestType DEF Local, Rest
<1> HIDE DEF read
<1>5. Book(rows, edges, m)
  BY <1>2, <1>4 DEF Book
<1>6. /\ Clean(rows, edges, Rest) => Clean(rows, edges, m)
      /\ Traced(rows, edges, Rest) => Traced(rows, edges, m)
  BY <1>4 DEF Clean, Traced
<1>7. Sound(rows, edges, crashes, m)
  BY <1>1, <1>5, <1>6 DEF Sound
<1>8. Good(rows, edges, bundles, crashes, Resume(m))
  BY <1>4, <1>7, ResumeGood
<1>9. PICK l : l = Resume(m)
  OBVIOUS
<1>10. Becomes(s, l)
  BY <1>3, <1>9 DEF BeginTick, read
<1>11. l.pc = "idle" => l = Rest
  BY <1>4, <1>9, ResumeIdle
<1>12. UNCHANGED <<rows, edges, bundles, crashes>>
  BY DEF BeginTick
<1> QED
  BY <1>1, <1>8, <1>9, <1>10, <1>11, <1>12, TurnFrame

\* A proposal is accepted, and its cell is going to be put for the first time.
LEMMA BeginAdmitTurn ==
    ASSUME IInv, TInv, Overlap = {}, NEW s \in Procs,
           NEW p \in Proposals, NEW k \in Keys, BeginAdmit(s, p, k)
    PROVE  TInv'
<1>1. Idle /\ Sound(rows, edges, crashes, Rest) /\ "admit" \in Calls
  BY StartsAlone DEF BeginAdmit
<1>2. /\ edges \in SUBSET Edge
      /\ \A e \in edges : e.from \in DOMAIN rows /\ e.to \in DOMAIN rows
  BY DEF IInv, TypeOK, EdgesAnchored
<1>3. /\ p.links \in SUBSET Link /\ p.bundles \in SUBSET Bundles /\ k # NoKey
      /\ Targets(p.links) \subseteq DOMAIN rows /\ DOMAIN rows \subseteq Keys
      /\ k \notin DOMAIN rows
  BY SharedAssumption DEF SharedAssumption, Proposal, BeginAdmit, TargetsStored, Targets,
     Unused, IInv, TypeOK
<1>4. PICK m : m = [Rest EXCEPT
          !.call = "admit", !.key = k, !.prop = p, !.final = TRUE, !.joins = p.bundles,
          !.supersedes = {l.to : l \in {x \in p.links : x.rel = "supersedes"}},
          !.weighs = {l.to : l \in {x \in p.links : x.rel \in Evidential}}]
  OBVIOUS
<1>5. Replaced(p) \in SUBSET DOMAIN rows /\ Borne(p.links) \in SUBSET DOMAIN rows
  BY <1>3 DEF Replaced, Borne, Targets
<1>6. m = [Rest EXCEPT !.call = "admit", !.key = k, !.prop = p, !.final = TRUE,
                       !.joins = p.bundles, !.supersedes = Replaced(p), !.weighs = Borne(p.links)]
  BY <1>4 DEF Replaced, Borne
<1>7. /\ m \in Local /\ m.key = k /\ m.prop = p /\ m.final = TRUE /\ m.joins = p.bundles
      /\ m.supersedes = Replaced(p) /\ m.weighs = Borne(p.links) /\ m.queue = {}
      /\ m.lineage = {}
  BY <1>1, <1>3, <1>5, <1>6, RestType DEF Local, Rest
<1>8. PICK c \in Cell : c = Built(k, p, {}, {})
  BY BuiltType, SharedAssumption
<1>9. /\ c.key = k /\ c.links = p.links /\ c.row.content = p.content
      /\ c.row.status = "active" /\ c.row.lineage = {} /\ c.row.counted = {}
  BY <1>8 DEF Built
<1>10. PICK Y : Y = edges \cup EdgesOf(c.key, c.links)
  OBVIOUS
<1>11. PICK x : x = m
  OBVIOUS
<1>12. Sound(With(rows, c), Y, crashes, x)
  <2>1. /\ x.key = c.key /\ x.key # NoKey /\ x.final /\ x.lineage = {} /\ x.queue = {}
        /\ x.prop.content = c.row.content /\ x.prop.links = c.links
        /\ x.supersedes \subseteq DOMAIN rows /\ x.weighs = Borne(c.links)
    BY <1>3, <1>5, <1>7, <1>9, <1>11
  <2>2. c.key \notin DOMAIN rows /\ Targets(c.links) \subseteq DOMAIN rows
    BY <1>3, <1>9
  <2> QED
    BY <1>1, <1>2, <1>9, <1>10, <2>1, <2>2, SoundOpened
<1>13. PICK l : l = Putting(m, c)
  OBVIOUS
<1>14. /\ l.pc = "row" /\ l.key = x.key /\ l.prop = x.prop /\ l.lineage = x.lineage
       /\ l.final = x.final /\ l.weighs = x.weighs /\ l.supersedes = x.supersedes
       /\ l.queue = x.queue /\ l.joins = x.joins /\ l.out = c /\ l.left = c.links
  BY <1>7, <1>11, <1>13 DEF Putting, Local
<1>15. Sound(Seen(rows, l), Whole(edges, l), crashes, l)
  <2>1. Seen(rows, l) = With(rows, c) /\ Whole(edges, l) = Y
    BY <1>10, <1>14 DEF Seen, Whole, Puts
  <2>2. Sound(With(rows, c), Y, crashes, l)
    BY <1>12, <1>14, SoundOn
  <2> QED
    BY <2>1, <2>2
<1>16. Fit(rows, edges, l)
  <2>1. LinksOf(edges, k) = {}
    BY <1>2, <1>3 DEF LinksOf
  <2> QED
    BY <1>3, <1>7, <1>9, <1>11, <1>14, <2>1 DEF Fit, Opens, Puts
<1>17. Good(rows, edges, bundles, crashes, l)
  BY <1>14, <1>15, <1>16 DEF Good
<1>18. Becomes(s, l)
  BY <1>4, <1>8, <1>13 DEF BeginAdmit
<1>19. UNCHANGED <<rows, edges, bundles, crashes>>
  BY DEF BeginAdmit
<1> QED
  BY <1>1, <1>14, <1>17, <1>18, <1>19, TurnFrame

\* A process is killed.
LEMMA CrashTurn ==
    ASSUME IInv, TInv, NEW s \in Procs, Crash(s)
    PROVE  TInv'
<1>1. /\ proc[s].pc # "idle" /\ proc[s] \in Local /\ edges \in SUBSET Edge
      /\ Good(rows, edges, bundles, crashes, proc[s])
      /\ proc[s].pc \in Puts => proc[s].out \in Cell
  BY BusyBy DEF Crash
<1>2. crashes \in Nat
  BY SharedAssumption DEF IInv, TypeOK, SharedAssumption
<1>3. Good(rows, edges, bundles, crashes + 1, Rest)
  BY <1>1, <1>2, CrashGood
<1>4. PICK l : l = Rest
  OBVIOUS
<1>5. /\ Becomes(s, l) /\ rows' = rows /\ edges' = edges /\ bundles' = bundles
      /\ crashes' = crashes + 1
  BY <1>4 DEF Crash
<1> QED
  BY <1>1, <1>3, <1>4, <1>5, TurnFrame

-----------------------------------------------------------------------------
(* The theorems *)

\* The invariant holds at the start.
LEMMA InitTurns ==
    ASSUME Init
    PROVE  TInv
<1>1. /\ rows = [k \in {} |-> {}] /\ edges = {} /\ crashes = 0 /\ DOMAIN rows = {}
      /\ \A s \in Procs : proc[s] = Rest
  BY DEF Init
<1>2. Book(rows, edges, Rest) /\ Clean(rows, edges, Rest) /\ Traced(rows, edges, Rest)
  BY <1>1 DEF Book, Clean, Traced, Rest
<1>3. Sound(rows, edges, crashes, Rest)
  BY <1>2 DEF Sound
<1>4. Good(rows, edges, bundles, crashes, Rest)
  BY <1>3, RestGood
<1>5. Rest.pc = "idle"
  BY DEF Rest
<1> QED
  BY <1>1, <1>4, <1>5 DEF TInv, Alone

\* The invariant holds after every step, and no step takes a member from a bundle.
LEMMA StepTurns ==
    ASSUME IInv, TInv, Overlap = {}, [Next]_vars
    PROVE  TInv' /\ \A b \in Bundles : bundles[b] \subseteq bundles'[b]
<1>1. CASE UNCHANGED vars
  BY <1>1 DEF vars, TInv, Alone, Idle
<1>2. ASSUME NEW s \in Procs, Begin(s)
      PROVE  TInv' /\ bundles' = bundles
  <2>1. CASE \E p \in Proposals, k \in Keys : BeginAdmit(s, p, k)
    BY <2>1, BeginAdmitTurn DEF BeginAdmit
  <2>2. CASE \E k \in DOMAIN rows : BeginTouch(s, k)
    BY <2>2, BeginTouchTurn DEF BeginTouch
  <2>3. CASE BeginTick(s)
    BY <2>3, BeginTickTurn DEF BeginTick
  <2> QED
    BY <1>2, <2>1, <2>2, <2>3 DEF Begin
<1>3. ASSUME NEW s \in Procs, Continue(s), ~JoinWrite(s)
      PROVE  TInv' /\ bundles' = bundles
  <2>1. CASE PutRow(s) \/ PutClear(s) \/ PutLink(s)
    BY <2>1, PutTurn DEF PutRow, PutClear, PutLink
  <2>2. CASE JoinRead(s)
    BY <2>2, JoinReadTurn DEF JoinRead
  <2>3. CASE Supersede(s)
    BY <2>3, SupersedeTurn DEF Supersede
  <2>4. CASE Weigh(s)
    BY <2>4, WeighTurn DEF Weigh
  <2>5. CASE Finish(s)
    BY <2>5, FinishTurn DEF Finish
  <2>6. CASE TickNext(s)
    BY <2>6, TickNextTurn DEF TickNext
  <2> QED
    BY <1>3, <2>1, <2>2, <2>3, <2>4, <2>5, <2>6 DEF Continue
<1>4. ASSUME NEW s \in Procs, Crash(s)
      PROVE  TInv' /\ bundles' = bundles
  BY <1>4, CrashTurn DEF Crash
<1>5. ASSUME NEW s \in Procs, JoinWrite(s)
      PROVE  TInv' /\ \A b \in Bundles : bundles[b] \subseteq bundles'[b]
  BY <1>5, JoinWriteTurn
<1> QED
  BY <1>1, <1>2, <1>3, <1>4, <1>5 DEF Next

\* The invariant holds throughout.
LEMMA TurnInvariant ==
    ASSUME Overlap = {}
    PROVE  Spec => [](IInv /\ TInv)
<1>1. Init => TInv
  BY InitTurns
<1>2. IInv /\ TInv /\ [Next]_vars => TInv'
  BY StepTurns
<1> QED
  BY <1>1, <1>2, Invariant, PTL DEF Spec

\* When calls take turns, whichever are killed, a bundle keeps every member that
\* joined it: getHyperedge() and putHyperedge() of one admission have no other
\* between them.
THEOREM TurnsMembersKept ==
    ASSUME Overlap = {}
    PROVE  Spec => MembersKept
<1>1. IInv /\ TInv /\ [Next]_vars => [\A b \in Bundles : bundles[b] \subseteq bundles'[b]]_bundles
  BY StepTurns
<1> QED
  BY <1>1, TurnInvariant, PTL DEF Spec, MembersKept

\* When calls take turns, as long as none was killed, between calls the
\* confidence of every cell has counted the evidence stored for it, and every
\* lineage is among the stored edges: what admit() writes in pieces adds up.
THEOREM TurnsSettleStore ==
    ASSUME Overlap = {}
    PROVE  Spec => []SettledStore
<1>1. ASSUME IInv, TInv
      PROVE  SettledStore
  <2>2. Idle /\ crashes = 0 => Clean(rows, edges, Rest)
    BY <1>1 DEF TInv, Good, Sound, Seen, Whole, Puts, Rest
  <2>3. \A k : Incoming(k) = Heard(rows, edges, k)
    BY DEF Incoming, Heard
  <2>4. Rest.weighs = {}
    BY DEF Rest
  <2> QED
    BY <2>2, <2>3, <2>4 DEF SettledStore, Clean
<1> QED
  BY <1>1, TurnInvariant, PTL

\* When calls take turns and at most one is killed, between calls every
\* superseded cell can be traced to its successor, by the lineage or by the
\* edges stored, wherever between two statements the call was cut off.
THEOREM TurnsTraceSuccessor ==
    ASSUME Overlap = {}, MaxCrashes <= 1
    PROVE  Spec => []SuccessorTraceable
<1>1. ASSUME IInv, TInv
      PROVE  SuccessorTraceable
  <2>1. crashes <= 1
    BY <1>1, SharedAssumption DEF IInv, TypeOK, SharedAssumption
  <2>2. Idle => Traced(rows, edges, Rest)
    BY <1>1, <2>1 DEF TInv, Good, Sound, Seen, Whole, Puts, Rest
  <2>3. \A k \in DOMAIN rows : ~IsActive(k) => rows[k].status = "superseded"
    BY <1>1 DEF IInv, TypeOK, Row, IsActive
  <2>4. Rest.lineage = {}
    BY DEF Rest
  <2> QED
    BY <2>2, <2>3, <2>4 DEF SuccessorTraceable, Traced
<1> QED
  BY <1>1, TurnInvariant, PTL

-----------------------------------------------------------------------------
(* Calls that take turns implement the memory *)

\* The memory the tables R are with the call l under way, and no other.
Under(l)      == l.key # NoKey /\ (l.final \/ l.pc = "row")
Entries(R, l) == [k \in DOMAIN R \ (IF Under(l) THEN {l.key} ELSE {}) |->
                    [content  |-> R[k].content,
                     current  |-> R[k].status = "active" \/ (Under(l) /\ k \in l.lineage),
                     replaces |-> R[k].lineage]]

\* The same with the processes f: what SharedStore has recorded.
Ledger(R, f) ==
    LET U == {s \in Procs : Under(f[s])} IN
    [k \in DOMAIN R \ {f[s].key : s \in U} |->
        [content  |-> R[k].content,
         current  |-> R[k].status = "active" \/ \E s \in U : k \in f[s].lineage,
         replaces |-> R[k].lineage]]

\* What SharedStore has recorded, before a step and after it, in this form.
LEMMA RecordedLedger == recorded = Ledger(rows, proc) /\ recorded' = Ledger(rows', proc')
BY DEF recorded, Ledger, Underway, Uncommitted, Under, IsActive

\* With one process in a call at most, only that call counts.
LEMMA LedgerEntries ==
    ASSUME NEW R, NEW f, NEW s \in Procs, \A o \in Procs : o # s => f[o].key = NoKey
    PROVE  Ledger(R, f) = Entries(R, f[s])
<1> DEFINE U == {o \in Procs : Under(f[o])}
<1>1. U = IF Under(f[s]) THEN {s} ELSE {}
  BY DEF Under
<1>2. {f[o].key : o \in U} = IF Under(f[s]) THEN {f[s].key} ELSE {}
  BY <1>1
<1>3. \A k : (\E o \in U : k \in f[o].lineage) <=> Under(f[s]) /\ k \in f[s].lineage
  BY <1>1
<1> HIDE DEF U
<1>4. Ledger(R, f) = [k \in DOMAIN R \ {f[o].key : o \in U} |->
                        [content  |-> R[k].content,
                         current  |-> R[k].status = "active" \/ \E o \in U : k \in f[o].lineage,
                         replaces |-> R[k].lineage]]
  BY DEF Ledger, U
<1> QED
  BY <1>2, <1>3, <1>4 DEF Entries

\* Two tables, under two calls that admit the same cell, are the same memory
\* when they have the same entries.
LEMMA EntriesUnder ==
    ASSUME NEW R, NEW S, NEW l, NEW m, Under(l), Under(m), l.key = m.key,
           DOMAIN R \ {l.key} = DOMAIN S \ {l.key},
           \A k \in DOMAIN R \ {l.key} :
              /\ R[k].content = S[k].content /\ R[k].lineage = S[k].lineage
              /\ (R[k].status = "active" \/ k \in l.lineage)
                 <=> (S[k].status = "active" \/ k \in m.lineage)
    PROVE  Entries(R, l) = Entries(S, m)
BY DEF Entries

\* The same under calls that have recorded what they had to.
LEMMA EntriesFree ==
    ASSUME NEW R, NEW S, NEW l, NEW m, ~Under(l), ~Under(m),
           DOMAIN R = DOMAIN S,
           \A k \in DOMAIN R : /\ R[k].content = S[k].content /\ R[k].lineage = S[k].lineage
                               /\ R[k].status = S[k].status
    PROVE  Entries(R, l) = Entries(S, m)
BY DEF Entries

\* A call that goes on past a put has recorded nothing more.
LEMMA ResumeEntries ==
    ASSUME NEW R, NEW l \in Local, l.pc # "row",
           ~l.final => l.joins = {} /\ l.supersedes = {} /\ l.weighs = {},
           l.key # NoKey => l.queue = {}
    PROVE  Entries(R, Resume(l)) = Entries(R, l)
<1>1. PICK m : m = Resume(l)
  OBVIOUS
<1>2. CASE l.final
  <2>1. m.key = l.key /\ m.lineage = l.lineage /\ m.final = l.final
    BY <1>1, <1>2 DEF Resume, Local
  <2>2. Under(m) <=> Under(l)
    BY <1>2, <2>1 DEF Under
  <2> QED
    BY <1>1, <2>1, <2>2, EntriesUnder, EntriesFree
<1>3. CASE ~l.final
  <2>1. ~Under(l)
    BY <1>3 DEF Under
  <2>2. ~Under(m)
    BY <1>1, <1>3 DEF Under, Resume, Rest, Local
  <2> QED
    BY <1>1, <2>1, <2>2, EntriesFree
<1> QED
  BY <1>2, <1>3 DEF Local

\* The step of one process, that becomes l, is a step of the memory.
LEMMA EntriesStep ==
    ASSUME IInv, TInv, NEW s \in Procs, NEW l, Becomes(s, l),
           proc[s].pc = "idle" => Idle
    PROVE  recorded = Entries(rows, proc[s]) /\ recorded' = Entries(rows', l)
<1>1. proc'[s] = l /\ \A o \in Procs : o # s => proc'[o] = proc[o]
  BY DEF IInv, TypeOK, Becomes
<1>2. \A o \in Procs : o # s => proc[o].key = NoKey
  BY DEF TInv, Alone, Idle, Rest
<1> QED
  BY <1>1, <1>2, RecordedLedger, LedgerEntries

\* Writing a row records nothing before the last put of an admission.
LEMMA RowEntries ==
    ASSUME NEW R, NEW E, NEW l \in Local, NEW W, Fit(R, E, l), Book(With(R, l.out), W, l), l.pc = "row",
           l.out \in Cell, l.key = NoKey \/ l.final,
           NEW m, m.key = l.key, m.lineage = l.lineage, m.final = l.final, m.pc = "clear"
    PROVE  Entries(With(R, l.out), m) = Entries(R, l)
<1>1. Under(m) <=> Under(l)
  BY DEF Under, Local
<1>2. PICK S : S = With(R, l.out)
  OBVIOUS
<1>3. /\ DOMAIN S = DOMAIN R \cup {l.out.key} /\ S[l.out.key] = l.out.row
      /\ \A k \in DOMAIN R : k # l.out.key => S[k] = R[k]
  BY <1>2 DEF With
<1>4. l.out.key # NoKey
  BY SharedAssumption DEF Cell, SharedAssumption
<1>5. CASE Opens(R, l)
  <2>1. l.key # NoKey /\ Under(l)
    BY <1>4, <1>5 DEF Opens, Under
  <2>2. /\ Under(m) /\ DOMAIN S \ {m.key} = DOMAIN R \ {m.key}
        /\ \A k \in DOMAIN S \ {m.key} :
              /\ S[k].content = R[k].content /\ S[k].lineage = R[k].lineage
              /\ (S[k].status = "active" \/ k \in m.lineage)
                 <=> (R[k].status = "active" \/ k \in l.lineage)
    BY <1>1, <1>3, <1>5, <2>1 DEF Opens
  <2>3. Entries(S, m) = Entries(R, l)
    BY <2>1, <2>2, EntriesUnder
  <2> QED
    BY <1>2, <2>3
<1>6. CASE Rewrites(R, E, l) /\ l.key = NoKey
  <2>1. ~Under(l) /\ l.lineage = {}
    BY <1>6 DEF Under, Book
  <2>2. /\ l.out.key \in DOMAIN R /\ l.out.row.content = R[l.out.key].content
        /\ l.out.row.status = R[l.out.key].status /\ l.out.row.lineage = R[l.out.key].lineage
    BY <1>4, <1>6, <2>1 DEF Rewrites
  <2>3. DOMAIN S = DOMAIN R
    BY <1>3, <2>2
  <2>4. \A k \in DOMAIN S : /\ S[k].content = R[k].content /\ S[k].lineage = R[k].lineage
                            /\ S[k].status = R[k].status
    BY <1>3, <2>2, <2>3
  <2>5. Entries(S, m) = Entries(R, l)
    BY <1>1, <2>1, <2>3, <2>4, EntriesFree
  <2> QED
    BY <1>2, <2>5
<1>7. CASE Rewrites(R, E, l) /\ l.key # NoKey
  <2>1. Under(l) /\ l.final
    BY <1>7 DEF Under
  <2>2. /\ l.out.key \in DOMAIN R /\ l.out.row.content = R[l.out.key].content
        /\ l.out.row.status = R[l.out.key].status \/ l.out.key \in l.lineage
        /\ l.out.row.lineage = R[l.out.key].lineage
    BY <1>7, <2>1 DEF Rewrites
  <2>3. DOMAIN S = DOMAIN R
    BY <1>3, <2>2
  <2>4. \A k \in DOMAIN S : /\ S[k].content = R[k].content /\ S[k].lineage = R[k].lineage
                            /\ (S[k].status = "active" \/ k \in m.lineage)
                               <=> (R[k].status = "active" \/ k \in l.lineage)
    BY <1>3, <2>2, <2>3
  <2>5. Under(m) /\ DOMAIN S \ {m.key} = DOMAIN R \ {m.key}
    BY <1>1, <2>1, <2>3
  <2>6. Entries(S, m) = Entries(R, l)
    BY <2>1, <2>4, <2>5, EntriesUnder
  <2> QED
    BY <1>2, <2>6
<1> QED
  BY <1>5, <1>6, <1>7 DEF Fit

\* The memory with the content c recorded under k, in place of the entries of r.
Replacing(old, k, c, r) ==
    [j \in DOMAIN old \cup {k} |->
       IF j = k
       THEN [content |-> c, current |-> TRUE, replaces |-> r]
       ELSE IF j \in r THEN [old[j] EXCEPT !.current = FALSE]
       ELSE old[j]]

\* An entry that is replaced.
LEMMA EntryReplaced ==
    ASSUME NEW a, NEW b, NEW u, NEW v
    PROVE  [[content |-> a, current |-> u, replaces |-> b] EXCEPT !.current = v]
           = [content |-> a, current |-> v, replaces |-> b]
OBVIOUS

\* The last put of an admission records its cell, in place of the cells it demoted.
LEMMA RowRecords ==
    ASSUME NEW R, NEW E, NEW l \in Local, NEW W, Fit(R, E, l), Book(With(R, l.out), W, l), l.pc = "row",
           l.out \in Cell, l.key # NoKey, ~l.final,
           NEW m, m.key = l.key, m.lineage = l.lineage, m.final = l.final, m.pc = "clear",
           NEW c, c = l.out.row.content,
           NEW old, old = Entries(R, l), NEW new, new = Entries(With(R, l.out), m)
    PROVE  /\ l.key \notin DOMAIN old
           /\ \A t \in l.lineage : t \in DOMAIN old /\ old[t].current
           /\ new = Replacing(old, l.key, c, l.lineage)
<1>1. Under(l) /\ ~Under(m)
  BY DEF Under
<1>2. PICK S : S = With(R, l.out)
  OBVIOUS
<1>3. l.out.key = l.key /\ Rewrites(R, E, l)
  BY DEF Fit, Opens
<1>4. /\ DOMAIN S = DOMAIN R /\ S[l.key] = l.out.row /\ l.key \in DOMAIN R
      /\ \A k \in DOMAIN R : k # l.key => S[k] = R[k]
  BY <1>2, <1>3 DEF With, Rewrites
<1>5. /\ S[l.key].status = "active" /\ S[l.key].lineage = l.lineage
      /\ l.key \notin l.lineage
      /\ \A t \in l.lineage : t \in DOMAIN S /\ S[t].status = "superseded"
  BY <1>2 DEF Book
<1>7. /\ DOMAIN old = DOMAIN R \ {l.key}
      /\ \A k \in DOMAIN R \ {l.key} :
            old[k] = [content |-> R[k].content,
                      current |-> R[k].status = "active" \/ k \in l.lineage,
                      replaces |-> R[k].lineage]
  BY <1>1 DEF Entries
<1>8. Entries(S, m) = [k \in DOMAIN R |-> [content |-> S[k].content,
                                           current |-> S[k].status = "active",
                                           replaces |-> S[k].lineage]]
  BY <1>1, <1>4 DEF Entries
<1>9. ASSUME NEW k \in DOMAIN R
      PROVE  [content |-> S[k].content, current |-> S[k].status = "active",
              replaces |-> S[k].lineage]
             = IF k = l.key
               THEN [content |-> c, current |-> TRUE, replaces |-> l.lineage]
               ELSE IF k \in l.lineage THEN [old[k] EXCEPT !.current = FALSE]
               ELSE old[k]
  <2>1. CASE k = l.key
    BY <1>4, <1>5, <2>1
  <2>2. CASE k # l.key /\ k \in l.lineage
    <3>1. /\ (S[k].status = "active") = FALSE /\ S[k] = R[k]
          /\ (R[k].status = "active" \/ k \in l.lineage) = TRUE
      BY <1>4, <1>5, <2>2
    <3>2. old[k] = [content |-> R[k].content, current |-> TRUE, replaces |-> R[k].lineage]
      BY <1>7, <2>2, <3>1
    <3>3. [old[k] EXCEPT !.current = FALSE]
          = [content |-> R[k].content, current |-> FALSE, replaces |-> R[k].lineage]
      <4>1. PICK u, v : u = TRUE /\ v = FALSE
        OBVIOUS
      <4>2. old[k] = [content |-> R[k].content, current |-> u, replaces |-> R[k].lineage]
        BY <3>2, <4>1, Zenon
      <4>3. [[content |-> R[k].content, current |-> u, replaces |-> R[k].lineage] EXCEPT !.current = v]
            = [content |-> R[k].content, current |-> v, replaces |-> R[k].lineage]
        BY EntryReplaced
      <4> QED
        BY <4>1, <4>2, <4>3, Zenon
    <3>4. [content |-> S[k].content, current |-> S[k].status = "active", replaces |-> S[k].lineage]
          = [content |-> R[k].content, current |-> FALSE, replaces |-> R[k].lineage]
      BY <3>1
    <3> QED
      BY <2>2, <3>3, <3>4
  <2>3. CASE k # l.key /\ k \notin l.lineage
    <3>1. old[k] = [content |-> R[k].content, current |-> R[k].status = "active",
                    replaces |-> R[k].lineage]
      BY <1>7, <2>3
    <3> QED
      BY <1>4, <2>3, <3>1
  <2> QED
    BY <2>1, <2>2, <2>3
<1>10. DOMAIN old \cup {l.key} = DOMAIN R
  BY <1>4, <1>7
<1>11. Entries(S, m) = [j \in DOMAIN old \cup {l.key} |->
                     IF j = l.key
                     THEN [content |-> c, current |-> TRUE, replaces |-> l.lineage]
                     ELSE IF j \in l.lineage THEN [old[j] EXCEPT !.current = FALSE]
                     ELSE old[j]]
  <2> DEFINE now(k)  == [content |-> S[k].content, current |-> S[k].status = "active",
                         replaces |-> S[k].lineage]
             next(k) == IF k = l.key
                        THEN [content |-> c, current |-> TRUE, replaces |-> l.lineage]
                        ELSE IF k \in l.lineage THEN [old[k] EXCEPT !.current = FALSE]
                        ELSE old[k]
  <2>1. /\ Entries(S, m) = [k \in DOMAIN R |-> now(k)]
        /\ \A k \in DOMAIN R : now(k) = next(k)
    BY <1>8, <1>9
  <2> HIDE DEF now, next
  <2>2. Entries(S, m) = [k \in DOMAIN old \cup {l.key} |-> next(k)]
    BY <1>10, <2>1
  <2> QED
    BY <2>2 DEF next
<1>12. ASSUME NEW t \in l.lineage
       PROVE  t \in DOMAIN old /\ old[t].current
  <2>1. t \in DOMAIN R \ {l.key}
    BY <1>4, <1>5
  <2>2. (R[t].status = "active" \/ t \in l.lineage) = TRUE
    OBVIOUS
  <2>3. old[t] = [content |-> R[t].content, current |-> TRUE, replaces |-> R[t].lineage]
    BY <1>7, <2>1, <2>2
  <2> QED
    BY <1>7, <2>1, <2>3
<1> QED
  BY <1>2, <1>7, <1>11, <1>12 DEF Replacing

\* Writing a row is a step of the memory when it ends an admission, and leaves
\* it alone otherwise.
LEMMA RowStep ==
    ASSUME IInv, TInv, NEW s \in Procs, PutRow(s)
    PROVE  [M!Next]_recorded
<1>1. PICK p : p = proc[s]
  OBVIOUS
<1>2. p.pc = "row" /\ p.pc \in Puts /\ p.pc # "idle"
  BY <1>1 DEF PutRow, Puts
<1>3. /\ p \in Local /\ p.out \in Cell /\ Good(rows, edges, bundles, crashes, p)
      /\ \A k \in DOMAIN rows : k \in Keys
  BY <1>1, <1>2, BusyBy
<1>4. PICK W : W = Whole(edges, p)
  OBVIOUS
<1>5. Fit(rows, edges, p) /\ Book(With(rows, p.out), W, p)
  BY <1>2, <1>3, <1>4 DEF Good, Sound, Seen
<1>6. PICK l : l = [p EXCEPT !.pc = "clear"]
  OBVIOUS
<1>7. l.key = p.key /\ l.lineage = p.lineage /\ l.final = p.final /\ l.pc = "clear"
  BY <1>3, <1>6 DEF Local
<1>8. rows' = With(rows, p.out) /\ Becomes(s, l)
  BY <1>1, <1>6 DEF PutRow, With
<1>9. recorded = Entries(rows, p) /\ recorded' = Entries(With(rows, p.out), l)
  BY <1>1, <1>2, <1>8, EntriesStep
<1>10. CASE p.key = NoKey \/ p.final
  BY <1>2, <1>3, <1>5, <1>7, <1>9, <1>10, RowEntries
<1>11. CASE p.key # NoKey /\ ~p.final
  <2>1. PICK c : c = p.out.row.content
    OBVIOUS
  <2>2. PICK old, new : old = Entries(rows, p) /\ new = Entries(With(rows, p.out), l)
    OBVIOUS
  <2>3. /\ p.key \notin DOMAIN old
        /\ \A t \in p.lineage : t \in DOMAIN old /\ old[t].current
        /\ new = Replacing(old, p.key, c, p.lineage)
    BY <1>2, <1>3, <1>5, <1>7, <1>11, <2>1, <2>2, RowRecords
  <2>4. recorded = old /\ recorded' = new
    BY <1>9, <2>2
  <2>5. M!Record(p.key, c, p.lineage)
    BY <2>3, <2>4 DEF M!Record, M!Current, Replacing
  <2>6. p.key \in Keys /\ c \in Contents /\ p.lineage \in SUBSET Keys
    BY <1>3, <1>11, <2>1 DEF Local, Cell, Row
  <2> QED
    BY <2>5, <2>6 DEF M!Next
<1> QED
  BY <1>10, <1>11 DEF Local

\* Going on past a put leaves the memory alone.
LEMMA ResumeRecorded ==
    ASSUME IInv, TInv, NEW s \in Procs, proc[s].pc # "idle", rows' = rows,
           NEW m \in Local, Becomes(s, Resume(m)), proc[s].pc # "row", m.pc # "row",
           m.key = proc[s].key, m.final = proc[s].final, m.lineage = proc[s].lineage,
           m.queue = proc[s].queue, m.weighs = proc[s].weighs,
           m.supersedes \subseteq proc[s].supersedes, m.joins = proc[s].joins
    PROVE  recorded' = recorded
<1>1. PICK p : p = proc[s]
  OBVIOUS
<1>2. Good(rows, edges, bundles, crashes, p) /\ p.pc # "row"
  BY <1>1, BusyBy
<1>3. /\ ~m.final => m.joins = {} /\ m.supersedes = {} /\ m.weighs = {}
      /\ m.key # NoKey => m.queue = {}
  BY <1>1, <1>2 DEF Good, Fit, Sound, Book
<1>4. PICK l : l = Resume(m)
  OBVIOUS
<1>5. recorded = Entries(rows, p) /\ recorded' = Entries(rows', l)
  BY <1>1, <1>4, EntriesStep
<1>6. Entries(rows, l) = Entries(rows, m)
  BY <1>3, <1>4, ResumeEntries
<1>7. PICK o : o = m
  OBVIOUS
<1>8. o.key = p.key /\ o.lineage = p.lineage /\ o.final = p.final /\ o.pc # "row"
  BY <1>1, <1>7
<1>9. Under(o) <=> Under(p)
  BY <1>2, <1>8 DEF Under
<1>10. Entries(rows, o) = Entries(rows, p)
  BY <1>8, <1>9, EntriesUnder, EntriesFree
<1> QED
  BY <1>5, <1>6, <1>7, <1>10

\* A step that leaves the rows alone, and the call as far as it was, leaves the
\* memory alone.
LEMMA QuietRecorded ==
    ASSUME IInv, TInv, NEW s \in Procs, rows' = rows, proc[s].pc = "idle" => Idle,
           NEW l, Becomes(s, l), Under(l) <=> Under(proc[s]),
           Under(l) => /\ l.key = proc[s].key
                       /\ \A k \in DOMAIN rows : k \in l.lineage <=> k \in proc[s].lineage
    PROVE  recorded' = recorded
<1>1. PICK p : p = proc[s]
  OBVIOUS
<1>2. recorded = Entries(rows, p) /\ recorded' = Entries(rows', l)
  BY <1>1, EntriesStep
<1>3. CASE Under(l)
  <2>1. /\ Under(p) /\ p.key = l.key
        /\ \A k \in DOMAIN rows \ {p.key} :
              (rows[k].status = "active" \/ k \in p.lineage)
              <=> (rows[k].status = "active" \/ k \in l.lineage)
    BY <1>1, <1>3
  <2>2. DOMAIN rows \ {p.key} = DOMAIN rows \ {l.key}
    BY <2>1
  <2>3. Entries(rows, p) = Entries(rows, l)
    BY <1>3, <2>1, <2>2, EntriesUnder
  <2> QED
    BY <1>2, <2>3
<1>4. CASE ~Under(l)
  <2>1. ~Under(p)
    BY <1>1, <1>4
  <2>2. Entries(rows, p) = Entries(rows, l)
    BY <1>4, <2>1, EntriesFree
  <2> QED
    BY <1>2, <2>2
<1> QED
  BY <1>3, <1>4

\* No other statement of a put, and no step of a bundle, records anything.
LEMMA PiecesRecorded ==
    ASSUME IInv, TInv, NEW s \in Procs,
           PutClear(s) \/ PutLink(s) \/ JoinRead(s) \/ JoinWrite(s)
    PROVE  recorded' = recorded
<1>1. rows' = rows /\ proc[s].pc # "idle" /\ proc[s].pc # "row"
  BY DEF PutClear, PutLink, JoinRead, JoinWrite
<1>2. proc[s] \in Local
  BY <1>1, BusyBy
<1>3. ASSUME NEW l, Becomes(s, l), l.pc # "row", l.key = proc[s].key,
             l.final = proc[s].final, l.lineage = proc[s].lineage
      PROVE  recorded' = recorded
  <2>1. Under(l) <=> Under(proc[s])
    BY <1>1, <1>3 DEF Under
  <2> QED
    BY <1>1, <1>3, <2>1, QuietRecorded
<1>4. CASE PutClear(s)
  <2>1. CASE proc[s].left = {}
    <3>1. Becomes(s, Resume(proc[s]))
      BY <1>4, <2>1 DEF PutClear
    <3> QED
      BY <1>1, <1>2, <3>1, ResumeRecorded
  <2>2. CASE proc[s].left # {}
    <3>1. PICK l : l = [proc[s] EXCEPT !.pc = "link"]
      OBVIOUS
    <3>2. /\ Becomes(s, l) /\ l.pc = "link" /\ l.key = proc[s].key
          /\ l.final = proc[s].final /\ l.lineage = proc[s].lineage
      BY <1>2, <1>4, <2>2, <3>1 DEF PutClear, Local
    <3> QED
      BY <1>3, <3>2
  <2> QED
    BY <2>1, <2>2
<1>5. CASE PutLink(s)
  <2>1. PICK x \in proc[s].left :
           LET now == [proc[s] EXCEPT !.left = @ \ {x}] IN
           Becomes(s, IF now.left = {} THEN Resume(now) ELSE now)
    BY <1>5 DEF PutLink
  <2>2. PICK m : m = [proc[s] EXCEPT !.left = @ \ {x}]
    OBVIOUS
  <2>3. /\ m \in Local /\ m.pc = "link" /\ m.key = proc[s].key /\ m.final = proc[s].final
        /\ m.lineage = proc[s].lineage /\ m.queue = proc[s].queue
        /\ m.weighs = proc[s].weighs /\ m.supersedes = proc[s].supersedes
        /\ m.joins = proc[s].joins
    BY <1>2, <1>5, <2>2 DEF PutLink, Local
  <2>4. CASE m.left = {}
    <3>1. Becomes(s, Resume(m))
      BY <2>1, <2>2, <2>4
    <3> QED
      BY <1>1, <2>3, <3>1, ResumeRecorded
  <2>5. CASE m.left # {}
    <3>1. Becomes(s, m)
      BY <2>1, <2>2, <2>5
    <3> QED
      BY <1>3, <2>3, <3>1
  <2> QED
    BY <2>4, <2>5
<1>6. CASE JoinRead(s)
  <2>1. PICK b \in proc[s].joins :
           Becomes(s, [proc[s] EXCEPT !.pc = "member", !.bundle = b,
                                      !.members = bundles[b], !.joins = @ \ {b}])
    BY <1>6 DEF JoinRead
  <2>2. PICK l : l = [proc[s] EXCEPT !.pc = "member", !.bundle = b,
                                     !.members = bundles[b], !.joins = @ \ {b}]
    OBVIOUS
  <2>3. /\ Becomes(s, l) /\ l.pc = "member" /\ l.key = proc[s].key
        /\ l.final = proc[s].final /\ l.lineage = proc[s].lineage
    BY <1>2, <2>1, <2>2 DEF Local
  <2> QED
    BY <1>3, <2>3
<1>7. CASE JoinWrite(s)
  <2>1. PICK m : m = [proc[s] EXCEPT !.bundle = NoKey, !.members = {}]
    OBVIOUS
  <2>2. /\ m \in Local /\ m.pc = "member" /\ m.key = proc[s].key /\ m.final = proc[s].final
        /\ m.lineage = proc[s].lineage /\ m.queue = proc[s].queue
        /\ m.weighs = proc[s].weighs /\ m.supersedes = proc[s].supersedes
        /\ m.joins = proc[s].joins
    BY <1>2, <1>7, <2>1 DEF JoinWrite, Local
  <2>3. Becomes(s, Resume(m))
    BY <1>7, <2>1 DEF JoinWrite
  <2> QED
    BY <1>1, <2>2, <2>3, ResumeRecorded
<1> QED
  BY <1>4, <1>5, <1>6, <1>7

\* Choosing what to put next records nothing: a cell that is going to be demoted
\* counts as current until the admission is recorded.
LEMMA ChoicesRecorded ==
    ASSUME IInv, TInv, NEW s \in Procs,
           Supersede(s) \/ Weigh(s) \/ Finish(s) \/ TickNext(s)
    PROVE  recorded' = recorded
<1>1. /\ rows' = rows /\ proc[s].pc # "idle" /\ proc[s].pc # "row" /\ proc[s].pc \notin Puts
  BY DEF Supersede, Weigh, Finish, TickNext, Puts
<1>2. /\ proc[s] \in Local
      /\ proc[s].key # NoKey => proc[s].final
      /\ Sound(rows, edges, crashes, proc[s])
  BY <1>1, BusyBy, BetweenPuts
<1>3. ASSUME NEW m \in Local, NEW c, Becomes(s, Putting(m, c)), m.key = proc[s].key,
             \A k \in DOMAIN rows : k \in m.lineage <=> k \in proc[s].lineage
      PROVE  recorded' = recorded
  <2>1. PICK l : l = Putting(m, c)
    OBVIOUS
  <2>2. /\ Becomes(s, l) /\ l.pc = "row" /\ l.key = proc[s].key /\ l.lineage = m.lineage
    BY <1>3, <2>1 DEF Putting, Local
  <2>3. Under(l) <=> Under(proc[s])
    BY <1>2, <2>2 DEF Under
  <2> QED
    BY <1>1, <1>3, <2>2, <2>3, QuietRecorded
<1>4. CASE Supersede(s)
  <2>1. PICK t \in proc[s].supersedes :
           LET now == [proc[s] EXCEPT !.supersedes = @ \ {t}] IN
           Becomes(s, IF IsActive(t)
                      THEN Putting([now EXCEPT !.lineage = @ \cup {t}],
                                   [Read(t) EXCEPT !.row.status = "superseded"])
                      ELSE Resume(now))
    BY <1>4 DEF Supersede
  <2>2. PICK now : now = [proc[s] EXCEPT !.supersedes = @ \ {t}]
    OBVIOUS
  <2>3. /\ now \in Local /\ now.pc = "supersede" /\ now.key = proc[s].key
        /\ now.final = proc[s].final /\ now.lineage = proc[s].lineage
        /\ now.queue = proc[s].queue /\ now.weighs = proc[s].weighs
        /\ now.supersedes \subseteq proc[s].supersedes /\ now.joins = proc[s].joins
    BY <1>2, <1>4, <2>2 DEF Supersede, Local
  <2>4. CASE IsActive(t)
    <3>1. PICK l : l = Putting([now EXCEPT !.lineage = @ \cup {t}],
                               [Read(t) EXCEPT !.row.status = "superseded"])
      OBVIOUS
    <3>2. Becomes(s, l)
      BY <2>1, <2>2, <2>4, <3>1
    <3>3. /\ l.pc = "row" /\ l.key = proc[s].key /\ l.final = proc[s].final
          /\ l.lineage = proc[s].lineage \cup {t}
      BY <2>3, <3>1 DEF Putting, Local
    <3>4. PICK p : p = proc[s]
      OBVIOUS
    <3>5. Under(l) <=> Under(p)
      BY <1>2, <3>3, <3>4 DEF Under
    <3>6. recorded = Entries(rows, p) /\ recorded' = Entries(rows', l)
      BY <1>1, <3>2, <3>4, EntriesStep
    <3>7. CASE Under(l)
      <4>1. /\ Under(p) /\ p.key = l.key /\ DOMAIN rows \ {p.key} = DOMAIN rows \ {l.key}
            /\ \A k \in DOMAIN rows \ {p.key} :
                  (rows[k].status = "active" \/ k \in p.lineage)
                  <=> (rows[k].status = "active" \/ k \in l.lineage)
        BY <2>4, <3>3, <3>4, <3>5, <3>7 DEF IsActive
      <4>2. Entries(rows, p) = Entries(rows, l)
        BY <3>7, <4>1, EntriesUnder
      <4> QED
        BY <1>1, <3>6, <4>2
    <3>8. CASE ~Under(l)
      BY <1>1, <3>5, <3>6, <3>8, EntriesFree
    <3> QED
      BY <3>7, <3>8
  <2>5. CASE ~IsActive(t)
    <3>1. Becomes(s, Resume(now))
      BY <2>1, <2>2, <2>5
    <3> QED
      BY <1>1, <2>3, <3>1, ResumeRecorded
  <2> QED
    BY <2>4, <2>5
<1>5. CASE Weigh(s)
  <2>1. PICK t \in proc[s].weighs :
           Becomes(s, Putting([proc[s] EXCEPT !.weighs = @ \ {t}], Recounted(t)))
    BY <1>5 DEF Weigh
  <2>2. PICK m : m = [proc[s] EXCEPT !.weighs = @ \ {t}]
    OBVIOUS
  <2>3. m \in Local /\ m.key = proc[s].key /\ m.lineage = proc[s].lineage
    BY <1>2, <2>2 DEF Local
  <2> QED
    BY <1>3, <2>1, <2>2, <2>3
<1>6. CASE Finish(s)
  <2>1. PICK m : m = [proc[s] EXCEPT !.final = FALSE]
    OBVIOUS
  <2>2. m \in Local /\ m.key = proc[s].key /\ m.lineage = proc[s].lineage
    BY <1>2, <2>1 DEF Local
  <2>3. PICK c : c = Built(proc[s].key, proc[s].prop, proc[s].lineage, Incoming(proc[s].key))
    OBVIOUS
  <2>4. Becomes(s, Putting(m, c))
    BY <1>6, <2>1, <2>3 DEF Finish
  <2> QED
    BY <1>3, <2>2, <2>4
<1>7. CASE TickNext(s)
  <2>1. PICK c \in proc[s].queue : Becomes(s, Putting([proc[s] EXCEPT !.queue = @ \ {c}], c))
    BY <1>7 DEF TickNext
  <2>2. PICK m : m = [proc[s] EXCEPT !.queue = @ \ {c}]
    OBVIOUS
  <2>3. m \in Local /\ m.key = proc[s].key /\ m.lineage = proc[s].lineage
    BY <1>2, <2>2 DEF Local
  <2> QED
    BY <1>3, <2>1, <2>2, <2>3
<1> QED
  BY <1>4, <1>5, <1>6, <1>7

\* A call that starts has recorded nothing yet.
LEMMA BeginRecorded ==
    ASSUME IInv, TInv, Overlap = {}, NEW s \in Procs, Begin(s)
    PROVE  recorded' = recorded
<1>1. Idle /\ rows' = rows
  BY StartsAlone DEF Begin, BeginAdmit, BeginTouch, BeginTick
<1>2. proc[s] = Rest /\ Rest.key = NoKey /\ ~Under(Rest)
  BY <1>1 DEF TInv, Idle, Under, Rest
<1>3. ASSUME NEW l, Becomes(s, l), l.key = NoKey
      PROVE  recorded' = recorded
  <2>1. ~Under(l)
    BY <1>3 DEF Under
  <2> QED
    BY <1>1, <1>2, <1>3, <2>1, QuietRecorded
<1>4. CASE \E k \in DOMAIN rows : BeginTouch(s, k)
  <2>1. PICK k \in DOMAIN rows : Becomes(s, Putting([Rest EXCEPT !.call = "touch"], Read(k)))
    BY <1>4 DEF BeginTouch
  <2>2. PICK l : l = Putting([Rest EXCEPT !.call = "touch"], Read(k))
    OBVIOUS
  <2>3. Becomes(s, l) /\ l.key = NoKey
    BY <2>1, <2>2 DEF Putting, Rest
  <2> QED
    BY <1>3, <2>3
<1>5. CASE BeginTick(s)
  <2>1. PICK l : l = Resume([Rest EXCEPT
          !.call = "tick",
          !.queue = {Recounted(k) : k \in {c \in DOMAIN rows : IsActive(c)}}])
    OBVIOUS
  <2>2. Becomes(s, l)
    BY <1>5, <2>1 DEF BeginTick
  <2>3. l.key = NoKey
    BY <2>1 DEF Resume, Rest
  <2> QED
    BY <1>3, <2>2, <2>3
<1>6. CASE \E p \in Proposals, k \in Keys : BeginAdmit(s, p, k)
  <2>1. PICK p \in Proposals, k \in Keys : BeginAdmit(s, p, k)
    BY <1>6
  <2>2. PICK joins, supersedes, weighs, c :
           Becomes(s, Putting([Rest EXCEPT
              !.call = "admit", !.key = k, !.prop = p, !.final = TRUE, !.joins = joins,
              !.supersedes = supersedes, !.weighs = weighs], c))
    BY <2>1 DEF BeginAdmit
  <2>3. PICK l : l = Putting([Rest EXCEPT
              !.call = "admit", !.key = k, !.prop = p, !.final = TRUE, !.joins = joins,
              !.supersedes = supersedes, !.weighs = weighs], c)
    OBVIOUS
  <2>4. Becomes(s, l) /\ l.key = k /\ l.lineage = {} /\ l.final = TRUE
    BY <2>2, <2>3 DEF Putting, Rest
  <2>5. k # NoKey /\ k \notin DOMAIN rows
    BY <2>1, SharedAssumption DEF SharedAssumption, BeginAdmit, Unused
  <2>6. Under(l)
    BY <2>4, <2>5 DEF Under
  <2>7. Entries(rows, l) = Entries(rows, Rest)
    BY <1>2, <2>4, <2>5, <2>6 DEF Entries
  <2> QED
    BY <1>1, <1>2, <2>4, <2>7, EntriesStep
<1> QED
  BY <1>4, <1>5, <1>6 DEF Begin

\* When calls take turns, the statements they consist of implement the memory
\* Recall promises: an admission takes effect at once, when its last put writes
\* the row that names the lineage, and nothing else shows, but a kill.
THEOREM TurnsImplementTheMemory ==
    ASSUME Overlap = {}
    PROVE  Spec => TurnsImplementMemory
<1>1. Init => M!Init
  <2>1. ASSUME Init PROVE DOMAIN rows = {}
    BY <2>1 DEF Init
  <2>2. ASSUME Init PROVE recorded = [i \in {} |-> {}]
    BY <2>1, <2>2 DEF recorded
  <2> QED
    BY <2>2 DEF M!Init
<1>2. IInv /\ TInv /\ [Next]_vars => [crashes' = crashes => M!Next]_recorded
  <2> SUFFICES ASSUME IInv, TInv, [Next]_vars
               PROVE  [crashes' = crashes => M!Next]_recorded
    OBVIOUS
  <2>1. CASE UNCHANGED vars
    BY <2>1 DEF vars, recorded, Underway, Uncommitted, IsActive
  <2>2. ASSUME NEW s \in Procs, Begin(s)
        PROVE  [M!Next]_recorded
    BY <2>2, BeginRecorded
  <2>3. ASSUME NEW s \in Procs, Continue(s)
        PROVE  [M!Next]_recorded
    BY <2>3, RowStep, PiecesRecorded, ChoicesRecorded DEF Continue
  <2>4. ASSUME NEW s \in Procs, Crash(s)
        PROVE  crashes' # crashes
    BY <2>4 DEF Crash, IInv, TypeOK
  <2> QED
    BY <2>1, <2>2, <2>3, <2>4 DEF Next
<1> QED
  BY <1>1, <1>2, TurnInvariant, PTL DEF Spec, TurnsImplementMemory

P == INSTANCE MemoryProofs WITH Ids <- Keys, Content <- Contents, memory <- recorded

\* When calls take turns and none is killed, the lineage the processes write
\* between them is a chain: what is out of date has exactly one recorded
\* successor that lists it, what is current has none, and a walk down the
\* lineage ends.
THEOREM TurnsLineage ==
    ASSUME Overlap = {}, MaxCrashes = 0
    PROVE  Spec => []M!ReplacedOnce /\ []M!LineageAcyclic
<1>1. P!Spec => []P!History
  BY P!MemoryHistory
<1>2. Spec => P!Spec
  <2>1. M!Init <=> P!Init
    BY DEF M!Init, P!Init
  <2>2. M!Next <=> P!Next
    BY DEF M!Next, M!Record, M!Current, P!Next, P!Record, P!Current
  <2>3. IInv /\ IInv' => crashes' = crashes
    BY DEF IInv, TypeOK
  <2>4. IInv /\ IInv' /\ [crashes' = crashes => M!Next]_recorded => [P!Next]_recorded
    BY <2>2, <2>3
  <2> QED
    BY <2>1, <2>4, TurnsImplementTheMemory, TurnInvariant, PTL DEF TurnsImplementMemory, P!Spec
<1>3. P!History => M!ReplacedOnce /\ M!LineageAcyclic
  BY DEF P!History, P!ReplacedOnce, P!LineageAcyclic, M!ReplacedOnce, M!LineageAcyclic
<1> QED
  BY <1>1, <1>2, <1>3, PTL
=============================================================================
