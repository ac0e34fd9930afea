-------------------------- MODULE RemotePanelProofs --------------------------
(***************************************************************************)
(* Theorems about RemotePanel and the folder scans it queues, for any      *)
(* trees, limits and paths, however many handlers wait for one another.    *)
(***************************************************************************)
EXTENDS RemotePanel, Induction, SequenceTheorems

Directions == {"Create local dir", "Download", "Create remote dir", "Upload",
               "Delete remote dir", "Delete remote file"}
Items == [direction : Directions, source : Seq(Name), target : Seq(Name),
          status : {"Pending", "Failed"}]
Scans == [items : Seq(Items), count : Nat, ok : BOOLEAN]
-----------------------------------------------------------------------------
(***************************************************************************)
(* The scans, one entry after another.                                     *)
(***************************************************************************)

\* What an entry p does to a scan, whichever side is scanned: it is passed
\* over, it stops the scan, it is queued, or it is queued and marked.
Visits(s, t, p, to, isDir, isFile, mk, get) ==
  \/ t = s /\ (s.ok => ~isDir /\ ~isFile)
  \/ t = Stopped(s)
  \/ /\ s.ok /\ ~Full(s) /\ (isDir \/ isFile)
     /\ t = Added(s, Item(IF isDir THEN mk ELSE get, p, to, "Pending"))
  \/ /\ s.ok /\ ~Full(s) /\ isDir /\ mk = "Create local dir"
     /\ t = Marked(Added(s, Item(mk, p, to, "Pending")), p, to)

\* The entries of a remote scan do nothing else.
LEMMA RemoteVisits ==
  ASSUME NEW s \in Scans, NEW p, NEW folder, NEW target, NEW unlisted
  PROVE  Visits(s, RemoteEntry(s, p, folder, target, unlisted), p, CopyOf(p, folder, target),
                IsFolder(p, folder), ~IsFolder(p, folder) /\ Server[p] = "file",
                "Create local dir", "Download")
BY DEF Visits, RemoteEntry, EnterFolder, Scans

\* Nor do those of a local scan.
LEMMA LocalVisits ==
  ASSUME NEW s \in Scans, NEW p, NEW folder, NEW target
  PROVE  Visits(s, LocalEntry(s, p, folder, target), p, CopyOf(p, folder, target),
                Disk[p] = "dir", Disk[p] = "file", "Create remote dir", "Upload")
BY DEF Visits, LocalEntry, Scans

\* Adding an item, stopping and marking, field by field.
LEMMA ScanChanges ==
  ASSUME NEW s \in Scans
  PROVE  /\ Stopped(s) \in Scans /\ Stopped(s).items = s.items /\ Stopped(s).count = s.count
         /\ ~Stopped(s).ok
         /\ \A item \in Items :
              /\ Added(s, item) \in Scans /\ Added(s, item).items = Append(s.items, item)
              /\ Added(s, item).count = s.count + 1 /\ (s.ok => Added(s, item).ok)
         /\ \A p, to \in Seq(Name) :
              /\ Marked(s, p, to) \in Scans /\ ~Marked(s, p, to).ok
              /\ Marked(s, p, to).items
                   = Append(s.items, Item("Create local dir", p, to, "Failed"))
              /\ Marked(s, p, to).count = s.count
<1>1. s.items \in Seq(Items) /\ s.count \in Nat /\ s.count + 1 \in Nat
  BY DEF Scans
<1>2. /\ Stopped(s) \in Scans /\ Stopped(s).items = s.items /\ Stopped(s).count = s.count
  BY DEF Scans, Stopped
<1>3. ~Stopped(s).ok
  BY DEF Scans, Stopped
<1>4. ASSUME NEW item \in Items
      PROVE  /\ Added(s, item) \in Scans /\ Added(s, item).items = Append(s.items, item)
             /\ Added(s, item).count = s.count + 1 /\ (s.ok => Added(s, item).ok)
  <2>1. Append(s.items, item) \in Seq(Items)
    BY <1>1, AppendProperties
  <2>2. Added(s, item) \in Scans
    BY <1>1, <2>1 DEF Scans, Added
  <2>3. Added(s, item).items = Append(s.items, item) /\ Added(s, item).count = s.count + 1
    BY DEF Scans, Added
  <2>4. s.ok => Added(s, item).ok
    BY DEF Scans, Added
  <2>5. QED
    BY <2>2, <2>3, <2>4
<1>5. ASSUME NEW p \in Seq(Name), NEW to \in Seq(Name)
      PROVE  /\ Marked(s, p, to) \in Scans /\ ~Marked(s, p, to).ok
             /\ Marked(s, p, to).items
                  = Append(s.items, Item("Create local dir", p, to, "Failed"))
             /\ Marked(s, p, to).count = s.count
  <2> DEFINE item == Item("Create local dir", p, to, "Failed")
  <2>1. item \in Items
    BY DEF Item, Items, Directions
  <2>2. Marked(s, p, to) = [s EXCEPT !.items = Append(@, item), !.ok = FALSE]
    BY DEF Marked
  <2> HIDE DEF item
  <2>3. Append(s.items, item) \in Seq(Items)
    BY <1>1, <2>1, AppendProperties
  <2>4. Marked(s, p, to) \in Scans
    BY <2>2, <2>3 DEF Scans
  <2>5. Marked(s, p, to).items = Append(s.items, item) /\ Marked(s, p, to).count = s.count
    BY <2>2 DEF Scans
  <2>6. ~Marked(s, p, to).ok
    BY <2>2 DEF Scans
  <2>7. QED
    BY <2>4, <2>5, <2>6 DEF item
<1>6. QED
  BY <1>2, <1>3, <1>4, <1>5

\* What a visit leaves, field by field.
LEMMA VisitOutcome ==
  ASSUME NEW s \in Scans, NEW t, NEW p \in Seq(Name), NEW to \in Seq(Name),
         NEW isDir, NEW isFile,
         NEW mk \in Directions, NEW get \in Directions, Visits(s, t, p, to, isDir, isFile, mk, get)
  PROVE  /\ t \in Scans
         /\ \/ t = s /\ (s.ok => ~isDir /\ ~isFile)
            \/ t.items = s.items /\ t.count = s.count /\ ~t.ok
            \/ /\ s.ok /\ ~Full(s) /\ (isDir \/ isFile)
               /\ t.items = Append(s.items, Item(IF isDir THEN mk ELSE get, p, to, "Pending"))
               /\ t.count = s.count + 1
            \/ /\ s.ok /\ ~Full(s) /\ isDir /\ ~t.ok
               /\ t.items = Append(Append(s.items, Item(mk, p, to, "Pending")),
                                   Item(mk, p, to, "Failed"))
               /\ t.count = s.count + 1
<1>1. CASE t = s /\ (s.ok => ~isDir /\ ~isFile)
  BY <1>1
<1>2. CASE t = Stopped(s)
  BY <1>2, ScanChanges
<1>3. CASE /\ s.ok /\ ~Full(s) /\ (isDir \/ isFile)
           /\ t = Added(s, Item(IF isDir THEN mk ELSE get, p, to, "Pending"))
  <2> DEFINE item == Item(IF isDir THEN mk ELSE get, p, to, "Pending")
  <2>1. item \in Items
    BY DEF Item, Items
  <2> HIDE DEF item
  <2>2. t \in Scans /\ t.items = Append(s.items, item) /\ t.count = s.count + 1
    BY <1>3, <2>1, ScanChanges DEF item
  <2>3. QED
    BY <1>3, <2>2 DEF item
<1>4. CASE /\ s.ok /\ ~Full(s) /\ isDir /\ mk = "Create local dir"
           /\ t = Marked(Added(s, Item(mk, p, to, "Pending")), p, to)
  <2> DEFINE item == Item(mk, p, to, "Pending")
             made == Added(s, item)
  <2>1. item \in Items
    BY DEF Item, Items
  <2> HIDE DEF item
  <2>2. made \in Scans /\ made.items = Append(s.items, item) /\ made.count = s.count + 1
    BY <2>1, ScanChanges
  <2>3. t = Marked(made, p, to)
    BY <1>4 DEF item
  <2> HIDE DEF made
  <2>4. /\ t \in Scans /\ ~t.ok /\ t.count = made.count
        /\ t.items = Append(made.items, Item("Create local dir", p, to, "Failed"))
    <3>1. made \in Scans
      BY <2>2
    <3>2. \A x, y \in Seq(Name) :
            /\ Marked(made, x, y) \in Scans /\ ~Marked(made, x, y).ok
            /\ Marked(made, x, y).items
                 = Append(made.items, Item("Create local dir", x, y, "Failed"))
            /\ Marked(made, x, y).count = made.count
      BY <3>1, ScanChanges
    <3>3. QED
      BY <2>3, <3>2
  <2>5. QED
    BY <1>4, <2>2, <2>4 DEF item
<1>5. QED
  BY <1>1, <1>2, <1>3, <1>4 DEF Visits
-----------------------------------------------------------------------------
(***************************************************************************)
(* What a scan has queued after k entries of its walk.                     *)
(***************************************************************************)

HasFolder(items, mk, p, to) ==
  \E m \in 1..Len(items) :
    items[m].direction = mk /\ items[m].source = p /\ items[m].target = to

HasFile(items, get, p) ==
  \E m \in 1..Len(items) : items[m].direction = get /\ items[m].source = p

\* Every item but those of the folder itself comes after its own folder.
FoldersFirst(items, folder, target, mk, get) ==
  \A m \in 1..Len(items) :
    /\ items[m].direction \in {mk, get}
    /\ items[m].source = folder => items[m].target = target
    /\ items[m].source # folder =>
         \E j \in 1..(m - 1) : /\ items[j].direction = mk
                               /\ items[j].source = Front(items[m].source)
                               /\ items[j].target = Front(items[m].target)

\* An item whose folder is there may be added.
LEMMA AddItem ==
  ASSUME NEW items \in Seq(Items), NEW folder, NEW target, NEW mk, NEW get,
         FoldersFirst(items, folder, target, mk, get),
         NEW item \in Items, item.direction \in {mk, get},
         item.source = folder => item.target = target,
         item.source # folder => HasFolder(items, mk, Front(item.source), Front(item.target))
  PROVE  LET all == Append(items, item)
         IN /\ all \in Seq(Items)
            /\ FoldersFirst(all, folder, target, mk, get)
            /\ \A p, to : HasFolder(items, mk, p, to) => HasFolder(all, mk, p, to)
            /\ \A p : HasFile(items, get, p) => HasFile(all, get, p)
            /\ item.direction = mk => HasFolder(all, mk, item.source, item.target)
            /\ item.direction = get => HasFile(all, get, item.source)
<1> DEFINE all == Append(items, item)
<1>1. /\ all \in Seq(Items) /\ Len(items) \in Nat /\ Len(all) = Len(items) + 1
      /\ \A m \in 1..Len(items) : all[m] = items[m]
      /\ all[Len(items) + 1] = item
  BY AppendProperties
<1> HIDE DEF all
<1>2. \A m \in 1..Len(all) : m \in 1..Len(items) \/ m = Len(all)
  BY <1>1
<1>3. 1..Len(items) \subseteq 1..Len(all) /\ Len(all) \in 1..Len(all) /\ all[Len(all)] = item
  BY <1>1
<1>4. \A p, to : HasFolder(items, mk, p, to) => HasFolder(all, mk, p, to)
  BY <1>1, <1>3 DEF HasFolder
<1>5. \A p : HasFile(items, get, p) => HasFile(all, get, p)
  BY <1>1, <1>3 DEF HasFile
<1>6. /\ item.direction = mk => HasFolder(all, mk, item.source, item.target)
      /\ item.direction = get => HasFile(all, get, item.source)
  BY <1>3 DEF HasFolder, HasFile
<1>7. FoldersFirst(all, folder, target, mk, get)
  <2> SUFFICES ASSUME NEW m \in 1..Len(all)
               PROVE  /\ all[m].direction \in {mk, get}
                      /\ all[m].source = folder => all[m].target = target
                      /\ all[m].source # folder =>
                           \E j \in 1..(m - 1) : /\ all[j].direction = mk
                                                 /\ all[j].source = Front(all[m].source)
                                                 /\ all[j].target = Front(all[m].target)
    BY Zenon DEF FoldersFirst
  <2>1. CASE m \in 1..Len(items)
    <3>1. all[m] = items[m] /\ \A j \in 1..(m - 1) : all[j] = items[j]
      BY <1>1, <2>1
    <3>2. /\ items[m].direction \in {mk, get}
          /\ items[m].source = folder => items[m].target = target
          /\ items[m].source # folder =>
               \E j \in 1..(m - 1) : /\ items[j].direction = mk
                                     /\ items[j].source = Front(items[m].source)
                                     /\ items[j].target = Front(items[m].target)
      BY <2>1 DEF FoldersFirst
    <3>3. QED
      BY <3>1, <3>2
  <2>2. CASE m = Len(all)
    <3>1. all[m] = item /\ \A j \in 1..Len(items) : j \in 1..(m - 1) /\ all[j] = items[j]
      BY <1>1, <1>3, <2>2
    <3>2. QED
      BY <3>1 DEF HasFolder
  <2>3. QED
    BY <1>2, <2>1, <2>2
<1>8. QED
  BY <1>1, <1>4, <1>5, <1>6, <1>7 DEF all

\* After k entries: as long as the scan goes on, all of them are queued, the
\* folders first, and never more than the limit.
Walked(scan, first, k, w, isDir, isFile, folder, target, mk, get, limit) ==
  /\ FoldersFirst(scan.items, folder, target, mk, get)
  /\ HasFolder(first, mk, folder, target) => HasFolder(scan.items, mk, folder, target)
  /\ scan.ok => \A j \in 1..k :
       /\ isDir[j] => HasFolder(scan.items, mk, w[j], CopyOf(w[j], folder, target))
       /\ isFile[j] /\ ~isDir[j] => HasFile(scan.items, get, w[j])
  /\ scan.count <= limit

\* A walk that meets every folder before what it holds.
Orderly(n, w, isDir, isFile, folder, target, mk, first) ==
  \A k \in 1..n :
    /\ w[k] \in Seq(Name) /\ CopyOf(w[k], folder, target) \in Seq(Name)
    /\ w[k] = folder => CopyOf(w[k], folder, target) = target
    /\ (isDir[k] \/ isFile[k]) /\ w[k] # folder =>
         /\ CopyOf(Front(w[k]), folder, target) = Front(CopyOf(w[k], folder, target))
         /\ \/ /\ HasFolder(first, mk, folder, target) /\ Front(w[k]) = folder
               /\ CopyOf(folder, folder, target) = target
            \/ \E j \in 1..(k - 1) : w[j] = Front(w[k]) /\ isDir[j]

\* One entry more.
LEMMA WalkOn ==
  ASSUME NEW n \in Nat, NEW w, NEW isDir \in [1..n -> BOOLEAN], NEW isFile \in [1..n -> BOOLEAN],
         NEW folder \in Seq(Name), NEW target \in Seq(Name),
         NEW mk \in Directions, NEW get \in Directions, NEW limit \in Nat, MaxScanned <= limit,
         NEW first, Orderly(n, w, isDir, isFile, folder, target, mk, first),
         NEW k \in 1..n, NEW s \in Scans, NEW t,
         Walked(s, first, k - 1, w, isDir, isFile, folder, target, mk, get, limit),
         Visits(s, t, w[k], CopyOf(w[k], folder, target), isDir[k], isFile[k], mk, get)
  PROVE  t \in Scans /\ Walked(t, first, k, w, isDir, isFile, folder, target, mk, get, limit)
<1> DEFINE to == CopyOf(w[k], folder, target)
           dir == isDir[k]
           reg == isFile[k]
           p == w[k]
<1>1. dir \in BOOLEAN /\ reg \in BOOLEAN /\ k - 1 \in Nat /\ p \in Seq(Name) /\ to \in Seq(Name)
  BY DEF Orderly
<1>2. Visits(s, t, p, to, dir, reg, mk, get)
  OBVIOUS
<1>3. \A j \in 1..k : j \in 1..(k - 1) \/ j = k
  OBVIOUS
<1>4. s.items \in Seq(Items) /\ s.count \in Nat
  BY DEF Scans
<1>5. MaxScanned \in Nat /\ (~Full(s) => s.count + 1 <= limit)
  BY <1>4, ScanAssumption DEF Full
<1>6. ASSUME s.ok, dir \/ reg, p # folder
      PROVE  HasFolder(s.items, mk, Front(p), Front(to))
  <2>1. /\ CopyOf(Front(p), folder, target) = Front(to)
        /\ \/ /\ HasFolder(first, mk, folder, target) /\ Front(p) = folder
              /\ CopyOf(folder, folder, target) = target
           \/ \E j \in 1..(k - 1) : w[j] = Front(p) /\ isDir[j]
    BY <1>6 DEF Orderly
  <2>2. CASE /\ HasFolder(first, mk, folder, target) /\ Front(p) = folder
             /\ CopyOf(folder, folder, target) = target
    BY <2>1, <2>2 DEF Walked
  <2>3. ASSUME NEW j \in 1..(k - 1), w[j] = Front(p), isDir[j]
        PROVE  HasFolder(s.items, mk, Front(p), Front(to))
    BY <1>6, <2>1, <2>3 DEF Walked
  <2>4. QED
    BY <2>1, <2>2, <2>3
<1>7. p = folder => to = target
  BY DEF Orderly
<1> HIDE DEF to, dir, reg, p
<1>8. t \in Scans
      /\ \/ t = s /\ (s.ok => ~dir /\ ~reg)
         \/ t.items = s.items /\ t.count = s.count /\ ~t.ok
         \/ /\ s.ok /\ ~Full(s) /\ (dir \/ reg)
            /\ t.items = Append(s.items, Item(IF dir THEN mk ELSE get, p, to, "Pending"))
            /\ t.count = s.count + 1
         \/ /\ s.ok /\ ~Full(s) /\ dir /\ ~t.ok
            /\ t.items = Append(Append(s.items, Item(mk, p, to, "Pending")),
                                Item(mk, p, to, "Failed"))
            /\ t.count = s.count + 1
  BY <1>1, <1>2, VisitOutcome
\* The item of an entry may be added.
<1>9. ASSUME s.ok, NEW items \in Seq(Items), NEW status \in {"Pending", "Failed"}, dir \/ reg,
             FoldersFirst(items, folder, target, mk, get),
             \A x, y : HasFolder(s.items, mk, x, y) => HasFolder(items, mk, x, y)
      PROVE  LET item == Item(IF dir THEN mk ELSE get, p, to, status)
                 all  == Append(items, item)
             IN /\ all \in Seq(Items)
                /\ FoldersFirst(all, folder, target, mk, get)
                /\ \A x, y : HasFolder(items, mk, x, y) => HasFolder(all, mk, x, y)
                /\ \A x : HasFile(items, get, x) => HasFile(all, get, x)
                /\ dir => HasFolder(all, mk, p, to)
                /\ ~dir => HasFile(all, get, p)
  <2> DEFINE item == Item(IF dir THEN mk ELSE get, p, to, status)
  <2>1. /\ item \in Items /\ item.direction = (IF dir THEN mk ELSE get)
        /\ item.source = p /\ item.target = to
    BY <1>1 DEF Item, Items
  <2> HIDE DEF item
  <2>2. /\ item.direction \in {mk, get}
        /\ item.source = folder => item.target = target
        /\ item.source # folder => HasFolder(items, mk, Front(item.source), Front(item.target))
    BY <2>1, <1>6, <1>7, <1>9
  <2>3. LET all == Append(items, item)
        IN /\ all \in Seq(Items)
           /\ FoldersFirst(all, folder, target, mk, get)
           /\ \A x, y : HasFolder(items, mk, x, y) => HasFolder(all, mk, x, y)
           /\ \A x : HasFile(items, get, x) => HasFile(all, get, x)
           /\ item.direction = mk => HasFolder(all, mk, item.source, item.target)
           /\ item.direction = get => HasFile(all, get, item.source)
    BY <1>9, <2>1, <2>2, AddItem, Zenon
  <2>4. QED
    BY <2>1, <2>3 DEF item
<1>10. CASE t = s /\ (s.ok => ~dir /\ ~reg)
  BY <1>3, <1>8, <1>10 DEF Walked, dir, reg
<1>11. CASE t.items = s.items /\ t.count = s.count /\ ~t.ok
  BY <1>8, <1>11 DEF Walked
<1>12. CASE /\ s.ok /\ ~Full(s) /\ (dir \/ reg)
            /\ t.items = Append(s.items, Item(IF dir THEN mk ELSE get, p, to, "Pending"))
            /\ t.count = s.count + 1
  <2>1. FoldersFirst(s.items, folder, target, mk, get)
    BY DEF Walked
  <2>2. /\ FoldersFirst(t.items, folder, target, mk, get)
        /\ \A x, y : HasFolder(s.items, mk, x, y) => HasFolder(t.items, mk, x, y)
        /\ \A x : HasFile(s.items, get, x) => HasFile(t.items, get, x)
        /\ dir => HasFolder(t.items, mk, p, to)
        /\ ~dir => HasFile(t.items, get, p)
    BY <1>4, <1>9, <1>12, <2>1
  <2>3. \A j \in 1..k :
          /\ isDir[j] => HasFolder(t.items, mk, w[j], CopyOf(w[j], folder, target))
          /\ isFile[j] /\ ~isDir[j] => HasFile(t.items, get, w[j])
    BY <1>3, <1>12, <2>2 DEF Walked, dir, reg, p, to
  <2>4. QED
    BY <1>5, <1>8, <1>12, <2>2, <2>3 DEF Walked
<1>13. CASE /\ s.ok /\ ~Full(s) /\ dir /\ ~t.ok
            /\ t.items = Append(Append(s.items, Item(mk, p, to, "Pending")),
                                Item(mk, p, to, "Failed"))
            /\ t.count = s.count + 1
  <2> DEFINE made == Append(s.items, Item(mk, p, to, "Pending"))
  <2>1. FoldersFirst(s.items, folder, target, mk, get)
    BY DEF Walked
  <2>2. /\ made \in Seq(Items) /\ FoldersFirst(made, folder, target, mk, get)
        /\ \A x, y : HasFolder(s.items, mk, x, y) => HasFolder(made, mk, x, y)
    BY <1>4, <1>9, <1>13, <2>1
  <2> HIDE DEF made
  <2>3. /\ FoldersFirst(t.items, folder, target, mk, get)
        /\ \A x, y : HasFolder(made, mk, x, y) => HasFolder(t.items, mk, x, y)
    <3>1. t.items = Append(made, Item(IF dir THEN mk ELSE get, p, to, "Failed"))
      BY <1>13 DEF made
    <3>2. QED
      BY <1>9, <1>13, <2>2, <3>1
  <2>4. QED
    BY <1>5, <1>8, <1>13, <2>2, <2>3 DEF Walked
<1>14. QED
  BY <1>8, <1>10, <1>11, <1>12, <1>13

\* All the entries.
LEMMA WalkDone ==
  ASSUME NEW n \in Nat, NEW w, NEW isDir \in [1..n -> BOOLEAN], NEW isFile \in [1..n -> BOOLEAN],
         NEW folder \in Seq(Name), NEW target \in Seq(Name),
         NEW mk \in Directions, NEW get \in Directions, NEW limit \in Nat, MaxScanned <= limit,
         NEW f \in [0..n -> Scans],
         Orderly(n, w, isDir, isFile, folder, target, mk, f[0].items),
         Walked(f[0], f[0].items, 0, w, isDir, isFile, folder, target, mk, get, limit),
         \A k \in 1..n : Visits(f[k - 1], f[k], w[k], CopyOf(w[k], folder, target),
                                isDir[k], isFile[k], mk, get)
  PROVE  Walked(f[n], f[0].items, n, w, isDir, isFile, folder, target, mk, get, limit)
<1> DEFINE W(k) == Walked(f[k], f[0].items, k, w, isDir, isFile, folder, target, mk, get, limit)
           S == {k \in 0..n : W(k)}
<1>1. 0 \in S
  OBVIOUS
<1>2. ASSUME NEW k \in 1..n, k - 1 \in S PROVE k \in S
  <2>1. f[k - 1] \in Scans /\ k \in 0..n
    OBVIOUS
  <2>2. Walked(f[k - 1], f[0].items, k - 1, w, isDir, isFile, folder, target, mk, get, limit)
    BY <1>2
  <2>3. W(k)
    BY <2>1, <2>2, WalkOn
  <2>4. QED
    BY <2>1, <2>3
<1> HIDE DEF S
<1>3. \A k \in 0..n : k \in S
  BY <1>1, <1>2, Climb
<1>4. QED
  BY <1>3 DEF S
-----------------------------------------------------------------------------
(***************************************************************************)
(* Paths, and the walks of a tree.                                         *)
(***************************************************************************)

\* The front of a path, and its copy.
LEMMA Copies ==
  ASSUME NEW folder \in Seq(Name), NEW target \in Seq(Name), NEW p \in Seq(Name),
         Len(folder) <= Len(p)
  PROVE  /\ CopyOf(p, folder, target) \in Seq(Name)
         /\ CopyOf(folder, folder, target) = target
         /\ Len(p) > Len(folder) =>
              /\ Front(p) \in Seq(Name) /\ Len(Front(p)) = Len(p) - 1
              /\ CopyOf(Front(p), folder, target) = Front(CopyOf(p, folder, target))
<1> DEFINE n == Len(p)
           l == Len(folder)
           rest == SubSeq(p, l + 1, n)
<1>1. n \in Nat /\ l \in Nat /\ Len(target) \in Nat /\ \A i \in 1..n : p[i] \in Name
  BY ElementOfSeq
<1>2. \A i \in (l + 1)..n : p[i] \in Name
  BY <1>1
<1>3. rest \in Seq(Name) /\ Len(rest) = n - l /\ \A i \in 1..(n - l) : rest[i] = p[l + i]
  <2>1. /\ rest \in Seq(Name)
        /\ Len(rest) = IF l + 1 <= n THEN n - (l + 1) + 1 ELSE 0
        /\ \A i \in 1..(n - (l + 1) + 1) : rest[i] = p[(l + 1) + i - 1]
    BY <1>1, <1>2, SubSeqProperties
  <2>2. QED
    BY <1>1, <2>1
<1>4. CopyOf(p, folder, target) = target \o rest
  BY DEF CopyOf
<1>5. CopyOf(folder, folder, target) = target
  <2>1. SubSeq(folder, l + 1, l) = <<>>
    BY <1>1, SubSeqEmpty
  <2>2. target \o <<>> = target
    BY ConcatEmptySeq
  <2>3. QED
    BY <2>1, <2>2 DEF CopyOf
<1>6. ASSUME n > l
      PROVE  /\ Front(p) \in Seq(Name) /\ Len(Front(p)) = n - 1
             /\ CopyOf(Front(p), folder, target) = Front(target \o rest)
  <2>1. /\ Front(p) \in Seq(Name) /\ Len(Front(p)) = n - 1
        /\ \A i \in 1..(n - 1) : Front(p)[i] = p[i]
    <3>1. \A i \in 1..(n - 1) : p[i] \in Name
      BY <1>1
    <3>2. /\ SubSeq(p, 1, n - 1) \in Seq(Name)
          /\ Len(SubSeq(p, 1, n - 1)) = IF 1 <= n - 1 THEN n - 1 - 1 + 1 ELSE 0
          /\ \A i \in 1..(n - 1 - 1 + 1) : SubSeq(p, 1, n - 1)[i] = p[1 + i - 1]
      BY <1>1, <3>1, SubSeqProperties
    <3>3. Front(p) = SubSeq(p, 1, n - 1)
      BY DEF Front
    <3> DEFINE front == SubSeq(p, 1, n - 1)
    <3>4. n - 1 \in Nat /\ n - 1 - 1 + 1 = n - 1 /\ \A i \in 1..(n - 1) : 1 + i - 1 = i
      BY <1>1, <1>6
    <3> HIDE DEF n, front
    <3>5. front \in Seq(Name) /\ Len(front) = n - 1 /\ \A i \in 1..(n - 1) : front[i] = p[i]
      BY <3>2, <3>4 DEF front
    <3>6. QED
      BY <3>3, <3>5 DEF front
  <2> DEFINE q == Front(p)
             short == SubSeq(q, l + 1, n - 1)
  <2>2. CopyOf(q, folder, target) = target \o short
    BY <2>1 DEF CopyOf
  <2> HIDE DEF q
  <2>3. /\ short \in Seq(Name) /\ Len(short) = n - 1 - l
        /\ \A i \in 1..(n - 1 - l) : short[i] = p[l + i]
    <3>1. \A i \in (l + 1)..(n - 1) : q[i] \in Name /\ q[i] = p[i]
      BY <1>1, <2>1 DEF q
    <3>2. /\ short \in Seq(Name)
          /\ Len(short) = IF l + 1 <= n - 1 THEN n - 1 - (l + 1) + 1 ELSE 0
          /\ \A i \in 1..(n - 1 - (l + 1) + 1) : short[i] = q[(l + 1) + i - 1]
      BY <1>1, <3>1, SubSeqProperties
    <3>3. QED
      BY <1>1, <1>6, <3>1, <3>2
  <2> HIDE DEF short, rest, n, l
  <2>4. /\ target \o short \in Seq(Name) /\ Len(target \o short) = Len(target) + (n - 1 - l)
        /\ \A i \in 1..(Len(target) + (n - 1 - l)) :
             (target \o short)[i] = IF i <= Len(target) THEN target[i] ELSE short[i - Len(target)]
    <3>1. \A a, b \in Seq(Name) :
            /\ a \o b \in Seq(Name) /\ Len(a \o b) = Len(a) + Len(b)
            /\ \A i \in 1..(Len(a) + Len(b)) :
                 (a \o b)[i] = IF i <= Len(a) THEN a[i] ELSE b[i - Len(a)]
      BY ConcatProperties
    <3>2. /\ target \o short \in Seq(Name) /\ Len(target \o short) = Len(target) + Len(short)
          /\ \A i \in 1..(Len(target) + Len(short)) :
               (target \o short)[i] = IF i <= Len(target) THEN target[i] ELSE short[i - Len(target)]
      BY <2>3, <3>1, Zenon
    <3>3. Len(short) = (n - 1 - l)
      BY <2>3
    <3>4. QED
      BY <3>2, <3>3
  <2>5. /\ target \o rest \in Seq(Name) /\ Len(target \o rest) = Len(target) + (n - l)
        /\ \A i \in 1..(Len(target) + (n - l)) :
             (target \o rest)[i] = IF i <= Len(target) THEN target[i] ELSE rest[i - Len(target)]
    <3>1. \A a, b \in Seq(Name) :
            /\ a \o b \in Seq(Name) /\ Len(a \o b) = Len(a) + Len(b)
            /\ \A i \in 1..(Len(a) + Len(b)) :
                 (a \o b)[i] = IF i <= Len(a) THEN a[i] ELSE b[i - Len(a)]
      BY ConcatProperties
    <3>2. /\ target \o rest \in Seq(Name) /\ Len(target \o rest) = Len(target) + Len(rest)
          /\ \A i \in 1..(Len(target) + Len(rest)) :
               (target \o rest)[i] = IF i <= Len(target) THEN target[i] ELSE rest[i - Len(target)]
      BY <1>3, <3>1, Zenon
    <3>3. Len(rest) = (n - l)
      BY <1>3
    <3>4. QED
      BY <3>2, <3>3
  <2> DEFINE all == target \o rest
             cut == target \o short
             m   == Len(target) + (n - l)
  <2>6. Front(all) = SubSeq(all, 1, m - 1) /\ m - 1 \in Nat /\ m \in Nat /\ m > 0
    BY <1>1, <1>6, <2>5 DEF Front
  <2>7. \A i \in 1..(m - 1) : all[i] \in Name /\ all[i] = cut[i]
    <3>1. \A i \in 1..m : all[i] \in Name
      BY <2>5, ElementOfSeq
    <3> TAKE i \in 1..(m - 1)
    <3>2. ASSUME i <= Len(target) PROVE all[i] = cut[i]
      BY <1>1, <1>6, <2>4, <2>5, <3>2
    <3>3. ASSUME ~(i <= Len(target)) PROVE all[i] = cut[i]
      <4>1. i - Len(target) \in 1..(n - 1 - l) /\ i - Len(target) \in 1..(n - l)
        BY <1>1, <1>6, <3>3
      <4>2. rest[i - Len(target)] = short[i - Len(target)]
        BY <1>3, <2>3, <4>1
      <4>3. i \in 1..(Len(target) + (n - 1 - l)) /\ i \in 1..(Len(target) + (n - l))
        BY <1>1, <1>6
      <4>4. QED
        BY <2>4, <2>5, <3>3, <4>2, <4>3
    <3>4. all[i] \in Name
      <4>1. i \in 1..m
        BY <2>6
      <4> HIDE DEF all, m
      <4>2. QED
        BY <3>1, <4>1
    <3>5. QED
      BY <3>2, <3>3, <3>4
  <2> HIDE DEF all, cut, m
  <2>8. /\ SubSeq(all, 1, m - 1) \in Seq(Name)
        /\ Len(SubSeq(all, 1, m - 1)) = m - 1
        /\ \A i \in 1..(m - 1) : SubSeq(all, 1, m - 1)[i] = all[i]
    <3>1. /\ SubSeq(all, 1, m - 1) \in Seq(Name)
          /\ Len(SubSeq(all, 1, m - 1)) = IF 1 <= m - 1 THEN m - 1 - 1 + 1 ELSE 0
          /\ \A i \in 1..(m - 1 - 1 + 1) : SubSeq(all, 1, m - 1)[i] = all[1 + i - 1]
      BY <2>6, <2>7, SubSeqProperties
    <3>2. QED
      BY <2>6, <3>1
  <2>9. cut \in Seq(Name) /\ Len(cut) = m - 1
    BY <1>1, <1>6, <2>4 DEF cut, m
  <2>10. cut = SubSeq(all, 1, m - 1)
    BY <2>7, <2>8, <2>9, SeqEqual
  <2>11. QED
    BY <2>1, <2>2, <2>6, <2>10 DEF all, cut, q
<1> HIDE DEF rest
<1>7. target \o rest \in Seq(Name)
  BY <1>3, ConcatProperties
<1>8. QED
  BY <1>4, <1>5, <1>6, <1>7

\* A path below a folder: its parent is a folder of the tree, below or the same.
LEMMA BelowPath ==
  ASSUME NEW tree, IsTree(tree), NEW folder \in Seq(Name), NEW p \in Below(tree, folder)
  PROVE  /\ p \in Seq(Name) /\ p \in DOMAIN tree /\ p # folder /\ Len(p) > Len(folder)
         /\ Front(p) \in DOMAIN tree /\ tree[Front(p)] = "dir"
         /\ Front(p) = folder \/ Front(p) \in Below(tree, folder)
         /\ IsStrictPrefix(Front(p), p)
<1> DEFINE n == Len(p)
           l == Len(folder)
<1>1. p \in Seq(Name) /\ p \in DOMAIN tree /\ n \in Nat /\ l \in Nat
  BY DEF Below, IsTree
<1>2. p # folder /\ l <= n /\ SubSeq(folder, 1, l) = SubSeq(p, 1, l)
  BY DEF Below, IsStrictPrefix, IsPrefix
<1>3. n > l
  <2>1. SubSeq(folder, 1, l) = folder /\ SubSeq(p, 1, n) = p
    BY <1>1, SubSeqFull
  <2>2. n # l
    BY <1>2, <2>1
  <2>3. QED
    BY <1>1, <1>2, <2>2
<1>4. p # <<>>
  BY <1>1, <1>3
<1>5. Front(p) \in DOMAIN tree /\ tree[Front(p)] = "dir"
  BY <1>1, <1>4 DEF IsTree, Parent
<1>6. Front(p) \in Seq(Name) /\ Len(Front(p)) = n - 1
  BY <1>1, <1>2, <1>3, Copies
<1>7. Front(p) = SubSeq(p, 1, n - 1)
  BY DEF Front
<1>8. IsStrictPrefix(Front(p), p)
  <2>1. SubSeq(Front(p), 1, n - 1) = Front(p)
    BY <1>6, SubSeqFull
  <2>2. Front(p) # p
    BY <1>1, <1>6
  <2>3. QED
    BY <1>1, <1>6, <1>7, <2>1, <2>2 DEF IsStrictPrefix, IsPrefix
<1>9. SubSeq(Front(p), 1, l) = SubSeq(p, 1, l)
  <2>1. CASE l = 0
    <3>1. \A q : SubSeq(q, 1, 0) = <<>>
      BY SubSeqEmpty
    <3>2. QED
      BY <2>1, <3>1
  <2>2. CASE l > 0
    <3>1. 1 \in 1..n /\ n - 1 \in 1..n /\ 1 \in 1..(n - 1 - 1 + 1) /\ l \in 1..(n - 1 - 1 + 1)
      BY <1>1, <1>3, <2>2
    <3> HIDE DEF n, l
    <3>2. 1 + 1 - 1 = 1 /\ 1 + l - 1 = l
      BY <1>1
    <3>3. SubSeq(SubSeq(p, 1, n - 1), 1, l) = SubSeq(p, 1 + 1 - 1, 1 + l - 1)
      BY <1>1, <3>1, SubSeqOfSubSeq DEF n
    <3>4. QED
      BY <1>7, <3>2, <3>3
  <2>3. QED
    BY <1>1, <2>1, <2>2
<1>10. IsPrefix(folder, Front(p))
  BY <1>1, <1>2, <1>3, <1>6, <1>9 DEF IsPrefix
<1>11. Front(p) = folder \/ Front(p) \in Below(tree, folder)
  BY <1>5, <1>10 DEF Below, IsStrictPrefix
<1>12. QED
  BY <1>1, <1>2, <1>3, <1>5, <1>8, <1>11

\* A walk meets everything below the folder, once, a folder before what it holds.
LEMMA WalkOf ==
  ASSUME NEW tree, IsTree(tree), NEW folder \in Seq(Name), NEW w \in Walks(tree, folder)
  PROVE  /\ w \in Seq(Below(tree, folder))
         /\ \A p \in Below(tree, folder) : \E j \in 1..Len(w) : w[j] = p
         /\ \A j, k \in 1..Len(w) : IsStrictPrefix(w[j], w[k]) => j < k
<1> DEFINE B == Below(tree, folder)
           c == Cardinality(B)
<1>1. IsFiniteSet(B)
  <2>1. B \subseteq DOMAIN tree /\ IsFiniteSet(DOMAIN tree)
    BY DEF Below, IsTree
  <2> HIDE DEF B
  <2>2. QED
    BY <2>1, FS_Subset
<1>2. /\ w \in [1..c -> B] /\ \A i, j \in 1..c : i # j => w[i] # w[j]
      /\ \A j, k \in DOMAIN w : IsStrictPrefix(w[j], w[k]) => j < k
  BY DEF Walks, SetToSeqs
<1> HIDE DEF B
<1>3. c \in Nat
  BY <1>1, FS_CardinalityType
<1> HIDE DEF c
<1>4. w \in Seq(B) /\ Len(w) = c /\ DOMAIN w = 1..c
  BY <1>2, <1>3
<1>5. w \in Injection(1..c, B)
  BY <1>2 DEF Injection, IsInjective
<1>6. Cardinality(1..c) = c
  BY <1>3, FS_Interval
<1>7. w \in Surjection(1..c, B)
  BY <1>1, <1>5, <1>6, FS_Injection DEF c
<1>8. \A p \in B : \E j \in 1..c : w[j] = p
  BY <1>7 DEF Surjection
<1>9. QED
  BY <1>2, <1>4, <1>8 DEF B
-----------------------------------------------------------------------------
(***************************************************************************)
(* The scans as functions of how many entries they have met.               *)
(***************************************************************************)

\* What an entry leaves of a scan is a scan.
LEMMA EntryScans ==
  ASSUME NEW s \in Scans, NEW p \in Seq(Name), NEW folder, NEW target, NEW unlisted,
         CopyOf(p, folder, target) \in Seq(Name)
  PROVE  /\ RemoteEntry(s, p, folder, target, unlisted) \in Scans
         /\ LocalEntry(s, p, folder, target) \in Scans
<1> DEFINE to == CopyOf(p, folder, target)
<1>1. /\ "Create local dir" \in Directions /\ "Download" \in Directions
      /\ "Create remote dir" \in Directions /\ "Upload" \in Directions
  BY DEF Directions
<1>2. RemoteEntry(s, p, folder, target, unlisted) \in Scans
  <2> DEFINE t == RemoteEntry(s, p, folder, target, unlisted)
             isDir == IsFolder(p, folder)
             isFile == ~IsFolder(p, folder) /\ Server[p] = "file"
  <2>1. Visits(s, t, p, to, isDir, isFile, "Create local dir", "Download")
    BY RemoteVisits
  <2> HIDE DEF t, isDir, isFile, to
  <2>2. to \in Seq(Name)
    BY DEF to
  <2>3. t \in Scans
    BY <1>1, <2>1, <2>2, VisitOutcome
  <2>4. QED
    BY <2>3 DEF t
<1>3. LocalEntry(s, p, folder, target) \in Scans
  <2> DEFINE t == LocalEntry(s, p, folder, target)
             isDir == Disk[p] = "dir"
             isFile == Disk[p] = "file"
  <2>1. Visits(s, t, p, to, isDir, isFile, "Create remote dir", "Upload")
    BY LocalVisits
  <2> HIDE DEF t, isDir, isFile, to
  <2>2. to \in Seq(Name)
    BY DEF to
  <2>3. t \in Scans
    BY <1>1, <2>1, <2>2, VisitOutcome
  <2>4. QED
    BY <2>3 DEF t
<1>4. QED
  BY <1>2, <1>3

\* A remote scan after each entry of its walk.
RemoteSteps(f, n, scan, folder, target, unlisted, walk) ==
  /\ f \in [0..n -> Scans]
  /\ f[0] = scan /\ f[n] = ScanRemote(scan, folder, target, unlisted, walk)
  /\ \A k \in 1..n : f[k] = RemoteEntry(f[k - 1], walk[k], folder, target, unlisted)

\* The remote scan goes that way.
LEMMA RemotePass ==
  ASSUME NEW scan \in Scans, NEW folder, NEW target, NEW unlisted, NEW n \in Nat, NEW walk,
         Len(walk) = n,
         \A k \in 1..n : walk[k] \in Seq(Name) /\ CopyOf(walk[k], folder, target) \in Seq(Name)
  PROVE  \E f : RemoteSteps(f, n, scan, folder, target, unlisted, walk)
<1> DEFINE E(s, k) == RemoteEntry(s, walk[k], folder, target, unlisted)
           after[k \in 0..n] == IF k = 0 THEN scan ELSE E(after[k - 1], k)
<1>1. ScanRemote(scan, folder, target, unlisted, walk) = after[n]
  BY DEF ScanRemote
<1>2. after = CHOOSE g : g = [k \in 0..n |-> IF k = 0 THEN scan ELSE E(g[k - 1], k)]
  OBVIOUS
<1> HIDE DEF after
<1>3. \A s \in Scans, k \in 1..n : E(s, k) \in Scans
  BY EntryScans
<1> HIDE DEF E
<1>4. PICK f \in [0..n -> Scans] : f[0] = scan /\ \A k \in 1..n : f[k] = E(f[k - 1], k)
  <2> DEFINE step == [k \in 1..n |-> [s \in Scans |-> E(s, k)]]
  <2>1. step \in [1..n -> [Scans -> Scans]]
    BY <1>3
  <2>2. \A k \in 1..n, s \in Scans : step[k][s] = E(s, k)
    OBVIOUS
  <2> HIDE DEF step
  <2>3. PICK f : Follows(f, n, Scans, scan, step)
    BY <2>1, Iteration
  <2>4. /\ f \in [0..n -> Scans] /\ f[0] = scan
        /\ \A k \in 1..n : f[k] = step[k][f[k - 1]]
    BY <2>3 DEF Follows
  <2>5. \A k \in 1..n : f[k - 1] \in Scans
    <3>1. \A k \in 1..n : k - 1 \in 0..n
      OBVIOUS
    <3>2. QED
      BY <2>4, <3>1
  <2>6. \A k \in 1..n : f[k] = E(f[k - 1], k)
    BY <2>2, <2>4, <2>5, Zenon
  <2>7. QED
    BY <2>4, <2>6
<1>5. f = [k \in 0..n |-> IF k = 0 THEN scan ELSE E(f[k - 1], k)]
  <2>1. \A k \in 0..n : k = 0 \/ k \in 1..n
    OBVIOUS
  <2>2. \A k \in 0..n : f[k] = IF k = 0 THEN scan ELSE E(f[k - 1], k)
    BY <1>4, <2>1
  <2>3. QED
    BY <2>2
<1>6. after = [k \in 0..n |-> IF k = 0 THEN scan ELSE E(after[k - 1], k)]
  BY <1>2, <1>5
<1>7. after[0] = scan /\ \A k \in 1..n : after[k] = E(after[k - 1], k)
  <2>1. 0 \in 0..n /\ \A k \in 1..n : k \in 0..n /\ k # 0
    OBVIOUS
  <2>2. \A k \in 0..n : after[k] = IF k = 0 THEN scan ELSE E(after[k - 1], k)
    BY <1>6
  <2>3. QED
    BY <2>1, <2>2
<1> DEFINE S == {k \in 0..n : after[k] \in Scans}
<1>8. 0 \in S /\ \A k \in 1..n : k - 1 \in S => k \in S
  BY <1>3, <1>7
<1> HIDE DEF S
<1>9. \A k \in 0..n : k \in S
  BY <1>8, Climb
<1>10. DOMAIN after = 0..n /\ after = [k \in 0..n |-> after[k]]
  BY <1>6
<1>11. after \in [0..n -> Scans]
  BY <1>9, <1>10 DEF S
<1>12. QED
  BY <1>1, <1>7, <1>11 DEF E, RemoteSteps

\* A local scan begins with the folder itself.
Opened(scan, folder, target) ==
  Added(scan, Item("Create remote dir", folder, target, "Pending"))

\* A local scan after each entry of its walk.
LocalSteps(f, n, scan, folder, target, walk) ==
  /\ f \in [0..n -> Scans]
  /\ f[0] = Opened(scan, folder, target) /\ f[n] = ScanLocal(scan, folder, target, walk)
  /\ \A k \in 1..n : f[k] = LocalEntry(f[k - 1], walk[k], folder, target)

\* The local scan goes that way.
LEMMA LocalPass ==
  ASSUME NEW scan, NEW folder, NEW target, NEW n \in Nat, NEW walk, Len(walk) = n,
         Opened(scan, folder, target) \in Scans,
         \A k \in 1..n : walk[k] \in Seq(Name) /\ CopyOf(walk[k], folder, target) \in Seq(Name)
  PROVE  \E f : LocalSteps(f, n, scan, folder, target, walk)
<1> DEFINE start == Opened(scan, folder, target)
           E(s, k) == LocalEntry(s, walk[k], folder, target)
           after[k \in 0..n] == IF k = 0 THEN start ELSE E(after[k - 1], k)
<1>1. ScanLocal(scan, folder, target, walk) = after[n]
  BY DEF ScanLocal, Opened
<1>2. after = CHOOSE g : g = [k \in 0..n |-> IF k = 0 THEN start ELSE E(g[k - 1], k)]
  OBVIOUS
<1> HIDE DEF after, start
<1>3. start \in Scans
  BY DEF start
<1>4. \A s \in Scans, k \in 1..n : E(s, k) \in Scans
  BY EntryScans
<1> HIDE DEF E
<1>5. PICK f \in [0..n -> Scans] : f[0] = start /\ \A k \in 1..n : f[k] = E(f[k - 1], k)
  <2> DEFINE step == [k \in 1..n |-> [s \in Scans |-> E(s, k)]]
  <2>1. step \in [1..n -> [Scans -> Scans]]
    BY <1>4
  <2>2. \A k \in 1..n, s \in Scans : step[k][s] = E(s, k)
    OBVIOUS
  <2> HIDE DEF step
  <2>3. PICK f : Follows(f, n, Scans, start, step)
    BY <1>3, <2>1, Iteration
  <2>4. /\ f \in [0..n -> Scans] /\ f[0] = start
        /\ \A k \in 1..n : f[k] = step[k][f[k - 1]]
    BY <2>3 DEF Follows
  <2>5. \A k \in 1..n : f[k - 1] \in Scans
    <3>1. \A k \in 1..n : k - 1 \in 0..n
      OBVIOUS
    <3>2. QED
      BY <2>4, <3>1
  <2>6. \A k \in 1..n : f[k] = E(f[k - 1], k)
    BY <2>2, <2>4, <2>5, Zenon
  <2>7. QED
    BY <2>4, <2>6
<1>6. f = [k \in 0..n |-> IF k = 0 THEN start ELSE E(f[k - 1], k)]
  <2>1. \A k \in 0..n : k = 0 \/ k \in 1..n
    OBVIOUS
  <2>2. \A k \in 0..n : f[k] = IF k = 0 THEN start ELSE E(f[k - 1], k)
    BY <1>5, <2>1
  <2>3. QED
    BY <2>2
<1>7. after = [k \in 0..n |-> IF k = 0 THEN start ELSE E(after[k - 1], k)]
  BY <1>2, <1>6
<1>8. after[0] = start /\ \A k \in 1..n : after[k] = E(after[k - 1], k)
  <2>1. 0 \in 0..n /\ \A k \in 1..n : k \in 0..n /\ k # 0
    OBVIOUS
  <2>2. \A k \in 0..n : after[k] = IF k = 0 THEN start ELSE E(after[k - 1], k)
    BY <1>7
  <2>3. QED
    BY <2>1, <2>2
<1> DEFINE S == {k \in 0..n : after[k] \in Scans}
<1>9. 0 \in S /\ \A k \in 1..n : k - 1 \in S => k \in S
  BY <1>3, <1>4, <1>8
<1> HIDE DEF S
<1>10. \A k \in 0..n : k \in S
  BY <1>9, Climb
<1>11. DOMAIN after = 0..n /\ after = [k \in 0..n |-> after[k]]
  BY <1>7
<1>12. after \in [0..n -> Scans]
  BY <1>10, <1>11 DEF S
<1>13. QED
  BY <1>1, <1>8, <1>12 DEF E, start, LocalSteps

\* What a scan of the server has done: folders first, never more than the limit,
\* and every file, if it was not stopped.
LEMMA RemoteScan ==
  ASSUME NEW scan \in Scans, scan.items = <<>>, scan.count <= MaxScanned,
         NEW folder \in Seq(Name), NEW target \in Seq(Name), NEW unlisted,
         NEW walk \in RemoteWalks(folder), NEW result,
         result = ScanRemote(scan, folder, target, unlisted, walk)
  PROVE  /\ result \in Scans
         /\ FoldersFirst(result.items, folder, target, "Create local dir", "Download")
         /\ result.count <= MaxScanned
         /\ result.ok => \A p \in Below(Server, folder) :
                           Server[p] = "file" => HasFile(result.items, "Download", p)
<1> DEFINE mk  == "Create local dir"
           get == "Download"
<1>1. IsTree(Server) /\ MaxScanned \in Nat /\ mk \in Directions /\ get \in Directions
  BY ScanAssumption DEF Directions
<1> HIDE DEF mk, get
<1>2. PICK v \in Walks(Server, folder) : walk = <<folder>> \o v
  BY DEF RemoteWalks
<1>3. /\ v \in Seq(Below(Server, folder))
      /\ \A p \in Below(Server, folder) : \E j \in 1..Len(v) : v[j] = p
      /\ \A j, k \in 1..Len(v) : IsStrictPrefix(v[j], v[k]) => j < k
  BY <1>1, WalkOf
<1>4. \A p \in Below(Server, folder) :
        /\ p \in Seq(Name) /\ p # folder /\ Len(p) > Len(folder)
        /\ Server[Front(p)] = "dir"
        /\ Front(p) = folder \/ Front(p) \in Below(Server, folder)
        /\ IsStrictPrefix(Front(p), p)
  BY <1>1, BelowPath
<1>5. \A p \in Below(Server, folder) :
        /\ CopyOf(p, folder, target) \in Seq(Name)
        /\ CopyOf(Front(p), folder, target) = Front(CopyOf(p, folder, target))
  <2> SUFFICES ASSUME NEW p \in Below(Server, folder)
               PROVE  /\ CopyOf(p, folder, target) \in Seq(Name)
                      /\ CopyOf(Front(p), folder, target) = Front(CopyOf(p, folder, target))
    OBVIOUS
  <2>1. p \in Seq(Name) /\ Len(p) > Len(folder) /\ Len(p) \in Nat /\ Len(folder) \in Nat
    BY <1>4
  <2>2. QED
    BY <2>1, Copies
<1>6. CopyOf(folder, folder, target) = target
  <2>1. Len(folder) <= Len(folder)
    OBVIOUS
  <2>2. QED
    BY <2>1, Copies
<1> DEFINE n == Len(v) + 1
<1>7. /\ n \in Nat /\ Len(walk) = n /\ walk[1] = folder
      /\ \A k \in 2..n : k - 1 \in 1..Len(v) /\ walk[k] = v[k - 1]
      /\ \A j \in 1..Len(v) : j + 1 \in 2..n /\ walk[j + 1] = v[j]
      /\ \A k \in 1..n : k = 1 \/ k \in 2..n
  <2>1. Len(v) \in Nat /\ v \in Seq(Below(Server, folder) \cup {folder})
    BY <1>3
  <2>2. QED
    BY <1>2, <2>1
<1> HIDE DEF n
<1>8. \A k \in 1..n : walk[k] \in Seq(Name) /\ CopyOf(walk[k], folder, target) \in Seq(Name)
  <2> TAKE k \in 1..n
  <2>1. CASE k = 1
    BY <1>6, <1>7, <2>1
  <2>2. CASE k \in 2..n
    <3>1. v[k - 1] \in Below(Server, folder)
      BY <1>3, <1>7, <2>2, ElementOfSeq
    <3>2. QED
      BY <1>4, <1>5, <1>7, <2>2, <3>1
  <2>3. QED
    BY <1>7, <2>1, <2>2
<1>9. PICK f : RemoteSteps(f, n, scan, folder, target, unlisted, walk)
  <2>1. n \in Nat /\ Len(walk) = n
    BY <1>7
  <2>2. QED
    BY <1>8, <2>1, RemotePass
<1>10. /\ f \in [0..n -> Scans] /\ f[0] = scan /\ f[n] = result
       /\ \A k \in 1..n : f[k] = RemoteEntry(f[k - 1], walk[k], folder, target, unlisted)
  BY <1>9 DEF RemoteSteps
<1> DEFINE isDir  == [k \in 1..n |-> IsFolder(walk[k], folder)]
           isFile == [k \in 1..n |-> ~IsFolder(walk[k], folder) /\ Server[walk[k]] = "file"]
<1>11. isDir \in [1..n -> BOOLEAN] /\ isFile \in [1..n -> BOOLEAN]
  BY DEF IsFolder
<1>12. \A k \in 1..n : /\ isDir[k] = IsFolder(walk[k], folder)
                       /\ isFile[k] = (~IsFolder(walk[k], folder) /\ Server[walk[k]] = "file")
  OBVIOUS
<1> HIDE DEF isDir, isFile
<1>13. Orderly(n, walk, isDir, isFile, folder, target, mk, scan.items)
  <2> SUFFICES ASSUME NEW k \in 1..n, walk[k] # folder
               PROVE  /\ CopyOf(Front(walk[k]), folder, target)
                           = Front(CopyOf(walk[k], folder, target))
                      /\ \E j \in 1..(k - 1) : walk[j] = Front(walk[k]) /\ isDir[j]
    BY <1>6, <1>8 DEF Orderly
  <2>1. k \in 2..n
    BY <1>7
  <2> DEFINE p == walk[k]
  <2>2. p \in Below(Server, folder) /\ p = v[k - 1] /\ k - 1 \in 1..Len(v)
    BY <1>3, <1>7, <2>1, ElementOfSeq
  <2> HIDE DEF p
  <2>3. CopyOf(Front(p), folder, target) = Front(CopyOf(p, folder, target))
    BY <1>5, <2>2
  <2>4. CASE Front(p) = folder
    <3>1. 1 \in 1..(k - 1) /\ 1 \in 1..n
      BY <1>7, <2>1
    <3>2. isDir[1]
      BY <1>7, <1>12, <3>1 DEF IsFolder
    <3>3. QED
      BY <1>7, <2>3, <2>4, <3>1, <3>2 DEF p
  <2>5. CASE Front(p) \in Below(Server, folder)
    <3>1. PICK j \in 1..Len(v) : v[j] = Front(p)
      BY <1>3, <2>5
    <3>2. IsStrictPrefix(v[j], v[k - 1])
      BY <1>4, <2>2, <3>1
    <3>3. j < k - 1
      BY <1>3, <2>2, <3>2
    <3>4. j + 1 \in 1..(k - 1) /\ j + 1 \in 1..n /\ walk[j + 1] = Front(p)
      BY <1>7, <2>1, <3>1, <3>3
    <3>5. isDir[j + 1]
      BY <1>4, <1>12, <2>2, <3>4 DEF IsFolder
    <3>6. QED
      BY <2>3, <3>4, <3>5 DEF p
  <2>6. QED
    BY <1>4, <2>2, <2>4, <2>5
<1>14. Walked(f[0], f[0].items, 0, walk, isDir, isFile, folder, target, mk, get, MaxScanned)
  <2>1. f[0] = scan /\ Len(scan.items) = 0
    BY <1>10
  <2>2. FoldersFirst(scan.items, folder, target, mk, get)
    BY <2>1 DEF FoldersFirst
  <2>3. QED
    BY <2>1, <2>2 DEF Walked
<1>15. \A k \in 1..n : Visits(f[k - 1], f[k], walk[k], CopyOf(walk[k], folder, target),
                              isDir[k], isFile[k], mk, get)
  <2> TAKE k \in 1..n
  <2>1. f[k - 1] \in Scans
    BY <1>7, <1>10
  <2> DEFINE s == f[k - 1]
             t == f[k]
             p == walk[k]
  <2>2. t = RemoteEntry(s, p, folder, target, unlisted)
    BY <1>10
  <2>3. s \in Scans
    BY <2>1
  <2> HIDE DEF s, t, p
  <2>4. Visits(s, t, p, CopyOf(p, folder, target), IsFolder(p, folder),
               ~IsFolder(p, folder) /\ Server[p] = "file", mk, get)
    BY <2>2, <2>3, RemoteVisits DEF mk, get
  <2>5. /\ isDir[k] = IsFolder(p, folder)
        /\ isFile[k] = (~IsFolder(p, folder) /\ Server[p] = "file")
    BY <1>12 DEF p
  <2>6. QED
    BY <2>4, <2>5 DEF s, t, p
<1>16. Walked(f[n], f[0].items, n, walk, isDir, isFile, folder, target, mk, get, MaxScanned)
  <2>1. f[0].items = scan.items
    BY <1>10
  <2>2. MaxScanned <= MaxScanned
    BY <1>1
  <2>3. QED
    BY <1>1, <1>7, <1>10, <1>11, <1>13, <1>14, <1>15, <2>1, <2>2, WalkDone
<1>17. ASSUME result.ok, NEW p \in Below(Server, folder), Server[p] = "file"
       PROVE  HasFile(result.items, get, p)
  <2>1. PICK j \in 1..Len(v) : v[j] = p
    BY <1>3
  <2>2. j + 1 \in 1..n /\ walk[j + 1] = p
    BY <1>7, <2>1
  <2>3. isFile[j + 1] /\ ~isDir[j + 1]
    BY <1>4, <1>12, <1>17, <2>2 DEF IsFolder
  <2>4. QED
    BY <1>10, <1>16, <1>17, <2>2, <2>3 DEF Walked
<1>18. result \in Scans
  BY <1>7, <1>10
<1>19. QED
  BY <1>10, <1>16, <1>17, <1>18 DEF Walked, mk, get

\* What a scan of the disk has done: the same, but the folder itself is counted
\* without a look at the limit.
LEMMA LocalScan ==
  ASSUME NEW scan \in Scans, scan.items = <<>>, scan.ok,
         NEW limit \in Nat, MaxScanned <= limit, scan.count + 1 <= limit,
         NEW folder \in Seq(Name), NEW target \in Seq(Name),
         NEW walk \in LocalWalks(folder), NEW result, result = ScanLocal(scan, folder, target, walk)
  PROVE  /\ result \in Scans
         /\ FoldersFirst(result.items, folder, target, "Create remote dir", "Upload")
         /\ result.count <= limit
         /\ result.ok => \A p \in Below(Disk, folder) :
                           Disk[p] = "file" => HasFile(result.items, "Upload", p)
<1> DEFINE mk  == "Create remote dir"
           get == "Upload"
           start == Opened(scan, folder, target)
           n == Len(walk)
<1>1. IsTree(Disk) /\ MaxScanned \in Nat /\ mk \in Directions /\ get \in Directions
  BY ScanAssumption DEF Directions
<1>2. start = Added(scan, Item(mk, folder, target, "Pending"))
  BY DEF Opened
<1> HIDE DEF mk, get, start
<1>3. /\ walk \in Seq(Below(Disk, folder))
      /\ \A p \in Below(Disk, folder) : \E j \in 1..n : walk[j] = p
      /\ \A j, k \in 1..n : IsStrictPrefix(walk[j], walk[k]) => j < k
  BY <1>1, WalkOf DEF LocalWalks
<1>4. n \in Nat /\ \A k \in 1..n : walk[k] \in Below(Disk, folder)
  BY <1>3, ElementOfSeq
<1> HIDE DEF n
<1>5. \A p \in Below(Disk, folder) :
        /\ p \in Seq(Name) /\ p # folder /\ Len(p) > Len(folder)
        /\ Disk[Front(p)] = "dir"
        /\ Front(p) = folder \/ Front(p) \in Below(Disk, folder)
        /\ IsStrictPrefix(Front(p), p)
  BY <1>1, BelowPath
<1>6. \A p \in Below(Disk, folder) :
        /\ CopyOf(p, folder, target) \in Seq(Name)
        /\ CopyOf(Front(p), folder, target) = Front(CopyOf(p, folder, target))
  <2> SUFFICES ASSUME NEW p \in Below(Disk, folder)
               PROVE  /\ CopyOf(p, folder, target) \in Seq(Name)
                      /\ CopyOf(Front(p), folder, target) = Front(CopyOf(p, folder, target))
    OBVIOUS
  <2>1. p \in Seq(Name) /\ Len(p) > Len(folder) /\ Len(p) \in Nat /\ Len(folder) \in Nat
    BY <1>5
  <2>2. QED
    BY <2>1, Copies
<1>7. CopyOf(folder, folder, target) = target
  <2>1. Len(folder) <= Len(folder)
    OBVIOUS
  <2>2. QED
    BY <2>1, Copies
<1>8. \A k \in 1..n : walk[k] \in Seq(Name) /\ CopyOf(walk[k], folder, target) \in Seq(Name)
  BY <1>4, <1>5, <1>6
\* The folder itself is there before the walk begins.
<1> DEFINE item == Item(mk, folder, target, "Pending")
<1>9. /\ item \in Items /\ item.direction = mk /\ item.source = folder /\ item.target = target
  BY <1>1 DEF Item, Items
<1> HIDE DEF item
<1>10. /\ start \in Scans /\ start.items = Append(scan.items, item) /\ start.count = scan.count + 1
       /\ start.ok
  BY <1>2, <1>9, ScanChanges DEF item
<1>11. /\ FoldersFirst(start.items, folder, target, mk, get)
       /\ HasFolder(start.items, mk, folder, target)
  <2>1. /\ scan.items \in Seq(Items) /\ FoldersFirst(scan.items, folder, target, mk, get)
        /\ item.direction \in {mk, get} /\ item.source = folder
    BY <1>9 DEF Scans, FoldersFirst
  <2>2. LET all == Append(scan.items, item)
        IN /\ FoldersFirst(all, folder, target, mk, get)
           /\ item.direction = mk => HasFolder(all, mk, item.source, item.target)
    BY <1>9, <2>1, AddItem
  <2>3. QED
    BY <1>9, <1>10, <2>2
<1>12. PICK f : LocalSteps(f, n, scan, folder, target, walk)
  <2>1. n \in Nat /\ Len(walk) = n
    BY <1>4 DEF n
  <2>2. Opened(scan, folder, target) \in Scans
    BY <1>10 DEF start
  <2>3. QED
    BY <1>8, <2>1, <2>2, LocalPass
<1>13. /\ f \in [0..n -> Scans] /\ f[0] = start /\ f[n] = result
       /\ \A k \in 1..n : f[k] = LocalEntry(f[k - 1], walk[k], folder, target)
  BY <1>12 DEF LocalSteps, start
<1> DEFINE isDir  == [k \in 1..n |-> Disk[walk[k]] = "dir"]
           isFile == [k \in 1..n |-> Disk[walk[k]] = "file"]
<1>14. isDir \in [1..n -> BOOLEAN] /\ isFile \in [1..n -> BOOLEAN]
  OBVIOUS
<1>15. \A k \in 1..n : /\ isDir[k] = (Disk[walk[k]] = "dir")
                       /\ isFile[k] = (Disk[walk[k]] = "file")
  OBVIOUS
<1> HIDE DEF isDir, isFile
<1>16. Orderly(n, walk, isDir, isFile, folder, target, mk, start.items)
  <2> SUFFICES ASSUME NEW k \in 1..n, walk[k] # folder
               PROVE  /\ CopyOf(Front(walk[k]), folder, target)
                           = Front(CopyOf(walk[k], folder, target))
                      /\ \/ Front(walk[k]) = folder
                         \/ \E j \in 1..(k - 1) : walk[j] = Front(walk[k]) /\ isDir[j]
    BY <1>7, <1>8, <1>11 DEF Orderly
  <2> DEFINE p == walk[k]
  <2>1. p \in Below(Disk, folder)
    BY <1>4
  <2> HIDE DEF p
  <2>2. CopyOf(Front(p), folder, target) = Front(CopyOf(p, folder, target))
    BY <1>6, <2>1
  <2>3. CASE Front(p) \in Below(Disk, folder)
    <3>1. PICK j \in 1..n : walk[j] = Front(p)
      BY <1>3, <2>3
    <3>2. IsStrictPrefix(walk[j], walk[k])
      BY <1>5, <2>1, <3>1 DEF p
    <3>3. j < k
      BY <1>3, <3>2
    <3>4. j \in 1..(k - 1)
      BY <1>4, <3>3
    <3>5. isDir[j]
      BY <1>5, <1>15, <2>1, <3>1
    <3>6. QED
      BY <2>2, <3>1, <3>4, <3>5 DEF p
  <2>4. QED
    BY <1>5, <2>1, <2>2, <2>3 DEF p
<1>17. Walked(f[0], f[0].items, 0, walk, isDir, isFile, folder, target, mk, get, limit)
  BY <1>10, <1>11, <1>13 DEF Walked
<1>18. \A k \in 1..n : Visits(f[k - 1], f[k], walk[k], CopyOf(walk[k], folder, target),
                              isDir[k], isFile[k], mk, get)
  <2> TAKE k \in 1..n
  <2> DEFINE s == f[k - 1]
             t == f[k]
             p == walk[k]
  <2>1. t = LocalEntry(s, p, folder, target)
    BY <1>13
  <2>2. s \in Scans
    BY <1>4, <1>13
  <2> HIDE DEF s, t, p
  <2>3. Visits(s, t, p, CopyOf(p, folder, target), Disk[p] = "dir", Disk[p] = "file", mk, get)
    BY <2>1, <2>2, LocalVisits DEF mk, get
  <2>4. isDir[k] = (Disk[p] = "dir") /\ isFile[k] = (Disk[p] = "file")
    BY <1>15 DEF p
  <2>5. QED
    BY <2>3, <2>4 DEF s, t, p
<1>19. Walked(f[n], f[0].items, n, walk, isDir, isFile, folder, target, mk, get, limit)
  <2>1. f[0].items = start.items
    BY <1>13
  <2>2. QED
    BY <1>1, <1>4, <1>13, <1>14, <1>16, <1>17, <1>18, <2>1, WalkDone
<1>20. ASSUME result.ok, NEW p \in Below(Disk, folder), Disk[p] = "file"
       PROVE  HasFile(result.items, get, p)
  <2>1. PICK j \in 1..n : walk[j] = p
    BY <1>3
  <2>2. isFile[j] /\ ~isDir[j]
    BY <1>15, <1>20, <2>1
  <2>3. QED
    BY <1>13, <1>19, <1>20, <2>1, <2>2 DEF Walked
<1>21. result \in Scans
  BY <1>4, <1>13
<1>22. QED
  BY <1>13, <1>19, <1>20, <1>21 DEF Walked, mk, get
-----------------------------------------------------------------------------
(***************************************************************************)
(* The panel's invariant.                                                  *)
(***************************************************************************)

Paths   == {p \in Seq(Name) : Len(p) <= MaxLength}
Entries == {p \in DOMAIN Server : p # <<>>}
Calls   == [kind : {"refresh", "download", "upload", "run"}, asked : Paths, left : Seq(Nat),
            count : Nat, issue : BOOLEAN, scanned : SUBSET Seq(Name), waits : BOOLEAN]

\* A selection of local rows has every row once, and has not scanned those it
\* has left.
RowsOnce(c) ==
  c.kind = "upload" =>
    /\ \A j \in 1..Len(c.left) :
         c.left[j] \in 1..Len(DiskRows) /\ DiskRows[c.left[j]] \notin c.scanned
    /\ \A j, k \in 1..Len(c.left) : j # k => c.left[j] # c.left[k]

Counts(c) ==
  /\ IsFiniteSet(c.scanned)
  /\ c.count <= MaxScanned + (IF c.kind = "upload" THEN Cardinality(c.scanned) ELSE 0)

\* The file p is in the queue.
Holds(q, p) ==
  \E j \in 1..Len(q) : q[j].source = p /\ q[j].direction \in {"Download", "Upload"}

Side(c) == IF c.kind = "upload" THEN Disk ELSE Server
Whole(c, q) ==
  ~c.issue => \A folder \in c.scanned : \A p \in Below(Side(c), folder) :
                Side(c)[p] = "file" => Holds(q, p)

Handler(c, q) == c \in Calls /\ RowsOnce(c) /\ Counts(c) /\ Whole(c, q)

Stack(cs, q) == cs \in Seq(Calls) /\ \A k \in 1..Len(cs) : Handler(cs[k], q)

TypeInv ==
  /\ path \in Paths /\ rows \in Seq(Entries) /\ queue \in Seq(Items)
  /\ Len(calls) <= MaxCalls /\ clicks \in 0..MaxClicks
  /\ running \in BOOLEAN /\ locks \in [nav : BOOLEAN, add : BOOLEAN]
  /\ listed \in [folder : Paths, ok : BOOLEAN]

\* While no listing is under way, the path and the rows belong together.
Matches ==
  \/ \E k \in 1..Len(calls) : calls[k].kind = "refresh"
  \/ listed.ok => path = listed.folder

PanelInv == TypeInv /\ Stack(calls, queue) /\ Matches /\ ParentFirst
-----------------------------------------------------------------------------
(***************************************************************************)
(* What the steps are made of: listings, the stack and the queue.          *)
(***************************************************************************)

\* The entries of a folder in one order, each of them once.
LEMMA Listings ==
  ASSUME NEW tree, IsTree(tree), NEW folder, NEW l, l = SetToSeq(Inside(tree, folder))
  PROVE  /\ l \in Seq(Inside(tree, folder))
         /\ \A j, k \in 1..Len(l) : l[j] = l[k] => j = k
<1> DEFINE S == Inside(tree, folder)
           c == Cardinality(S)
<1>1. IsFiniteSet(S)
  <2>1. S \subseteq DOMAIN tree /\ IsFiniteSet(DOMAIN tree)
    BY DEF Inside, IsTree
  <2> HIDE DEF S
  <2>2. QED
    BY <2>1, FS_Subset
<1>2. l = CHOOSE f \in [1..c -> S] : IsInjective(f)
  BY DEF SetToSeq
<1> HIDE DEF S
<1>3. c \in Nat /\ ExistsBijection(1..c, S)
  BY <1>1, FS_CardinalityType
<1> HIDE DEF c
<1>4. \E f \in [1..c -> S] : IsInjective(f)
  BY <1>3 DEF ExistsBijection, Bijection, Injection, Surjection
<1>5. l \in [1..c -> S] /\ IsInjective(l)
  BY <1>2, <1>4
<1>6. l \in Seq(S) /\ Len(l) = c /\ DOMAIN l = 1..c
  BY <1>3, <1>5
<1>7. \A j, k \in 1..c : l[j] = l[k] => j = k
  BY <1>5, <1>6 DEF IsInjective
<1>8. QED
  BY <1>6, <1>7 DEF S

\* Rows of the disk are single names of its top folder.
LEMMA DiskRowsOnce ==
  /\ DiskRows \in Seq(DOMAIN Disk)
  /\ \A j, k \in 1..Len(DiskRows) : DiskRows[j] = DiskRows[k] => j = k
  /\ \A k \in 1..Len(DiskRows) :
       /\ DiskRows[k] \in Seq(Name) /\ Len(DiskRows[k]) = 1 /\ Last(DiskRows[k]) \in Name
       /\ DiskRows[k] # <<>>
<1>1. IsTree(Disk)
  BY ScanAssumption
<1> DEFINE rowsOf == DiskRows
<1>2. rowsOf = SetToSeq(Inside(Disk, <<>>))
  BY DEF DiskRows
<1> HIDE DEF rowsOf
<1>3. /\ rowsOf \in Seq(Inside(Disk, <<>>))
      /\ \A j, k \in 1..Len(rowsOf) : rowsOf[j] = rowsOf[k] => j = k
  BY <1>1, <1>2, Listings
<1>4. \A p \in Inside(Disk, <<>>) :
        /\ p \in DOMAIN Disk /\ p \in Seq(Name) /\ Len(p) = 1 /\ Last(p) \in Name
        /\ p # <<>>
  <2> TAKE p \in Inside(Disk, <<>>)
  <2>1. p \in DOMAIN Disk /\ p \in Seq(Name) /\ p # <<>> /\ Front(p) = <<>>
    BY <1>1 DEF Inside, Parent, IsTree
  <2>2. Len(p) \in Nat /\ Len(p) > 0
    BY <2>1
  <2>3. Len(Front(p)) = Len(p) - 1
    <3> DEFINE none == <<>>
    <3>1. none \in Seq(Name) /\ Len(none) = 0
      OBVIOUS
    <3> HIDE DEF none
    <3>2. Len(none) <= Len(p) /\ Len(p) > Len(none)
      BY <2>2, <3>1
    <3>3. QED
      BY <2>1, <3>1, <3>2, Copies, Zenon
  <2>4. Len(p) = 1
    BY <2>1, <2>2, <2>3
  <2>5. QED
    BY <2>1, <2>4 DEF Last
<1>5. QED
  BY <1>3, <1>4 DEF rowsOf

\* What a listing shows are entries.
LEMMA Listed ==
  ASSUME NEW folder
  PROVE  Listing(folder) \in Seq(Entries)
<1> DEFINE l == Listing(folder)
<1>1. l = SetToSeq(Inside(Server, folder)) /\ IsTree(Server)
  BY ScanAssumption DEF Listing
<1> HIDE DEF l
<1>2. l \in Seq(Inside(Server, folder))
  BY <1>1, Listings
<1>3. Inside(Server, folder) \subseteq Entries
  BY DEF Inside, Entries
<1>4. QED
  BY <1>2, <1>3 DEF l

\* The path of a row under any folder.
LEMMA PathsOfRows ==
  ASSUME NEW folder \in Seq(Name), NEW p \in Seq(Name), p # <<>>
  PROVE  /\ Last(p) \in Name /\ Join(folder, Last(p)) \in Seq(Name)
         /\ <<Last(p)>> \in Seq(Name) /\ Len(<<Last(p)>>) = 1
<1>1. Len(p) \in 1..Len(p) /\ p[Len(p)] \in Name
  BY ElementOfSeq
<1>2. QED
  BY <1>1 DEF Last, Join

\* A handler that starts, one that ends, and one that goes on.
LEMMA StackTop ==
  ASSUME NEW cs \in Seq(Calls), cs # <<>>
  PROVE  /\ Len(cs) \in Nat /\ Len(cs) > 0 /\ Last(cs) = cs[Len(cs)]
         /\ Front(cs) \in Seq(Calls) /\ Len(Front(cs)) = Len(cs) - 1
         /\ \A k \in 1..(Len(cs) - 1) : Front(cs)[k] = cs[k]
<1>1. Len(cs) \in Nat /\ Len(cs) > 0 /\ Last(cs) = cs[Len(cs)]
  BY DEF Last
<1> DEFINE n == Len(cs) - 1
<1>2. \A k \in 1..n : cs[k] \in Calls
  BY <1>1, ElementOfSeq
<1>3. /\ SubSeq(cs, 1, n) \in Seq(Calls)
      /\ Len(SubSeq(cs, 1, n)) = IF 1 <= n THEN n - 1 + 1 ELSE 0
      /\ \A k \in 1..(n - 1 + 1) : SubSeq(cs, 1, n)[k] = cs[1 + k - 1]
  BY <1>1, <1>2, SubSeqProperties
<1> DEFINE front == SubSeq(cs, 1, n)
<1>4. Front(cs) = front
  BY DEF Front
<1>5. n \in Nat /\ n - 1 + 1 = n /\ \A k \in 1..n : 1 + k - 1 = k
  BY <1>1
<1> HIDE DEF n, front
<1>6. front \in Seq(Calls) /\ Len(front) = n /\ \A k \in 1..n : front[k] = cs[k]
  BY <1>3, <1>5 DEF front
<1>7. QED
  BY <1>1, <1>4, <1>6 DEF n

\* A queue that keeps its items holds what it held.
Keeps(q, r) == Len(q) <= Len(r) /\ \A j \in 1..Len(q) : r[j] = q[j]

LEMMA KeepsHandlers ==
  ASSUME NEW q \in Seq(Items), NEW r \in Seq(Items), Keeps(q, r), NEW c, Handler(c, q)
  PROVE  Handler(c, r)
<1>1. \A p : Holds(q, p) => Holds(r, p)
  <2> SUFFICES ASSUME NEW p, Holds(q, p) PROVE Holds(r, p)
    OBVIOUS
  <2>1. PICK j \in 1..Len(q) : q[j].source = p /\ q[j].direction \in {"Download", "Upload"}
    BY DEF Holds
  <2>2. j \in 1..Len(r) /\ r[j] = q[j]
    BY <2>1 DEF Keeps
  <2>3. QED
    BY <2>1, <2>2 DEF Holds
<1>2. Whole(c, r)
  BY <1>1 DEF Handler, Whole
<1>3. QED
  BY <1>2 DEF Handler

\* A handler that starts on top of the others.
LEMMA PushHandler ==
  ASSUME NEW cs, NEW q \in Seq(Items), Stack(cs, q), NEW c, Handler(c, q)
  PROVE  Stack(Append(cs, c), q) /\ Len(Append(cs, c)) = Len(cs) + 1
<1> DEFINE all == Append(cs, c)
<1>1. cs \in Seq(Calls) /\ c \in Calls /\ Len(cs) \in Nat
  BY DEF Stack, Handler
<1>2. /\ all \in Seq(Calls) /\ Len(all) = Len(cs) + 1 /\ all[Len(cs) + 1] = c
      /\ \A k \in 1..Len(cs) : all[k] = cs[k]
  BY <1>1, AppendProperties
<1> HIDE DEF all
<1>3. \A k \in 1..Len(all) : k \in 1..Len(cs) \/ k = Len(cs) + 1
  BY <1>1, <1>2
<1>4. \A k \in 1..Len(all) : Handler(all[k], q)
  BY <1>2, <1>3 DEF Stack
<1>5. QED
  BY <1>2, <1>4 DEF Stack, all

\* The top handler ends.
LEMMA PopHandler ==
  ASSUME NEW cs, NEW q \in Seq(Items), NEW r \in Seq(Items), Keeps(q, r),
         Stack(cs, q), cs # <<>>
  PROVE  Stack(Front(cs), r) /\ Len(Front(cs)) = Len(cs) - 1
<1> DEFINE front == Front(cs)
<1>1. cs \in Seq(Calls)
  BY DEF Stack
<1>2. /\ Len(cs) \in Nat /\ front \in Seq(Calls) /\ Len(front) = Len(cs) - 1
      /\ \A k \in 1..(Len(cs) - 1) : front[k] = cs[k]
  BY <1>1, StackTop
<1> HIDE DEF front
<1>3. \A k \in 1..Len(front) : Handler(cs[k], q) /\ front[k] = cs[k]
  BY <1>2 DEF Stack
<1>4. \A k \in 1..Len(front) : Handler(front[k], r)
  BY <1>3, KeepsHandlers
<1>5. QED
  BY <1>2, <1>4 DEF Stack, front

\* The top handler goes on.
LEMMA ContinueHandler ==
  ASSUME NEW cs, NEW q \in Seq(Items), NEW r \in Seq(Items), Keeps(q, r),
         Stack(cs, q), cs # <<>>, NEW c, Handler(c, r)
  PROVE  Stack(Append(Front(cs), c), r) /\ Len(Append(Front(cs), c)) = Len(cs)
<1> DEFINE front == Front(cs)
<1>1. Stack(front, r) /\ Len(front) = Len(cs) - 1
  BY PopHandler
<1>2. Len(cs) \in Nat
  BY DEF Stack
<1> HIDE DEF front
<1>3. Stack(Append(front, c), r) /\ Len(Append(front, c)) = Len(front) + 1
  BY <1>1, PushHandler
<1>4. QED
  BY <1>1, <1>2, <1>3 DEF front

\* A handler that has just started.
LEMMA NewHandler ==
  ASSUME NEW kind \in {"refresh", "download", "upload", "run"}, NEW asked \in Paths,
         NEW left \in Seq(Nat), NEW q,
         kind = "upload" =>
           /\ \A j \in 1..Len(left) : left[j] \in 1..Len(DiskRows)
           /\ \A j, k \in 1..Len(left) : j # k => left[j] # left[k]
  PROVE  Handler(Call(kind, asked, left), q)
<1> DEFINE c == Call(kind, asked, left)
<1>1. /\ c \in Calls /\ c.kind = kind /\ c.left = left /\ c.count = 0 /\ c.scanned = {}
  BY DEF Call, Calls
<1> HIDE DEF c
<1>2. RowsOnce(c)
  BY <1>1 DEF RowsOnce
<1>3. Counts(c)
  <2>1. IsFiniteSet({}) /\ Cardinality({}) = 0
    BY FS_EmptySet
  <2>2. MaxScanned \in Nat
    BY ScanAssumption
  <2>3. QED
    BY <1>1, <2>1, <2>2 DEF Counts
<1>4. Whole(c, q)
  BY <1>1 DEF Whole
<1>5. QED
  BY <1>1, <1>2, <1>3, <1>4 DEF Handler, c

\* A selection without its first row.
LEMMA RowsLeft ==
  ASSUME NEW left \in Seq(Nat), left # <<>>
  PROVE  /\ Tail(left) \in Seq(Nat) /\ Head(left) \in Nat /\ Head(left) = left[1]
         /\ 1 \in 1..Len(left)
         /\ \A j \in 1..Len(Tail(left)) : /\ j + 1 \in 1..Len(left) /\ j + 1 # 1
                                          /\ Tail(left)[j] = left[j + 1]
<1>1. /\ Tail(left) \in Seq(Nat) /\ Len(Tail(left)) = Len(left) - 1
      /\ \A j \in 1..Len(Tail(left)) : Tail(left)[j] = left[j + 1]
  BY HeadTailProperties
<1>2. Len(left) \in Nat /\ Len(left) > 0
  OBVIOUS
<1>3. Head(left) \in Nat /\ Head(left) = left[1]
  BY <1>2, HeadTailProperties
<1>4. QED
  BY <1>1, <1>2, <1>3

\* A handler that has done with a row and scanned no folder for it.
LEMMA RestHandler ==
  ASSUME NEW c, NEW q, Handler(c, q), c.left # <<>>
  PROVE  Handler([c EXCEPT !.left = Tail(@), !.waits = FALSE], q)
<1> DEFINE d == [c EXCEPT !.left = Tail(@), !.waits = FALSE]
<1>1. c \in Calls /\ c.left \in Seq(Nat)
  BY DEF Handler, Calls
<1>2. Tail(c.left) \in Seq(Nat)
  BY <1>1, RowsLeft
<1>3. d \in Calls
  BY <1>1, <1>2 DEF Calls
<1>4. /\ d.kind = c.kind /\ d.left = Tail(c.left) /\ d.count = c.count
      /\ d.issue = c.issue /\ d.scanned = c.scanned
  BY <1>1 DEF Calls
<1> HIDE DEF d
<1>5. RowsOnce(d)
  <2> SUFFICES ASSUME c.kind = "upload"
               PROVE  /\ \A j \in 1..Len(d.left) :
                           d.left[j] \in 1..Len(DiskRows) /\ DiskRows[d.left[j]] \notin d.scanned
                      /\ \A j, k \in 1..Len(d.left) : j # k => d.left[j] # d.left[k]
    BY <1>4 DEF RowsOnce
  <2>1. \A j \in 1..Len(d.left) : j + 1 \in 1..Len(c.left) /\ d.left[j] = c.left[j + 1]
    BY <1>1, <1>4, RowsLeft
  <2>2. \A j, k \in 1..Len(d.left) : j # k => j + 1 # k + 1
    OBVIOUS
  <2>3. QED
    BY <1>4, <2>1, <2>2 DEF Handler, RowsOnce
<1>6. Counts(d) /\ Whole(d, q)
  BY <1>4 DEF Handler, Counts, Whole, Side
<1>7. QED
  BY <1>3, <1>5, <1>6 DEF Handler, d

\* A handler that has scanned the folder of a row.
LEMMA ScanHandler ==
  ASSUME NEW c, NEW q, Handler(c, q), c.left # <<>>,
         NEW folder \in Seq(Name), NEW count \in Nat, NEW issue \in BOOLEAN, c.issue => issue,
         c.kind = "upload" => folder = DiskRows[Head(c.left)],
         count <= MaxScanned
                    + (IF c.kind = "upload" THEN Cardinality(c.scanned) + 1 ELSE 0),
         ~issue => \A p \in Below(Side(c), folder) : Side(c)[p] = "file" => Holds(q, p)
  PROVE  Handler([[c EXCEPT !.left = Tail(@), !.waits = FALSE]
                     EXCEPT !.count = count, !.issue = issue, !.scanned = @ \cup {folder},
                            !.waits = TRUE], q)
<1> DEFINE d == [c EXCEPT !.left = Tail(@), !.waits = FALSE]
           e == [d EXCEPT !.count = count, !.issue = issue, !.scanned = @ \cup {folder},
                          !.waits = TRUE]
<1>1. /\ c \in Calls /\ c.left \in Seq(Nat) /\ c.scanned \in SUBSET Seq(Name)
      /\ c.issue \in BOOLEAN
  BY DEF Handler, Calls
<1>2. Handler(d, q)
  BY RestHandler
<1>3. d \in Calls /\ d.kind = c.kind /\ d.left = Tail(c.left) /\ d.scanned = c.scanned
  <2>1. d \in Calls
    BY <1>2 DEF Handler
  <2>2. QED
    BY <1>1, <2>1 DEF Calls
<1> HIDE DEF d
<1>4. c.scanned \cup {folder} \in SUBSET Seq(Name)
  BY <1>1
<1>5. e \in Calls
  BY <1>3, <1>4 DEF Calls
<1>6. /\ e.kind = c.kind /\ e.left = Tail(c.left) /\ e.count = count
      /\ e.issue = issue /\ e.scanned = c.scanned \cup {folder}
  BY <1>3 DEF Calls
<1> HIDE DEF e
<1>7. c.kind = "upload" => folder \notin c.scanned
  BY <1>1, RowsLeft DEF Handler, RowsOnce
<1>8. RowsOnce(e)
  <2> SUFFICES ASSUME c.kind = "upload"
               PROVE  /\ \A j \in 1..Len(e.left) :
                           e.left[j] \in 1..Len(DiskRows) /\ DiskRows[e.left[j]] \notin e.scanned
                      /\ \A j, k \in 1..Len(e.left) : j # k => e.left[j] # e.left[k]
    BY <1>6 DEF RowsOnce
  <2>1. /\ \A j \in 1..Len(d.left) :
             d.left[j] \in 1..Len(DiskRows) /\ DiskRows[d.left[j]] \notin d.scanned
        /\ \A j, k \in 1..Len(d.left) : j # k => d.left[j] # d.left[k]
    BY <1>2, <1>3 DEF Handler, RowsOnce
  <2>2. ASSUME NEW j \in 1..Len(e.left) PROVE DiskRows[e.left[j]] # folder
    <3>1. /\ Head(c.left) = c.left[1] /\ 1 \in 1..Len(c.left)
          /\ j + 1 \in 1..Len(c.left) /\ j + 1 # 1 /\ e.left[j] = c.left[j + 1]
      BY <1>1, <1>6, RowsLeft
    <3>2. /\ c.left[1] \in 1..Len(DiskRows) /\ c.left[j + 1] \in 1..Len(DiskRows)
          /\ c.left[j + 1] # c.left[1]
      BY <3>1 DEF Handler, RowsOnce
    <3>3. QED
      BY <3>1, <3>2, DiskRowsOnce
  <2>3. QED
    BY <1>3, <1>6, <2>1, <2>2
<1>9. Counts(e)
  <2>1. IsFiniteSet(c.scanned)
    BY DEF Handler, Counts
  <2>2. /\ IsFiniteSet(c.scanned \cup {folder})
        /\ folder \notin c.scanned =>
             Cardinality(c.scanned \cup {folder}) = Cardinality(c.scanned) + 1
    BY <2>1, FS_AddElement
  <2>3. QED
    BY <1>6, <1>7, <2>2 DEF Counts
<1>10. Whole(e, q)
  <2> SUFFICES ASSUME ~issue, NEW f \in c.scanned \cup {folder}, NEW p \in Below(Side(c), f),
                      Side(c)[p] = "file"
               PROVE  Holds(q, p)
    BY <1>6 DEF Whole, Side
  <2>1. CASE f = folder
    BY <2>1
  <2>2. CASE f \in c.scanned
    BY <2>2 DEF Handler, Whole
  <2>3. QED
    BY <2>1, <2>2
<1>11. QED
  BY <1>5, <1>8, <1>9, <1>10 DEF Handler, e, d
-----------------------------------------------------------------------------
(***************************************************************************)
(* A queue that grows.                                                     *)
(***************************************************************************)

\* The item k has its folder before it.
HasParent(q, k) ==
  /\ q[k].direction \in {"Create local dir", "Download"} /\ Len(q[k].target) > 1
       => \E j \in 1..(k - 1) :
            q[j].direction = "Create local dir" /\ q[j].target = Front(q[k].target)
  /\ q[k].direction \in {"Create remote dir", "Upload"} /\ Len(q[k].source) > 1
       => \E j \in 1..(k - 1) :
            /\ q[j].direction = "Create remote dir"
            /\ q[j].source = Front(q[k].source)
            /\ q[j].target = Front(q[k].target)

Ordered(q) == \A k \in 1..Len(q) : HasParent(q, k)

\* Items join the end of the queue: all that were there stay, and where both
\* had folders first, all have.
LEMMA Joined ==
  ASSUME NEW q \in Seq(Items), NEW items \in Seq(Items), NEW r, r = q \o items
  PROVE  /\ r \in Seq(Items) /\ Keeps(q, r)
         /\ \A m \in 1..Len(items) : Len(q) + m \in 1..Len(r) /\ r[Len(q) + m] = items[m]
         /\ Ordered(q) /\ Ordered(items) => Ordered(r)
<1> DEFINE n == Len(q)
           l == Len(items)
<1>1. n \in Nat /\ l \in Nat
  OBVIOUS
<1>2. \A a, b \in Seq(Items) :
        /\ a \o b \in Seq(Items) /\ Len(a \o b) = Len(a) + Len(b)
        /\ \A i \in 1..(Len(a) + Len(b)) :
             (a \o b)[i] = IF i <= Len(a) THEN a[i] ELSE b[i - Len(a)]
  BY ConcatProperties
<1>3. /\ r \in Seq(Items) /\ Len(r) = n + l
      /\ \A i \in 1..(n + l) : r[i] = IF i <= n THEN q[i] ELSE items[i - n]
  BY <1>2, Zenon
<1> HIDE DEF n, l
<1>4. \A i \in 1..n : i \in 1..(n + l) /\ r[i] = q[i]
  BY <1>1, <1>3
<1>5. \A m \in 1..l : n + m \in 1..(n + l) /\ r[n + m] = items[m]
  <2> TAKE m \in 1..l
  <2> DEFINE i == n + m
  <2>1. i \in 1..(n + l) /\ ~(i <= n) /\ i - n = m
    BY <1>1
  <2> HIDE DEF i
  <2>2. r[i] = items[m]
    BY <1>3, <2>1
  <2>3. QED
    BY <2>1, <2>2 DEF i
<1>6. Keeps(q, r)
  BY <1>1, <1>3, <1>4 DEF Keeps, n
<1>7. ASSUME Ordered(q), Ordered(items), NEW k \in 1..(n + l) PROVE HasParent(r, k)
  <2>1. CASE k \in 1..n
    <3>1. HasParent(q, k) /\ r[k] = q[k] /\ \A j \in 1..(k - 1) : r[j] = q[j]
      BY <1>1, <1>4, <1>7, <2>1 DEF Ordered, n
    <3>2. QED
      BY <3>1 DEF HasParent
  <2>2. CASE k \notin 1..n
    <3>1. k - n \in 1..l /\ r[k] = items[k - n]
      BY <1>1, <1>3, <2>2
    <3>2. HasParent(items, k - n)
      BY <1>7, <3>1 DEF Ordered, l
    <3>3. \A j \in 1..(k - n - 1) : n + j \in 1..(k - 1) /\ r[n + j] = items[j]
      <4> TAKE j \in 1..(k - n - 1)
      <4>1. n + j \in 1..(k - 1) /\ j \in 1..l
        BY <1>1, <3>1
      <4>2. QED
        BY <1>5, <4>1
    <3>4. QED
      BY <3>1, <3>2, <3>3 DEF HasParent
  <2>3. QED
    BY <2>1, <2>2
<1>8. QED
  BY <1>3, <1>5, <1>6, <1>7 DEF Ordered, n, l

\* What the two scans queue has its folders first.
LEMMA ScanOrdered ==
  ASSUME NEW items \in Seq(Items), NEW folder \in Seq(Name), NEW target \in Seq(Name)
  PROVE  /\ FoldersFirst(items, folder, target, "Create local dir", "Download")
              /\ Len(target) = 1 => Ordered(items)
         /\ FoldersFirst(items, folder, target, "Create remote dir", "Upload")
              /\ Len(folder) = 1 => Ordered(items)
<1>1. ASSUME FoldersFirst(items, folder, target, "Create local dir", "Download"),
             Len(target) = 1, NEW k \in 1..Len(items)
      PROVE  HasParent(items, k)
  <2>1. /\ items[k].direction \in {"Create local dir", "Download"}
        /\ items[k].source = folder => items[k].target = target
        /\ items[k].source # folder =>
             \E j \in 1..(k - 1) : /\ items[j].direction = "Create local dir"
                                   /\ items[j].source = Front(items[k].source)
                                   /\ items[j].target = Front(items[k].target)
    BY <1>1, Zenon DEF FoldersFirst
  <2>2. ~ (items[k].direction \in {"Create remote dir", "Upload"})
    BY <2>1
  <2>3. Len(target) = 1
    BY <1>1, Zenon
  <2>4. items[k].source = folder => ~ (Len(items[k].target) > 1)
    <3>1. \A x : Len(x) = 1 => ~ (Len(x) > 1)
      OBVIOUS
    <3>2. QED
      BY <2>1, <2>3, <3>1, Zenon
  <2>5. QED
    BY <2>1, <2>2, <2>4, Zenon DEF HasParent
<1>2. ASSUME FoldersFirst(items, folder, target, "Create remote dir", "Upload"),
             Len(folder) = 1, NEW k \in 1..Len(items)
      PROVE  HasParent(items, k)
  <2>1. /\ items[k].direction \in {"Create remote dir", "Upload"}
        /\ items[k].source = folder => items[k].target = target
        /\ items[k].source # folder =>
             \E j \in 1..(k - 1) : /\ items[j].direction = "Create remote dir"
                                   /\ items[j].source = Front(items[k].source)
                                   /\ items[j].target = Front(items[k].target)
    BY <1>2, Zenon DEF FoldersFirst
  <2>2. ~ (items[k].direction \in {"Create local dir", "Download"})
    BY <2>1
  <2>3. Len(folder) = 1
    BY <1>2, Zenon
  <2>4. items[k].source = folder => ~ (Len(items[k].source) > 1)
    <3>1. \A x : Len(x) = 1 => ~ (Len(x) > 1)
      OBVIOUS
    <3>2. QED
      BY <2>1, <2>3, <3>1, Zenon
  <2>5. QED
    BY <2>1, <2>2, <2>4, Zenon DEF HasParent
<1>3. QED
  BY <1>1, <1>2 DEF Ordered

\* A file selected by itself has no folder in the queue to wait for.
LEMMA AppendFile ==
  ASSUME NEW q \in Seq(Items), NEW item \in Items,
         \/ item.direction = "Download" /\ Len(item.target) = 1
         \/ item.direction = "Upload" /\ Len(item.source) = 1,
         NEW r, r = Append(q, item)
  PROVE  r \in Seq(Items) /\ Keeps(q, r) /\ (Ordered(q) => Ordered(r))
<1> DEFINE one == <<item>>
<1>1. one \in Seq(Items) /\ r = q \o one
  BY AppendIsConcat
<1>2. Ordered(one)
  <2>1. \A k \in 1..Len(one) : k = 1 /\ one[k] = item
    OBVIOUS
  <2> HIDE DEF one
  <2>2. /\ item.direction \in {"Create local dir", "Download"} => ~ (Len(item.target) > 1)
        /\ item.direction \in {"Create remote dir", "Upload"} => ~ (Len(item.source) > 1)
    <3>1. CASE item.direction = "Download" /\ Len(item.target) = 1
      BY <3>1
    <3>2. CASE item.direction = "Upload" /\ Len(item.source) = 1
      BY <3>2
    <3>3. QED
      BY <3>1, <3>2
  <2>3. \A k \in 1..Len(one) : HasParent(one, k)
    BY <2>1, <2>2, Zenon DEF HasParent
  <2>4. QED
    BY <2>3 DEF Ordered
<1> HIDE DEF one
<1>3. QED
  BY <1>1, <1>2, Joined
-----------------------------------------------------------------------------
(***************************************************************************)
(* The steps.                                                              *)
(***************************************************************************)

\* The stack and the queue before a step.
LEMMA Before ==
  ASSUME PanelInv
  PROVE  /\ calls \in Seq(Calls) /\ Len(calls) \in Nat /\ queue \in Seq(Items)
         /\ Stack(calls, queue) /\ Ordered(queue)
         /\ Keeps(queue, queue)
         /\ ~Idle => /\ calls # <<>> /\ Top = calls[Len(calls)] /\ Handler(Top, queue)
                     /\ Len(calls) > 0
<1>1. calls \in Seq(Calls) /\ Len(calls) \in Nat /\ queue \in Seq(Items) /\ Stack(calls, queue)
  BY DEF PanelInv, Stack, TypeInv
<1>2. Ordered(queue)
  <2>1. DOMAIN queue = 1..Len(queue)
    BY <1>1
  <2>2. \A k \in 1..Len(queue) : HasParent(queue, k)
    BY <2>1, Zenon DEF PanelInv, ParentFirst, HasParent
  <2>3. QED
    BY <2>2 DEF Ordered
<1>3. Keeps(queue, queue)
  BY <1>1 DEF Keeps
<1>4. ASSUME ~Idle
      PROVE  /\ calls # <<>> /\ Top = calls[Len(calls)] /\ Handler(Top, queue)
             /\ Len(calls) > 0
  BY <1>1, <1>4, StackTop DEF Idle, Top, Stack
<1>5. QED
  BY <1>1, <1>2, <1>3, <1>4

\* ParentFirst of the queue after a step.
LEMMA OrderedNext ==
  ASSUME queue' \in Seq(Items), Ordered(queue')
  PROVE  ParentFirst'
<1>1. DOMAIN queue' = 1..Len(queue')
  OBVIOUS
<1>2. \A k \in 1..Len(queue') : HasParent(queue', k)
  BY DEF Ordered
<1>3. QED
  BY <1>1, <1>2, Zenon DEF ParentFirst, HasParent

\* Every way to another folder.
LEMMA GoesTo ==
  ASSUME PanelInv, NEW folder \in Seq(Name), GoTo(folder)
  PROVE  PanelInv'
<1> DEFINE c == Call("refresh", folder, <<>>)
<1>1. /\ folder \in Paths /\ path' = folder /\ calls' = Append(calls, c)
      /\ Len(calls) < MaxCalls /\ locks' = Locked
      /\ UNCHANGED <<rows, running, queue, clicks, listed>>
  BY DEF GoTo, Push, Paths, picked
<1>2. c.kind = "refresh"
  BY DEF Call
<1>3. Handler(c, queue)
  <2>1. <<>> \in Seq(Nat)
    OBVIOUS
  <2>2. "refresh" \in {"refresh", "download", "upload", "run"} /\ "refresh" # "upload"
    OBVIOUS
  <2>3. QED
    BY <1>1, <2>1, <2>2, NewHandler
<1> HIDE DEF c
<1>4. Stack(calls', queue') /\ Len(calls') = Len(calls) + 1
  BY <1>1, <1>3, Before, PushHandler
<1>5. calls'[Len(calls) + 1].kind = "refresh" /\ Len(calls) + 1 \in 1..Len(calls')
  BY <1>1, <1>2, <1>4, Before
<1>6. Matches'
  BY <1>5 DEF Matches
<1>7. TypeInv'
  <2>1. Len(calls') <= MaxCalls
    BY <1>1, <1>4, Before, PanelAssumption
  <2>2. QED
    BY <1>1, <2>1 DEF PanelInv, TypeInv, Locked
<1>8. ParentFirst'
  BY <1>1, Before, OrderedNext
<1>9. QED
  BY <1>4, <1>6, <1>7, <1>8 DEF PanelInv

\* A handler starts and the panel stays as it is.
LEMMA Pushes ==
  ASSUME PanelInv, NEW c, Handler(c, queue), Push(c), UNCHANGED <<path, listed, rows, queue>>,
         clicks' \in 0..MaxClicks, running' \in BOOLEAN, locks' \in [nav : BOOLEAN, add : BOOLEAN]
  PROVE  PanelInv'
<1>1. calls' = Append(calls, c) /\ Len(calls) < MaxCalls
  BY DEF Push
<1>2. Stack(calls', queue') /\ Len(calls') = Len(calls) + 1
  BY <1>1, Before, PushHandler
<1>3. \A k \in 1..Len(calls) : k \in 1..Len(calls') /\ calls'[k] = calls[k]
  <2>1. calls \in Seq(Calls) /\ c \in Calls
    BY Before DEF Handler
  <2>2. QED
    BY <1>1, <2>1, AppendProperties
<1>4. Matches'
  <2>1. CASE \E k \in 1..Len(calls) : calls[k].kind = "refresh"
    BY <1>3, <2>1 DEF Matches
  <2>2. CASE listed.ok => path = listed.folder
    BY <2>2 DEF Matches
  <2>3. QED
    BY <2>1, <2>2 DEF PanelInv, Matches
<1>5. TypeInv'
  <2>1. Len(calls') <= MaxCalls
    BY <1>1, <1>2, Before, PanelAssumption
  <2>2. QED
    BY <2>1 DEF PanelInv, TypeInv
<1>6. ParentFirst'
  BY Before, OrderedNext
<1>7. QED
  BY <1>2, <1>4, <1>5, <1>6 DEF PanelInv

\* The top handler goes on, or makes way for a listing.
LEMMA Continues ==
  ASSUME PanelInv, ~Idle, NEW c, Handler(c, queue'), Continue(c),
         Top.kind # "refresh" \/ c.kind = "refresh",
         queue' \in Seq(Items), Keeps(queue, queue'), Ordered(queue'),
         UNCHANGED <<path, listed, rows, clicks>>,
         running' \in BOOLEAN, locks' \in [nav : BOOLEAN, add : BOOLEAN]
  PROVE  PanelInv'
<1>1. /\ calls' = Append(Front(calls), c) /\ calls \in Seq(Calls) /\ calls # <<>>
      /\ Len(calls) \in Nat /\ Len(calls) > 0 /\ Top = calls[Len(calls)]
  BY Before DEF Continue, Below1
<1>2. Stack(calls', queue') /\ Len(calls') = Len(calls)
  BY <1>1, Before, ContinueHandler
<1>3. /\ \A k \in 1..(Len(calls) - 1) : calls'[k] = calls[k]
      /\ calls'[Len(calls)] = c
  <2> DEFINE front == Front(calls)
  <2>1. /\ front \in Seq(Calls) /\ Len(front) = Len(calls) - 1
        /\ \A k \in 1..(Len(calls) - 1) : front[k] = calls[k]
    BY <1>1, StackTop
  <2>2. calls' = Append(front, c) /\ c \in Calls
    BY <1>1 DEF Handler
  <2> HIDE DEF front
  <2>3. QED
    BY <1>1, <2>1, <2>2, AppendProperties
<1>4. Matches'
  <2>1. ASSUME NEW k \in 1..Len(calls), calls[k].kind = "refresh"
        PROVE  \E j \in 1..Len(calls') : calls'[j].kind = "refresh"
    <3>1. CASE k \in 1..(Len(calls) - 1)
      BY <1>2, <1>3, <2>1, <3>1
    <3>2. CASE k = Len(calls)
      BY <1>1, <1>2, <1>3, <2>1, <3>2
    <3>3. QED
      BY <1>1, <3>1, <3>2
  <2>2. CASE listed.ok => path = listed.folder
    BY <2>2 DEF Matches
  <2>3. QED
    BY <2>1, <2>2 DEF PanelInv, Matches
<1>5. TypeInv'
  BY <1>2 DEF PanelInv, TypeInv
<1>6. ParentFirst'
  BY OrderedNext
<1>7. QED
  BY <1>2, <1>4, <1>5, <1>6 DEF PanelInv

\* The top handler ends.
LEMMA Ends ==
  ASSUME PanelInv, ~Idle, calls' = Below1, Matches',
         UNCHANGED <<queue, clicks, running>>,
         path' \in Paths, rows' \in Seq(Entries), locks' \in [nav : BOOLEAN, add : BOOLEAN],
         listed' \in [folder : Paths, ok : BOOLEAN]
  PROVE  PanelInv'
<1>1. calls' = Front(calls) /\ calls # <<>> /\ Len(calls) \in Nat
  BY Before DEF Below1
<1>2. Stack(calls', queue') /\ Len(calls') = Len(calls) - 1
  BY <1>1, Before, PopHandler
<1>3. TypeInv'
  <2>1. Len(calls') <= MaxCalls
    BY <1>1, <1>2, PanelAssumption DEF PanelInv, TypeInv
  <2>2. QED
    BY <2>1 DEF PanelInv, TypeInv
<1>4. ParentFirst'
  BY Before, OrderedNext
<1>5. QED
  BY <1>2, <1>3, <1>4 DEF PanelInv

\* The entries the rows show.
LEMMA RowEntries ==
  ASSUME PanelInv, NEW row \in 1..Len(rows)
  PROVE  /\ rows[row] \in Seq(Name) /\ rows[row] # <<>>
         /\ PathOf(row) \in Seq(Name)
         /\ <<Last(rows[row])>> \in Seq(Name) /\ Len(<<Last(rows[row])>>) = 1
<1> DEFINE p == rows[row]
<1>1. p \in DOMAIN Server /\ p # <<>>
  BY ElementOfSeq DEF PanelInv, TypeInv, Entries
<1>2. p \in Seq(Name) /\ path \in Seq(Name)
  BY <1>1, ScanAssumption DEF IsTree, PanelInv, TypeInv, Paths
<1>3. PathOf(row) = Join(path, Last(p))
  BY DEF PathOf
<1> HIDE DEF p
<1>4. QED
  BY <1>1, <1>2, <1>3, PathsOfRows DEF p

LEMMA NavigateKeeps ==
  ASSUME PanelInv, Navigate
  PROVE  PanelInv'
<1>1. path \in Seq(Name) /\ DOMAIN rows = 1..Len(rows)
  BY DEF PanelInv, TypeInv, Paths
<1>2. CASE RefreshPanel
  BY <1>1, <1>2, GoesTo DEF RefreshPanel
<1>3. CASE GoUp
  <2>1. Parent(path) \in Seq(Name)
    <3>1. CASE path = <<>>
      BY <1>1, <3>1 DEF Parent
    <3>2. CASE path # <<>>
      <4>1. Len(path) \in Nat /\ Len(path) > 0 /\ \A i \in 1..(Len(path) - 1) : path[i] \in Name
        BY <1>1, <3>2, ElementOfSeq
      <4>2. SubSeq(path, 1, Len(path) - 1) \in Seq(Name)
        BY <1>1, <4>1, SubSeqProperties
      <4>3. QED
        BY <3>2, <4>2 DEF Parent, Front
    <3>3. QED
      BY <3>1, <3>2
  <2>2. QED
    BY <1>3, <2>1, GoesTo DEF GoUp
<1>4. CASE OpenFromEditor
  BY <1>4, PanelAssumption, GoesTo DEF OpenFromEditor
<1>5. CASE OpenRow
  BY <1>1, <1>5, RowEntries, GoesTo DEF OpenRow
<1>6. QED
  BY <1>2, <1>3, <1>4, <1>5 DEF Navigate

\* A selection has rows of the table, each of them once.
LEMMA SelectionRows ==
  ASSUME NEW n \in Nat, NEW left \in Selections(n)
  PROVE  /\ left \in Seq(Nat) /\ DOMAIN left = 1..Len(left)
         /\ \A j \in 1..Len(left) : left[j] \in 1..n
         /\ \A j, k \in 1..Len(left) : j # k => left[j] # left[k]
<1>1. PICK m \in 1..n : left \in [1..m -> 1..n]
  BY DEF Selections
<1>2. left \in Seq(Nat) /\ Len(left) = m /\ DOMAIN left = 1..m
  BY <1>1
<1>3. \A j, k \in 1..m : j < k => left[j] < left[k]
  BY <1>2 DEF Selections
<1>4. \A j \in 1..m : left[j] \in 1..n
  BY <1>1
<1>5. ASSUME NEW j \in 1..m, NEW k \in 1..m, j # k PROVE left[j] # left[k]
  <2>1. j < k \/ k < j
    BY <1>5
  <2>2. left[j] \in Nat /\ left[k] \in Nat
    BY <1>4
  <2>3. left[j] < left[k] \/ left[k] < left[j]
    BY <1>3, <2>1
  <2>4. QED
    BY <2>2, <2>3
<1>6. QED
  BY <1>2, <1>4, <1>5

LEMMA SelectKeeps ==
  ASSUME PanelInv, Select
  PROVE  PanelInv'
<1>1. Len(rows) \in Nat /\ Len(DiskRows) \in Nat /\ <<>> \in Paths
  BY DiskRowsOnce, PanelAssumption DEF PanelInv, TypeInv, Paths
<1>2. running \in BOOLEAN /\ locks \in [nav : BOOLEAN, add : BOOLEAN]
  BY DEF PanelInv, TypeInv
<1>3. (\E paths : Clicked(paths)) => clicks' \in 0..MaxClicks
  BY PanelAssumption DEF Clicked, PanelInv, TypeInv
<1>4. CASE QueueDownloads
  <2>1. PICK left \in Selections(Len(rows)) :
          Push(Call("download", <<>>, left)) /\ Clicked({rows[r] : r \in Range(left)})
    BY <1>4 DEF QueueDownloads
  <2> DEFINE c == Call("download", <<>>, left)
  <2>2. left \in Seq(Nat)
    BY <1>1, SelectionRows
  <2>3. "download" \in {"refresh", "download", "upload", "run"} /\ "download" # "upload"
    OBVIOUS
  <2>4. Handler(c, queue)
    BY <1>1, <2>2, <2>3, NewHandler
  <2>5. Push(c) /\ clicks' \in 0..MaxClicks
    BY <1>3, <2>1
  <2> HIDE DEF c
  <2>6. UNCHANGED <<path, listed, rows, locks, queue, running>>
    BY <1>4 DEF QueueDownloads, panel
  <2>7. QED
    BY <1>2, <2>4, <2>5, <2>6, Pushes
<1>5. CASE QueueUploads
  <2>1. PICK left \in Selections(Len(DiskRows)) :
          Push(Call("upload", <<>>, left)) /\ Clicked({DiskRows[r] : r \in Range(left)})
    BY <1>5 DEF QueueUploads
  <2> DEFINE c == Call("upload", <<>>, left)
  <2>2. /\ left \in Seq(Nat)
        /\ \A j \in 1..Len(left) : left[j] \in 1..Len(DiskRows)
        /\ \A j, k \in 1..Len(left) : j # k => left[j] # left[k]
    BY <1>1, SelectionRows
  <2>3. "upload" \in {"refresh", "download", "upload", "run"}
    OBVIOUS
  <2>4. Handler(c, queue)
    BY <1>1, <2>2, <2>3, NewHandler
  <2>5. Push(c) /\ clicks' \in 0..MaxClicks
    BY <1>3, <2>1
  <2> HIDE DEF c
  <2>6. UNCHANGED <<path, listed, rows, locks, queue, running>>
    BY <1>5 DEF QueueUploads, panel
  <2>7. QED
    BY <1>2, <2>4, <2>5, <2>6, Pushes
<1>6. CASE QueueDeletes
  <2>1. PICK left \in Selections(Len(rows)) :
          /\ Clicked({rows[r] : r \in Range(left)})
          /\ queue' = queue \o
               [k \in DOMAIN left |->
                  Item(IF IsDirRow(left[k]) THEN "Delete remote dir" ELSE "Delete remote file",
                       PathOf(left[k]), PathOf(left[k]), "Pending")]
    BY <1>6 DEF QueueDeletes
  <2> DEFINE items ==
               [k \in DOMAIN left |->
                  Item(IF IsDirRow(left[k]) THEN "Delete remote dir" ELSE "Delete remote file",
                       PathOf(left[k]), PathOf(left[k]), "Pending")]
  <2>2. UNCHANGED <<path, listed, rows, locks, calls, running>>
    BY <1>6 DEF QueueDeletes, panel
  <2>3. /\ Len(left) \in Nat /\ DOMAIN left = 1..Len(left)
        /\ \A k \in 1..Len(left) : left[k] \in 1..Len(rows)
    BY <1>1, SelectionRows
  <2>4. \A k \in 1..Len(left) : PathOf(left[k]) \in Seq(Name)
    BY <2>3, RowEntries
  <2>5. \A k \in 1..Len(left) :
          items[k] \in Items
          /\ items[k].direction \in {"Delete remote dir", "Delete remote file"}
    BY <2>3, <2>4 DEF Item, Items, Directions
  <2>6. items \in Seq(Items) /\ Len(items) = Len(left)
    <3> DEFINE n == Len(left)
    <3>1. items = [k \in 1..n |-> items[k]] /\ n \in Nat
      BY <2>3
    <3>2. \A k \in 1..n : items[k] \in Items
      BY <2>5
    <3> HIDE DEF items, n
    <3>3. items \in [1..n -> Items]
      BY <3>1, <3>2
    <3>4. items \in Seq(Items) /\ Len(items) = n
      BY <3>1, <3>3
    <3>5. QED
      BY <3>4 DEF n
  <2>7. queue' = queue \o items
    BY <2>1
  <2> HIDE DEF items
  <2>8. Ordered(items)
    <3>1. \A k \in 1..Len(items) :
            ~ (items[k].direction \in {"Create local dir", "Download"})
            /\ ~ (items[k].direction \in {"Create remote dir", "Upload"})
      BY <2>5, <2>6
    <3>2. QED
      BY <3>1, Zenon DEF Ordered, HasParent
  <2>9. queue' \in Seq(Items) /\ Keeps(queue, queue') /\ Ordered(queue')
    BY <2>6, <2>7, <2>8, Before, Joined
  <2>10. Stack(calls', queue')
    <3>1. \A k \in 1..Len(calls) : Handler(calls[k], queue')
      BY <2>9, Before, KeepsHandlers DEF Stack
    <3>2. QED
      BY <2>2, <3>1, Before DEF Stack
  <2>11. TypeInv'
    BY <1>3, <2>1, <2>2, <2>9 DEF PanelInv, TypeInv
  <2>12. Matches'
    BY <2>2 DEF PanelInv, Matches
  <2>13. ParentFirst'
    BY <2>9, OrderedNext
  <2>14. QED
    BY <2>10, <2>11, <2>12, <2>13 DEF PanelInv
<1>7. QED
  BY <1>4, <1>5, <1>6 DEF Select

\* A scan ends: its items join the queue and the handler goes on.
LEMMA ScanKeeps ==
  ASSUME PanelInv, ~Idle, Top.left # <<>>, Top.kind # "refresh",
         NEW folder \in Seq(Name), NEW result \in Scans, ScanDone(result, folder),
         Ordered(result.items),
         Top.kind = "upload" => folder = DiskRows[Head(Top.left)],
         result.count <= MaxScanned
                    + (IF Top.kind = "upload" THEN Cardinality(Top.scanned) + 1 ELSE 0),
         result.ok => \A p \in Below(Side(Top), folder) : Side(Top)[p] = "file" =>
                        \/ HasFile(result.items, "Download", p)
                        \/ HasFile(result.items, "Upload", p)
  PROVE  PanelInv'
<1> DEFINE c == Top
           issue == HasIssue(c, result)
           next == [[c EXCEPT !.left = Tail(@), !.waits = FALSE]
                       EXCEPT !.count = result.count, !.issue = issue,
                              !.scanned = @ \cup {folder}, !.waits = TRUE]
<1>1. /\ queue' = queue \o result.items /\ Continue(next)
      /\ UNCHANGED <<path, rows, locks, listed, running, clicks>>
  BY DEF ScanDone, Rest, panel
<1>2. result.items \in Seq(Items) /\ result.count \in Nat /\ result.ok \in BOOLEAN
  BY DEF Scans
<1>3. /\ queue' \in Seq(Items) /\ Keeps(queue, queue') /\ Ordered(queue')
      /\ \A m \in 1..Len(result.items) :
           Len(queue) + m \in 1..Len(queue') /\ queue'[Len(queue) + m] = result.items[m]
  <2> DEFINE items == result.items
  <2>1. queue \in Seq(Items) /\ Ordered(queue)
    BY Before
  <2>2. items \in Seq(Items) /\ queue' = queue \o items /\ Ordered(items)
    BY <1>1, <1>2
  <2> HIDE DEF items
  <2>3. /\ queue' \in Seq(Items) /\ Keeps(queue, queue')
        /\ \A m \in 1..Len(items) :
             Len(queue) + m \in 1..Len(queue') /\ queue'[Len(queue) + m] = items[m]
        /\ Ordered(queue) /\ Ordered(items) => Ordered(queue')
    BY <2>1, <2>2, Joined
  <2>4. QED
    BY <2>1, <2>2, <2>3 DEF items
<1>4. Handler(c, queue) /\ Handler(c, queue')
  BY <1>3, Before, KeepsHandlers
<1>5. c.issue \in BOOLEAN
  BY <1>4 DEF Handler, Calls
<1>6. issue \in BOOLEAN /\ (c.issue => issue) /\ (~issue => result.ok)
  BY <1>5 DEF HasIssue
<1>7. \A p : HasFile(result.items, "Download", p) \/ HasFile(result.items, "Upload", p)
               => Holds(queue', p)
  <2> SUFFICES ASSUME NEW p, NEW get \in {"Download", "Upload"}, HasFile(result.items, get, p)
               PROVE  Holds(queue', p)
    BY Zenon
  <2>1. PICK m \in 1..Len(result.items) :
          result.items[m].direction = get /\ result.items[m].source = p
    BY DEF HasFile
  <2>2. Len(queue) + m \in 1..Len(queue') /\ queue'[Len(queue) + m] = result.items[m]
    BY <1>3
  <2>3. QED
    BY <2>1, <2>2 DEF Holds
<1>8. ~issue => \A p \in Below(Side(c), folder) : Side(c)[p] = "file" => Holds(queue', p)
  BY <1>6, <1>7, Zenon
<1> HIDE DEF issue, c
<1>9. Handler(next, queue')
  BY <1>2, <1>4, <1>6, <1>8, ScanHandler DEF c
<1>10. running' \in BOOLEAN /\ locks' \in [nav : BOOLEAN, add : BOOLEAN]
  BY <1>1 DEF PanelInv, TypeInv
<1> HIDE DEF next
<1>11. UNCHANGED <<path, listed, rows, clicks>>
  BY <1>1
<1>12. QED
  BY <1>1, <1>3, <1>9, <1>10, <1>11, Continues

\* A scan has nothing before it begins.
LEMMA EmptyScan ==
  ASSUME NEW count \in Nat
  PROVE  /\ NewScan(count) \in Scans /\ NewScan(count).items = <<>>
         /\ NewScan(count).count = count /\ NewScan(count).ok
BY DEF NewScan, Scans

LEMMA RemoteFolderKeeps ==
  ASSUME PanelInv, TakeRemoteFolder
  PROVE  PanelInv'
<1>1. /\ ~Idle /\ Top.kind = "download" /\ Top.left # <<>> /\ Row \in 1..Len(rows)
  BY DEF TakeRemoteFolder, InSelection, PanelInv, TypeInv
<1> DEFINE folder == PathOf(Row)
           target == <<Last(rows[Row])>>
           scan == NewScan(Top.count)
<1>2. PICK unlisted \in SUBSET ({folder} \cup Folders(Server, folder)),
           walk \in RemoteWalks(folder) :
        ScanDone(ScanRemote(scan, folder, target, unlisted, walk), folder)
  BY DEF TakeRemoteFolder
<1>3. folder \in Seq(Name) /\ target \in Seq(Name) /\ Len(target) = 1
  BY <1>1, RowEntries
<1>4. Handler(Top, queue)
  BY <1>1, Before
<1>5. Top.count \in Nat /\ Top.count <= MaxScanned
  BY <1>1, <1>4, ScanAssumption DEF Handler, Calls, Counts
<1>6. scan \in Scans /\ scan.items = <<>> /\ scan.count <= MaxScanned
  BY <1>5, EmptyScan
<1> DEFINE result == ScanRemote(scan, folder, target, unlisted, walk)
<1>7. ScanDone(result, folder)
  BY <1>2
<1> HIDE DEF folder, target, scan
<1>8. /\ result \in Scans
      /\ FoldersFirst(result.items, folder, target, "Create local dir", "Download")
      /\ result.count <= MaxScanned
      /\ result.ok => \A p \in Below(Server, folder) :
                        Server[p] = "file" => HasFile(result.items, "Download", p)
  BY <1>3, <1>6, RemoteScan
<1> HIDE DEF result
<1>9. Ordered(result.items)
  <2>1. result.items \in Seq(Items)
    BY <1>8 DEF Scans
  <2>2. QED
    BY <1>3, <1>8, <2>1, ScanOrdered
<1>10. Side(Top) = Server /\ Top.kind # "refresh" /\ Top.kind # "upload"
  BY <1>1 DEF Side
<1>11. result.count \in Nat /\ MaxScanned \in Nat
  BY <1>8, ScanAssumption DEF Scans
<1>12. result.count <= MaxScanned
                    + (IF Top.kind = "upload" THEN Cardinality(Top.scanned) + 1 ELSE 0)
  <2>1. result.count <= MaxScanned
    BY <1>8, Zenon
  <2>2. QED
    BY <1>10, <1>11, <2>1
<1>13. result.ok => \A p \in Below(Side(Top), folder) : Side(Top)[p] = "file" =>
                      \/ HasFile(result.items, "Download", p)
                      \/ HasFile(result.items, "Upload", p)
  BY <1>8, <1>10
<1>14. QED
  BY <1>1, <1>3, <1>7, <1>8, <1>9, <1>10, <1>12, <1>13, ScanKeeps

LEMMA LocalFolderKeeps ==
  ASSUME PanelInv, TakeLocalFolder
  PROVE  PanelInv'
<1>1. ~Idle /\ Top.kind = "upload" /\ Top.left # <<>>
  BY DEF TakeLocalFolder, InSelection
<1> DEFINE folder == DiskRows[Row]
           target == Join(path, Last(folder))
           scan == NewScan(Top.count)
           limit == MaxScanned + (Cardinality(Top.scanned) + 1)
<1>2. PICK walk \in LocalWalks(folder) : ScanDone(ScanLocal(scan, folder, target, walk), folder)
  BY DEF TakeLocalFolder
<1>3. Handler(Top, queue)
  BY <1>1, Before
<1>4. Row \in 1..Len(DiskRows)
  <2>1. Top.left \in Seq(Nat)
    BY <1>3 DEF Handler, Calls
  <2>2. Row = Top.left[1] /\ 1 \in 1..Len(Top.left)
    BY <1>1, <2>1, RowsLeft DEF Row
  <2>3. QED
    BY <1>1, <1>3, <2>2 DEF Handler, RowsOnce
<1>5. folder \in Seq(Name) /\ folder # <<>> /\ Len(folder) = 1
  BY <1>4, DiskRowsOnce
<1>6. target \in Seq(Name)
  <2>1. path \in Seq(Name)
    BY DEF PanelInv, TypeInv, Paths
  <2> HIDE DEF folder
  <2>2. QED
    BY <1>5, <2>1, PathsOfRows
<1>7. /\ Top.count \in Nat /\ Cardinality(Top.scanned) \in Nat /\ MaxScanned \in Nat
      /\ Top.count <= MaxScanned + Cardinality(Top.scanned)
  <2>1. Top.count \in Nat /\ IsFiniteSet(Top.scanned)
    BY <1>3 DEF Handler, Calls, Counts
  <2>2. Cardinality(Top.scanned) \in Nat
    BY <2>1, FS_CardinalityType
  <2>3. QED
    BY <1>1, <1>3, <2>1, <2>2, ScanAssumption DEF Handler, Counts
<1>8. limit \in Nat /\ MaxScanned <= limit /\ Top.count + 1 <= limit
  BY <1>7
<1>9. scan \in Scans /\ scan.items = <<>> /\ scan.ok /\ scan.count + 1 <= limit
  BY <1>7, <1>8, EmptyScan
<1> DEFINE result == ScanLocal(scan, folder, target, walk)
<1>10. ScanDone(result, folder)
  BY <1>2
<1>11. folder = DiskRows[Head(Top.left)]
  BY DEF Row
<1> HIDE DEF folder, target, scan, limit
<1>12. /\ result \in Scans
       /\ FoldersFirst(result.items, folder, target, "Create remote dir", "Upload")
       /\ result.count <= limit
       /\ result.ok => \A p \in Below(Disk, folder) :
                         Disk[p] = "file" => HasFile(result.items, "Upload", p)
  BY <1>5, <1>6, <1>8, <1>9, LocalScan
<1> HIDE DEF result
<1>13. Ordered(result.items)
  <2>1. result.items \in Seq(Items)
    BY <1>12 DEF Scans
  <2>2. QED
    BY <1>5, <1>6, <1>12, <2>1, ScanOrdered
<1>14. Side(Top) = Disk /\ Top.kind # "refresh"
  BY <1>1 DEF Side
<1>15. result.count <= MaxScanned
                    + (IF Top.kind = "upload" THEN Cardinality(Top.scanned) + 1 ELSE 0)
  <2>1. result.count <= limit
    BY <1>12, Zenon
  <2>2. QED
    BY <1>1, <2>1 DEF limit
<1>16. result.ok => \A p \in Below(Side(Top), folder) : Side(Top)[p] = "file" =>
                      \/ HasFile(result.items, "Download", p)
                      \/ HasFile(result.items, "Upload", p)
  BY <1>12, <1>14
<1>17. QED
  BY <1>1, <1>5, <1>10, <1>11, <1>12, <1>13, <1>14, <1>15, <1>16, ScanKeeps

\* Rows that are skipped, and files.
LEMMA RowKeeps ==
  ASSUME PanelInv, SkipRow \/ TakeFile
  PROVE  PanelInv'
<1>1. /\ ~Idle /\ Top.left # <<>> /\ Top.kind # "refresh" /\ Continue(Rest)
      /\ UNCHANGED <<path, rows, locks, listed, running, clicks>>
  BY DEF SkipRow, TakeFile, InSelection, panel, picked
<1>2. Handler(Top, queue)
  BY <1>1, Before
<1>3. Handler(Rest, queue)
  BY <1>1, <1>2, RestHandler DEF Rest
<1>4. running' \in BOOLEAN /\ locks' \in [nav : BOOLEAN, add : BOOLEAN]
  BY <1>1 DEF PanelInv, TypeInv
<1>5. UNCHANGED <<path, listed, rows, clicks>>
  BY <1>1
<1>6. ASSUME NEW item \in Items,
             \/ item.direction = "Download" /\ Len(item.target) = 1
             \/ item.direction = "Upload" /\ Len(item.source) = 1,
             queue' = Append(queue, item)
      PROVE  queue' \in Seq(Items) /\ Keeps(queue, queue') /\ Ordered(queue')
  BY <1>6, Before, AppendFile
<1>7. queue' \in Seq(Items) /\ Keeps(queue, queue') /\ Ordered(queue')
  <2>1. CASE SkipRow
    BY <2>1, Before DEF SkipRow, picked
  <2>2. CASE InSelection("download") /\ Row \in DOMAIN rows
             /\ queue' = Append(queue, Item("Download", PathOf(Row), <<Last(rows[Row])>>,
                                            "Pending"))
    <3> DEFINE item == Item("Download", PathOf(Row), <<Last(rows[Row])>>, "Pending")
    <3>1. Row \in 1..Len(rows)
      BY <2>2 DEF PanelInv, TypeInv
    <3>2. /\ PathOf(Row) \in Seq(Name) /\ <<Last(rows[Row])>> \in Seq(Name)
          /\ Len(<<Last(rows[Row])>>) = 1
      BY <3>1, RowEntries
    <3>3. item \in Items /\ item.direction = "Download" /\ item.target = <<Last(rows[Row])>>
      BY <3>2 DEF Item, Items, Directions
    <3> HIDE DEF item
    <3>4. QED
      BY <1>6, <2>2, <3>2, <3>3 DEF item
  <2>3. CASE InSelection("upload")
             /\ queue' = Append(queue, Item("Upload", DiskRows[Row],
                                            Join(path, Last(DiskRows[Row])), "Pending"))
    <3> DEFINE p == DiskRows[Row]
               item == Item("Upload", p, Join(path, Last(p)), "Pending")
    <3>1. Row \in 1..Len(DiskRows)
      <4>1. Top.left \in Seq(Nat)
        BY <1>2 DEF Handler, Calls
      <4>2. Row = Top.left[1] /\ 1 \in 1..Len(Top.left)
        BY <1>1, <4>1, RowsLeft DEF Row
      <4>3. QED
        BY <1>2, <2>3, <4>2 DEF Handler, RowsOnce, InSelection
    <3>2. p \in Seq(Name) /\ Len(p) = 1 /\ p # <<>>
      BY <3>1, DiskRowsOnce
    <3> HIDE DEF p
    <3>3. path \in Seq(Name)
      BY DEF PanelInv, TypeInv, Paths
    <3>4. Join(path, Last(p)) \in Seq(Name)
      BY <3>2, <3>3, PathsOfRows
    <3>5. item \in Items /\ item.direction = "Upload" /\ item.source = p
      BY <3>2, <3>4 DEF Item, Items, Directions
    <3>6. queue' = Append(queue, item)
      BY <2>3 DEF p
    <3> HIDE DEF item
    <3>7. QED
      BY <1>6, <3>2, <3>5, <3>6
  <2>4. QED
    BY <2>1, <2>2, <2>3 DEF TakeFile
<1>8. Handler(Rest, queue')
  BY <1>3, <1>7, Before, KeepsHandlers
<1>9. QED
  BY <1>1, <1>4, <1>5, <1>7, <1>8, Continues

\* Listings that end, and selections.
LEMMA EndKeeps ==
  ASSUME PanelInv, ListingArrives \/ ListingFails \/ EndSelection
  PROVE  PanelInv'
<1>1. /\ path \in Paths /\ rows \in Seq(Entries) /\ running \in BOOLEAN
      /\ locks \in [nav : BOOLEAN, add : BOOLEAN] /\ listed \in [folder : Paths, ok : BOOLEAN]
  BY DEF PanelInv, TypeInv
<1>2. RemoteFree \in [nav : BOOLEAN, add : BOOLEAN]
  BY <1>1 DEF RemoteFree
<1>3. CASE ListingArrives
  <2>1. /\ ~Idle /\ path' = Top.asked /\ rows' = Listing(Top.asked)
        /\ listed' = [folder |-> Top.asked, ok |-> TRUE]
        /\ calls' = Below1 /\ locks' = RemoteFree /\ UNCHANGED <<running, queue, clicks>>
    BY <1>3 DEF ListingArrives, PathListed, picked
  <2>2. Top.asked \in Paths
    BY <2>1, Before DEF Handler, Calls
  <2>3. path' \in Paths /\ listed' \in [folder : Paths, ok : BOOLEAN] /\ rows' \in Seq(Entries)
    BY <2>1, <2>2, Listed
  <2>4. Matches'
    BY <2>1 DEF Matches
  <2>5. QED
    BY <1>2, <2>1, <2>3, <2>4, Ends
<1>4. CASE ListingFails
  <2>1. /\ ~Idle /\ listed' = [listed EXCEPT !.ok = FALSE]
        /\ calls' = Below1 /\ locks' = RemoteFree
        /\ UNCHANGED <<path, rows, running, queue, clicks>>
    BY <1>4 DEF ListingFails, picked
  <2>2. listed' \in [folder : Paths, ok : BOOLEAN] /\ ~listed'.ok
    BY <1>1, <2>1
  <2>3. Matches'
    BY <2>2 DEF Matches
  <2>4. QED
    BY <1>1, <1>2, <2>1, <2>2, <2>3, Ends
<1>5. CASE EndSelection
  <2>1. /\ ~Idle /\ Top.kind \in {"download", "upload"} /\ calls' = Below1
        /\ UNCHANGED <<path, rows, locks, listed, running, queue, clicks>>
    BY <1>5 DEF EndSelection, panel, picked
  <2>2. Matches'
    <3>1. /\ calls \in Seq(Calls) /\ calls # <<>> /\ Len(calls) \in Nat /\ Len(calls) > 0
          /\ Top = calls[Len(calls)]
      BY <2>1, Before
    <3>2. /\ Len(calls') = Len(calls) - 1
          /\ \A k \in 1..(Len(calls) - 1) : calls'[k] = calls[k]
      BY <2>1, <3>1, StackTop DEF Below1
    <3>3. ASSUME NEW k \in 1..Len(calls), calls[k].kind = "refresh"
          PROVE  \E j \in 1..Len(calls') : calls'[j].kind = "refresh"
      <4>1. k # Len(calls)
        BY <2>1, <3>1, <3>3
      <4>2. k \in 1..Len(calls') /\ calls'[k] = calls[k]
        BY <3>1, <3>2, <4>1
      <4>3. QED
        BY <3>3, <4>2
    <3>4. CASE listed.ok => path = listed.folder
      BY <2>1, <3>4 DEF Matches
    <3>5. QED
      BY <3>3, <3>4 DEF PanelInv, Matches
  <2>3. QED
    BY <1>1, <2>1, <2>2, Ends
<1>6. QED
  BY <1>3, <1>4, <1>5

\* A run of the queue starts, refreshes the panel and ends.
LEMMA RunKeeps ==
  ASSUME PanelInv, Run
  PROVE  PanelInv'
<1>1. /\ path \in Paths /\ running \in BOOLEAN /\ clicks \in 0..MaxClicks
      /\ Locked \in [nav : BOOLEAN, add : BOOLEAN]
  BY DEF PanelInv, TypeInv, Locked
<1>2. \A kind \in {"refresh", "run"}, asked \in Paths : Handler(Call(kind, asked, <<>>), queue)
  <2> TAKE kind \in {"refresh", "run"}, asked \in Paths
  <2>1. <<>> \in Seq(Nat) /\ kind # "upload" /\ kind \in {"refresh", "download", "upload", "run"}
    OBVIOUS
  <2>2. QED
    BY <2>1, NewHandler
<1>3. <<>> \in Paths
  BY PanelAssumption DEF Paths
<1>4. CASE Start
  <2> DEFINE c == Call("run", <<>>, <<>>)
  <2>1. /\ Push(c) /\ running' = TRUE /\ locks' = Locked
        /\ UNCHANGED <<path, rows, listed, queue, clicks>>
    BY <1>4 DEF Start, picked
  <2>2. Handler(c, queue)
    BY <1>2, <1>3
  <2> HIDE DEF c
  <2>3. running' \in BOOLEAN /\ clicks' \in 0..MaxClicks /\ UNCHANGED <<path, listed, rows, queue>>
    BY <1>1, <2>1
  <2>4. QED
    BY <1>1, <2>1, <2>2, <2>3, Pushes
<1>5. CASE RunRefreshes
  <2> DEFINE c == Call("refresh", path, <<>>)
  <2>1. /\ Push(c) /\ locks' = Locked
        /\ UNCHANGED <<path, rows, running, listed, queue, clicks>>
    BY <1>5 DEF RunRefreshes, picked
  <2>2. Handler(c, queue)
    BY <1>1, <1>2
  <2> HIDE DEF c
  <2>3. running' \in BOOLEAN /\ clicks' \in 0..MaxClicks /\ UNCHANGED <<path, listed, rows, queue>>
    BY <1>1, <2>1
  <2>4. QED
    BY <1>1, <2>1, <2>2, <2>3, Pushes
<1>6. CASE FinishRun
  <2> DEFINE c == Call("refresh", path, <<>>)
  <2>1. /\ ~Idle /\ Continue(c) /\ running' = FALSE /\ locks' = Locked
        /\ UNCHANGED <<path, rows, listed, queue, clicks>>
    BY <1>6 DEF FinishRun, picked
  <2>2. Handler(c, queue) /\ c.kind = "refresh"
    BY <1>1, <1>2 DEF Call
  <2> HIDE DEF c
  <2>3. /\ queue' \in Seq(Items) /\ Keeps(queue, queue') /\ Ordered(queue')
        /\ Handler(c, queue')
    BY <2>1, <2>2, Before
  <2>4. running' \in BOOLEAN /\ UNCHANGED <<path, listed, rows, clicks>>
    BY <2>1
  <2>5. QED
    BY <1>1, <2>1, <2>2, <2>3, <2>4, Continues
<1>7. QED
  BY <1>4, <1>5, <1>6 DEF Run
-----------------------------------------------------------------------------
(***************************************************************************)
(* The invariant and what follows from it.                                 *)
(***************************************************************************)

\* The panel as it opens.
LEMMA PanelOpens ==
  ASSUME Init
  PROVE  PanelInv
<1>1. /\ path = Home /\ rows = Listing(Home) /\ calls = <<>> /\ running = FALSE
      /\ locks = Unlocked /\ queue = <<>> /\ clicks = 0
      /\ listed = [folder |-> Home, ok |-> TRUE]
  BY DEF Init
<1>2. Home \in Paths /\ MaxCalls \in Nat /\ MaxClicks \in Nat
  BY PanelAssumption DEF Paths
<1>3. rows \in Seq(Entries)
  BY <1>1, Listed
<1>4. TypeInv
  <2>1. Len(calls) = 0 /\ queue \in Seq(Items)
    BY <1>1
  <2>2. clicks \in 0..MaxClicks /\ Len(calls) <= MaxCalls
    BY <1>1, <1>2, <2>1
  <2>3. /\ locks \in [nav : BOOLEAN, add : BOOLEAN]
        /\ listed \in [folder : Paths, ok : BOOLEAN]
    BY <1>1, <1>2 DEF Unlocked
  <2>4. QED
    BY <1>1, <1>2, <1>3, <2>1, <2>2, <2>3 DEF TypeInv
<1>5. Stack(calls, queue)
  BY <1>1 DEF Stack
<1>6. Matches
  BY <1>1 DEF Matches
<1>7. ParentFirst
  BY <1>1 DEF ParentFirst
<1>8. QED
  BY <1>4, <1>5, <1>6, <1>7 DEF PanelInv

\* The panel after a step.
LEMMA PanelSteps ==
  ASSUME PanelInv, [Next]_vars
  PROVE  PanelInv'
<1>1. CASE Navigate
  BY <1>1, NavigateKeeps
<1>2. CASE Select
  BY <1>2, SelectKeeps
<1>3. CASE Work
  BY <1>3, RowKeeps, EndKeeps, RemoteFolderKeeps, LocalFolderKeeps DEF Work
<1>4. CASE Run
  BY <1>4, RunKeeps
<1>5. CASE UNCHANGED vars
  <2>1. UNCHANGED <<path, rows, calls, running, locks, queue, clicks, listed>>
    BY <1>5 DEF vars
  <2>2. TypeInv'
    BY <2>1 DEF PanelInv, TypeInv
  <2>3. Stack(calls', queue')
    BY <2>1, Before
  <2>4. Matches'
    BY <2>1 DEF PanelInv, Matches
  <2>5. ParentFirst'
    BY <2>1, Before, OrderedNext
  <2>6. QED
    BY <2>2, <2>3, <2>4, <2>5 DEF PanelInv
<1>6. QED
  BY <1>1, <1>2, <1>3, <1>4, <1>5 DEF Next

\* The invariant, of every behaviour.
THEOREM PanelKept == Spec => []PanelInv
<1>1. Init => PanelInv
  BY PanelOpens
<1>2. PanelInv /\ [Next]_vars => PanelInv'
  BY PanelSteps
<1>3. QED
  BY <1>1, <1>2, PTL DEF Spec

\* Rows are entries of the server; paths, handlers and statuses are of their
\* kinds.
THEOREM PanelTypes == Spec => []TypeOK
<1>1. PanelInv => TypeOK
  <2> SUFFICES ASSUME PanelInv PROVE TypeOK
    OBVIOUS
  <2>1. \A k \in DOMAIN rows : rows[k] \in DOMAIN Server
    <3>1. DOMAIN rows = 1..Len(rows) /\ rows \in Seq(Entries)
      BY DEF PanelInv, TypeInv
    <3>2. \A k \in 1..Len(rows) : rows[k] \in Entries
      BY <3>1, ElementOfSeq
    <3>3. QED
      BY <3>1, <3>2 DEF Entries
  <2>2. \A k \in DOMAIN calls : calls[k] \in Calls
    BY Before, ElementOfSeq
  <2>3. \A k \in DOMAIN queue : queue[k] \in Items
    BY Before, ElementOfSeq
  <2>4. Len(path) <= MaxLength
    BY DEF PanelInv, TypeInv, Paths
  <2>5. \A k \in DOMAIN calls :
          /\ calls[k].kind \in {"refresh", "download", "upload", "run"}
          /\ calls[k].waits \in BOOLEAN /\ calls[k].issue \in BOOLEAN
    BY <2>2 DEF Calls
  <2>6. \A k \in DOMAIN queue : queue[k].status \in {"Pending", "Failed"}
    BY <2>3 DEF Items
  <2>7. QED
    BY <2>1, <2>4, <2>5, <2>6 DEF TypeOK, PanelInv, TypeInv
<1>2. QED
  BY <1>1, PanelKept, PTL

\* When no handler is left, the path is the folder of the rows, if the last
\* listing was one: however the listings and the clicks in them overlapped.
THEOREM RowsFollowPath == Spec => []RowsMatchPath
<1>1. PanelInv => RowsMatchPath
  BY DEF PanelInv, Matches, RowsMatchPath, Idle
<1>2. QED
  BY <1>1, PanelKept, PTL

\* Every file and folder that a scan queued comes after its folder, for any
\* trees, any order of the listings and any folders that cannot be listed.
THEOREM FoldersComeFirst == Spec => []ParentFirst
<1>1. PanelInv => ParentFirst
  BY DEF PanelInv
<1>2. QED
  BY <1>1, PanelKept, PTL

\* A click's scans count no more than the limit, but for the folders selected
\* for an upload.
THEOREM LimitKept == Spec => []WithinLimit
<1>1. PanelInv => WithinLimit
  <2> SUFFICES ASSUME PanelInv, NEW k \in DOMAIN calls
               PROVE  calls[k].count <= MaxScanned
                        + (IF calls[k].kind = "upload" THEN Cardinality(calls[k].scanned) ELSE 0)
    BY DEF WithinLimit
  <2>1. k \in 1..Len(calls)
    BY Before
  <2>2. QED
    BY <2>1 DEF PanelInv, Stack, Handler, Counts
<1>2. QED
  BY <1>1, PanelKept, PTL

\* A click without a report has queued every file of the folders it scanned.
THEOREM StoppedScansAreReported == Spec => []WholeOrReported
<1>1. PanelInv => WholeOrReported
  <2> SUFFICES ASSUME PanelInv, NEW k \in DOMAIN calls, ~calls[k].issue,
                      NEW folder \in calls[k].scanned, NEW p \in Below(Side(calls[k]), folder),
                      Side(calls[k])[p] = "file"
               PROVE  \E j \in DOMAIN queue :
                        queue[j].source = p /\ queue[j].direction \in {"Download", "Upload"}
    BY Zenon DEF WholeOrReported, Side
  <2>1. k \in 1..Len(calls) /\ DOMAIN queue = 1..Len(queue)
    BY Before
  <2>2. Whole(calls[k], queue)
    BY <2>1 DEF PanelInv, Stack, Handler
  <2>3. Holds(queue, p)
    BY <2>2 DEF Whole
  <2>4. QED
    BY <2>1, <2>3 DEF Holds
<1>2. QED
  BY <1>1, PanelKept, PTL
=============================================================================
