------------------------------ MODULE FileTree ------------------------------
(* What a file image's manifest is turned into: a restored tree, entry by   *)
(* entry and then its metadata, or the read-only view the FUSE mount        *)
(* serves. The manifest is decoded from its sections first.                 *)
(*                                                                          *)
(* A path is a sequence of names, <<>> the root. A manifest is a function   *)
(* from paths to entries; an object of the target carries the path that     *)
(* created it as its inode, which its hard links share.                     *)
EXTENDS Integers, Sequences, FiniteSets, TLC, SequencesExt, FiniteSetsExt

CONSTANTS
    Order,      \* every path of a manifest, in byte order
    Manifests,  \* the manifests an image can hold, sound or not
    Targets,    \* what the target directory can hold before
    Chunk,      \* the bytes of every chunk a member stores
    Page,       \* directory entries a reply buffer can hold
    MaxRefused  \* bound on the metadata the target's file system refuses

TreeAssumption == Page \in SUBSET (Nat \ {0}) /\ Page # {} /\ MaxRefused \in Nat

None == "none"
Now == 0   \* the mtime of what the restore itself touched
\* A new object: the restore's user owns it and may do everything.
NewObject(p, type, data) == [type |-> type, ino |-> p, data |-> data,
                             mode |-> "rwx", owner |-> "me", mtime |-> Now, extra |-> None]

VARIABLES
    manifest,   \* what was backed up
    sections,   \* the manifest stream
    records,    \* what reading it gave
    root,       \* may chown, mknod and pass every directory
    merge,      \* --merge
    strict,     \* --strict-metadata
    target,     \* objects below the target directory, <<>> itself included
    before,     \* history: the target as it was
    losses,     \* reported: <<path, what could not be applied>>
    warned,     \* special files whose metadata was given up with a warning
    todo,       \* entries still to restore or to give their metadata
    nodes,      \* the view's nodes
    cache,      \* the view's file contents
    listing,    \* a directory being listed: node, offset, names so far
    pc

mountVars == <<nodes, cache, listing>>
restoreVars == <<target, losses, warned, todo>>
inputVars == <<manifest, root, merge, strict, before>>
vars == <<manifest, sections, records, root, merge, strict, target, before, losses, warned, todo,
          nodes, cache, listing, pc>>

-----------------------------------------------------------------------------
(* The manifest stream: per entry one section with its first references,    *)
(* continuations up to the declared total, and its holes if it has any.     *)

Section(p, e, here) == [kind |-> "entry", path |-> p, entry |-> e, refs |-> here,
                        total |-> Len(e.refs)]

\* `write_record`, and the same with the references continued after the
\* first, which readers accept.
WriteRecord(p, e, split) ==
    (IF split /\ Len(e.refs) > 1
       THEN <<Section(p, e, SubSeq(e.refs, 1, 1)),
              [kind |-> "continuation", refs |-> Tail(e.refs)]>>
       ELSE <<Section(p, e, e.refs)>>)
    \o (IF e.holes # <<>> THEN <<[kind |-> "holes", holes |-> e.holes]>> ELSE <<>>)

WriteManifest(m, split) ==
    FoldLeft(LAMBDA s, p : s \o WriteRecord(p, m[p], split), <<>>,
             SelectSeq(Order, LAMBDA p : p \in DOMAIN m))

\* One section read into the records so far: `last` is the entry that
\* continuations and holes belong to, `open` the references it still misses,
\* negative once the stream is corrupt.
ReadSection(s, r) ==
    CASE s.kind = "entry" /\ r.open = 0 /\ Len(s.refs) <= s.total ->
           [done |-> (s.path :> [s.entry EXCEPT !.refs = s.refs, !.holes = <<>>]) @@ r.done,
            last |-> s.path, open |-> s.total - Len(s.refs)]
      [] s.kind = "continuation" /\ r.open > 0 /\ Len(s.refs) \in 1 .. r.open ->
           [r EXCEPT !.done[r.last].refs = @ \o s.refs, !.open = @ - Len(s.refs)]
      [] s.kind = "holes" /\ r.open = 0 /\ DOMAIN r.done # {} ->
           [r EXCEPT !.done[r.last].holes = @ \o s.holes]
      [] OTHER -> [r EXCEPT !.open = -1]

ReadManifest(ss) ==
    FoldLeft(LAMBDA r, s : ReadSection(s, r),
             [done |-> [p \in {} |-> None], last |-> <<>>, open |-> 0], ss)

-----------------------------------------------------------------------------
Init ==
    /\ manifest \in Manifests
    /\ \E split \in BOOLEAN : sections = WriteManifest(manifest, split)
    /\ records = [p \in {} |-> None]
    /\ root \in BOOLEAN /\ merge \in BOOLEAN /\ strict \in BOOLEAN
    /\ target \in Targets /\ before = target
    /\ losses = {} /\ warned = {} /\ todo = <<>>
    /\ nodes = <<>> /\ cache = [n \in {} |-> None] /\ listing = {}
    /\ pc \in {"restore"} \cup (IF root /\ merge /\ strict THEN {"mount"} ELSE {})

Fail == pc' = "failed" /\ UNCHANGED <<inputVars, sections, records, restoreVars, mountVars>>

ReadRecords(there) ==
    IF ReadManifest(sections).open # 0 THEN Fail
    ELSE /\ records' = ReadManifest(sections).done /\ pc' = there
         /\ UNCHANGED <<inputVars, sections, restoreVars, mountVars>>

BeginRestore == pc = "restore" /\ ReadRecords("plan")

Kind(r, p) == r[p].kind
Regular(r) == {p \in DOMAIN r : Kind(r, p) = "file"}
Parent(p) == Front(p)
\* What FILE_KIND_SPECIAL stands for; only root may make a device.
Special == {"fifo", "device"}

\* `validate_tree_records`: paths are plain, and everything lies below a
\* directory of the image.
NormalComponents(p) == \A i \in DOMAIN p : p[i] \notin {"", ".", ".."}
ValidateTree(r) ==
    \A p \in DOMAIN r :
        /\ NormalComponents(p)
        /\ Len(p) > 1 => Parent(p) \in DOMAIN r /\ Kind(r, Parent(p)) = "dir"

\* `plan::file_tree`: holes lie inside regular files, in order, and a hard
\* link's group has a file.
HolesInOrder(e) ==
    \A i \in DOMAIN e.holes :
        /\ e.holes[i][2] > 0 /\ e.holes[i][1] + e.holes[i][2] <= e.size
        /\ i > 1 => e.holes[i - 1][1] + e.holes[i - 1][2] <= e.holes[i][1]

FileTreePlan(r) ==
    /\ ValidateTree(r)
    /\ \A p \in DOMAIN r : r[p].holes # <<>> => Kind(r, p) = "file" /\ HolesInOrder(r[p])
    /\ \A p \in DOMAIN r : Kind(r, p) = "link" =>
         \E q \in Regular(r) : r[q].group = r[p].group /\ r[q].group # 0

\* `prepare_target`: an existing target is an empty directory, or merged
\* into. {} is an error here and below.
PrepareTarget(t) ==
    IF <<>> \notin DOMAIN t THEN {<<>> :> NewObject(<<>>, "dir", <<>>)}
    ELSE IF t[<<>>].type = "dir" /\ (merge \/ DOMAIN t = {<<>>}) THEN {t} ELSE {}

\* Directories, then files, then special files and symbolic links, then
\* hard links; each in byte order.
Rank(kind) == CASE kind = "dir" -> 0 [] kind = "file" -> 1
                [] kind \in Special \cup {"symlink"} -> 2 [] OTHER -> 3

Ordered(r) ==
    FlattenSeq([k \in 1 .. 4 |->
        SelectSeq(Order, LAMBDA p : p \in DOMAIN r /\ Rank(Kind(r, p)) = k - 1)])

Prepare ==
    /\ pc = "plan"
    /\ IF ~FileTreePlan(records) \/ PrepareTarget(target) = {} THEN Fail
       ELSE /\ target' \in PrepareTarget(target) /\ todo' = Ordered(records) /\ pc' = "create"
            /\ UNCHANGED <<inputVars, sections, records, losses, warned, mountVars>>

-----------------------------------------------------------------------------
(* `RestoreRoot`: a path is reached through its parents, none of which is   *)
(* a symbolic link or, for an unprivileged restore, closed.                 *)
Reachable(t, p) ==
    \A k \in 0 .. Len(p) - 1 : LET d == SubSeq(p, 1, k) IN
        d \in DOMAIN t /\ t[d].type = "dir" /\ (root \/ t[d].mode = "rwx")

\* Parents that are missing are made; one that is no directory is refused.
EnsureDirs(t, p) ==
    FoldLeft(LAMBDA a, k : LET d == SubSeq(p, 1, k) IN
                 IF d \in DOMAIN a THEN a
                 ELSE a @@ (d :> NewObject(d, "dir", <<>>)),
             t, [i \in 1 .. Len(p) - 1 |-> i])

Below(t, p) == {q \in DOMAIN t : Len(q) >= Len(p) /\ SubSeq(q, 1, Len(p)) = p}

\* An entry made or removed gives its directory a new mtime.
Bumped(t, p) == [t EXCEPT ![Parent(p)].mtime = Now]

RemoveExisting(t, p) ==
    IF p \in DOMAIN t THEN Bumped([q \in DOMAIN t \ Below(t, p) |-> t[q]], p) ELSE t

Make(t, p, type, data) ==
    {Bumped((p :> NewObject(p, type, data)) @@ RemoveExisting(t, p), p)}

-----------------------------------------------------------------------------
(* The content of a regular file: its chunks in order, without the bytes    *)
(* its holes cover, which must be zeros.                                    *)
BytesOf(refs) == FlattenSeq([i \in DOMAIN refs |-> Chunk[refs[i]]])

InHole(holes, b) == \E i \in DOMAIN holes : b \in holes[i][1] .. holes[i][1] + holes[i][2] - 1

HolesHoldZeros(e) ==
    \A b \in 1 .. Len(BytesOf(e.refs)) : InHole(e.holes, b - 1) => BytesOf(e.refs)[b] = 0

\* `write_skipping_holes`: the positions of offset .. end - 1 that are
\* written, going from hole to hole.
WriteSkippingHoles(offset, end, holes) ==
    LET hit(p) == {i \in DOMAIN holes : holes[i][1] + holes[i][2] > p}
        from[p \in offset .. end] ==
          IF p = end THEN {}
          ELSE IF hit(p) = {} \/ holes[Min(hit(p))][1] >= end THEN p .. end - 1
          ELSE LET h == holes[Min(hit(p))] IN
               IF p < h[1] THEN (p .. h[1] - 1) \cup from[Min({h[1], end})]
               ELSE from[Min({h[1] + h[2], end})]
    IN  from[offset]

\* The bytes of a file after its chunks were written: what no write covered
\* reads as zeros.
Written(e) ==
    LET start(i) == Len(BytesOf(SubSeq(e.refs, 1, i - 1)))
        covered == UNION {WriteSkippingHoles(start(i), start(i) + Len(Chunk[e.refs[i]]), e.holes) :
                            i \in DOMAIN e.refs}
    IN  [b \in 1 .. e.size |-> IF b - 1 \in covered THEN BytesOf(e.refs)[b] ELSE 0]

\* The first path of a hard link group; a file of group 0 has no other name.
GroupPath(r, g) ==
    SelectSeq(Order, LAMBDA p : /\ p \in DOMAIN r /\ Kind(r, p) = "file"
                                /\ r[p].group = g /\ g # 0)[1]

\* `restore_entry` on the target, or {} when it returns an error.
RestoreEntry(t0, p) ==
    LET e == records[p]  t == EnsureDirs(t0, p) IN
    IF ~Reachable(t, p) THEN {}
    ELSE
    CASE e.kind = "dir" -> IF p \in DOMAIN t /\ t[p].type = "dir" THEN {t}
                           ELSE Make(t, p, "dir", <<>>)
      [] e.kind = "symlink" -> Make(t, p, "symlink", e.refs)
      [] e.kind \in Special -> IF root \/ e.kind = "fifo" THEN Make(t, p, e.kind, <<>>) ELSE {}
      [] e.kind = "link" ->
           LET first == GroupPath(records, e.group) IN
           IF first \notin DOMAIN t THEN {}
           ELSE {Bumped((p :> t[first]) @@ RemoveExisting(t, p), p)}
      [] OTHER ->
           IF /\ \A i \in DOMAIN e.refs : e.refs[i] \in DOMAIN Chunk
              /\ HolesHoldZeros(e) /\ Len(BytesOf(e.refs)) = e.size
           THEN Make(t, p, "file", Written(e)) ELSE {}

-----------------------------------------------------------------------------
(* `apply_metadata`: ownership, mode, times, then the ACL and the xattrs.   *)

\* What an entry has to be given; a symbolic link has no mode.
Metadata(e) == {"owner", "times"} \cup (IF e.kind = "symlink" THEN {} ELSE {"mode"})
                                 \cup (IF e.extra = None THEN {} ELSE {"extra"})
MayOwn(e, done) == "owner" \in done => root \/ e.owner = "me"

\* It returns normally: what was refused, of all but the mode, is a loss.
Complete(e) == {done \in SUBSET Metadata(e) :
                  MayOwn(e, done) /\ ("mode" \in Metadata(e) => "mode" \in done)}

\* It returns an error: lchown's, that of opening the entry or of its chmod, or an
\* xattr's; what came before is done or lost.
Stopped(e) ==
    {[done |-> {}, lost |-> {}]}
    \cup {[done |-> d, lost |-> {"owner"} \ d] : d \in {d \in {{}, {"owner"}} : MayOwn(e, d)}}
    \cup (IF e.extra = None THEN {}
          ELSE {[done |-> d \ {"extra"}, lost |-> Metadata(e) \ (d \cup {"extra"})] : d \in Complete(e)})

Apply(t, p, done) ==
    LET e == records[p]  given(what, new, old) == IF what \in done THEN new ELSE old IN
    [q \in DOMAIN t |->
       IF t[q].ino # t[p].ino THEN t[q]
       ELSE [t[q] EXCEPT !.owner = given("owner", e.owner, @), !.mode = given("mode", e.mode, @),
                         !.mtime = given("times", e.mtime, @), !.extra = given("extra", e.extra, @)]]

\* One entry; the root only gets its metadata, and its losses wait for the
\* metadata pass.
Create ==
    /\ pc = "create" /\ todo # <<>>
    /\ LET p == Head(todo) IN
       target' \in IF p = <<>> THEN {Apply(target, p, done) : done \in Complete(records[p])}
                   ELSE RestoreEntry(target, p)
    /\ todo' = Tail(todo)
    /\ UNCHANGED <<inputVars, sections, records, losses, warned, mountVars, pc>>

\* An entry that cannot be restored, an error of the target or a cancellation:
\* its parents may be made by then, and what was in its place removed.
CreateFails ==
    /\ pc = "create" /\ todo # <<>>
    /\ LET p == Head(todo)  t == EnsureDirs(target, p) IN
       target' \in {target} \cup
         (IF p # <<>> /\ Reachable(t, p) THEN {t, RemoveExisting(t, p)} ELSE {})
    /\ pc' = "failed"
    /\ UNCHANGED <<inputVars, sections, records, losses, warned, todo, mountVars>>

\* `deepest_first`: by the number of separators, then backwards.
Depth(p) == IF p = <<>> THEN 0 ELSE Len(p) - 1

DeepestFirstButRoot(r) ==
    FlattenSeq([k \in 1 .. 3 |->
        Reverse(SelectSeq(Order, LAMBDA p : p \in DOMAIN r \ {<<>>} /\ Depth(p) = 3 - k))])

DeepestFirst(r) ==
    FlattenSeq([k \in 1 .. 3 |->
        Reverse(SelectSeq(Order, LAMBDA p : p \in DOMAIN r /\ Depth(p) = 3 - k))])

Created ==
    /\ pc = "create" /\ todo = <<>>
    /\ todo' = DeepestFirst(records) /\ pc' = "metadata"
    /\ UNCHANGED <<inputVars, sections, records, target, losses, warned, mountVars>>

\* What is refused for other reasons than its owner's is bounded.
Refused(ls) == Cardinality({l \in ls : l[2] # "owner"}) <= MaxRefused

ApplyMetadata ==
    /\ pc = "metadata" /\ todo # <<>>
    /\ LET p == Head(todo)  e == records[p] IN
       /\ Reachable(target, p)
       /\ \E done \in Complete(e) :
            /\ target' = Apply(target, p, done)
            /\ losses' = losses \cup {<<p, what>> : what \in Metadata(e) \ done}
    /\ Refused(losses') /\ todo' = Tail(todo)
    /\ UNCHANGED <<inputVars, sections, records, warned, mountVars, pc>>

\* An error, as that of an entry that cannot be reached, ends the restore; a
\* special file's is a warning.
MetadataFails ==
    /\ pc = "metadata" /\ todo # <<>>
    /\ LET p == Head(todo)  e == records[p] IN
       /\ \E stop \in IF Reachable(target, p) THEN Stopped(e) ELSE {[done |-> {}, lost |-> {}]} :
            /\ target' = IF stop.done = {} THEN target ELSE Apply(target, p, stop.done)
            /\ losses' = losses \cup {<<p, what>> : what \in stop.lost}
       /\ IF e.kind \in Special
          THEN warned' = warned \cup {p} /\ todo' = Tail(todo) /\ pc' = pc
          ELSE pc' = "failed" /\ UNCHANGED <<warned, todo>>
    /\ UNCHANGED <<inputVars, sections, records, mountVars>>

\* --strict-metadata refuses losses; then syncfs, which may fail.
Finish ==
    /\ pc = "metadata" /\ todo = <<>>
    /\ pc' \in {"failed"} \cup (IF strict /\ losses # {} THEN {} ELSE {"done"})
    /\ UNCHANGED <<inputVars, sections, records, restoreVars, mountVars>>

-----------------------------------------------------------------------------
(* The FUSE view: a node for every entry that is not a hard link, then a    *)
(* name in its directory for every hard link.                               *)

BeginMount == pc = "mount" /\ ReadRecords("open")

Own(r) == SelectSeq(Order, LAMBDA p : p \in DOMAIN r /\ p # <<>> /\ Kind(r, p) # "link")
InoOf(r, p) == IF p = <<>> THEN 1
               ELSE IF p \in Range(Own(r)) THEN 1 + CHOOSE i \in DOMAIN Own(r) : Own(r)[i] = p
               ELSE 0
GroupIno(r, g) == Max({0} \cup {InoOf(r, p) : p \in {q \in DOMAIN r : Kind(r, q) # "link"
                                                                 /\ r[q].group = g /\ g # 0}})
NameIno(r, p) == IF Kind(r, p) = "link" THEN GroupIno(r, r[p].group) ELSE InoOf(r, p)

\* An entry whose parent has no entry, and a link without its file, are
\* refused.
ViewOpens(r) ==
    \A p \in DOMAIN r \ {<<>>} :
        (Parent(p) = <<>> \/ InoOf(r, Parent(p)) > 0) /\ NameIno(r, p) > 0

NodeOf(r, p) ==
    LET ino == InoOf(r, p) IN
    [ino |-> ino, parent |-> IF p = <<>> THEN 1 ELSE InoOf(r, Parent(p)), path |-> p,
     dir |-> p = <<>> \/ Kind(r, p) = "dir",
     children |-> LET c == {q \in DOMAIN r : q # <<>> /\ Parent(q) = p} IN
                  [n \in {Last(q) : q \in c} |-> NameIno(r, Append(p, n))],
     links |-> Cardinality({q \in DOMAIN r : NameIno(r, q) = ino})]

OpenView ==
    /\ pc = "open"
    /\ IF ~ViewOpens(records) THEN Fail
       ELSE /\ nodes' = [i \in 1 .. Len(Own(records)) + 1 |->
                           NodeOf(records, IF i = 1 THEN <<>> ELSE Own(records)[i - 1])]
            /\ pc' = "serve"
            /\ UNCHANGED <<inputVars, sections, records, restoreVars, cache, listing>>

\* `content_of`: the chunks of a file, cut at its size; a missing chunk is
\* an error of the read and nothing is cached.
ContentOf(n) ==
    LET e == records[nodes[n].path] IN
    IF \A i \in DOMAIN e.refs : e.refs[i] \in DOMAIN Chunk
    THEN {SubSeq(BytesOf(e.refs), 1, Min({e.size, Len(BytesOf(e.refs))}))} ELSE {}

Read(n) ==
    /\ pc = "serve" /\ n \notin DOMAIN cache
    /\ ~nodes[n].dir /\ Kind(records, nodes[n].path) = "file"
    /\ \E bytes \in ContentOf(n) : cache' = cache @@ (n :> bytes)
    /\ UNCHANGED <<inputVars, sections, records, restoreVars, nodes, listing, pc>>

\* `readdir`: ".", ".." and the children in byte order, from the offset the
\* kernel gives back until the reply is full.
Names(n) ==
    <<".", "..">> \o SelectSeq([i \in DOMAIN Order |-> IF Order[i] = <<>> THEN "" ELSE Last(Order[i])],
                               LAMBDA x : x \in DOMAIN nodes[n].children)

DirPage(n, offset, size) == SubSeq(Names(n), offset + 1, Min({offset + size, Len(Names(n))}))

ReadDir(n, size) ==
    /\ pc = "serve" /\ nodes[n].dir
    /\ LET open == {l \in listing : l.node = n}
           at == IF open # {} THEN CHOOSE l \in open : TRUE
                 ELSE [node |-> n, offset |-> 0, names |-> <<>>, end |-> FALSE]
           page == DirPage(n, at.offset, size)
       IN  /\ ~at.end
           /\ listing' = {[at EXCEPT !.offset = @ + Len(page), !.names = @ \o page,
                                     !.end = page = <<>>]}
    /\ UNCHANGED <<inputVars, sections, records, restoreVars, nodes, cache, pc>>

Next ==
    \/ BeginRestore \/ Prepare \/ Create \/ CreateFails \/ Created
    \/ ApplyMetadata \/ MetadataFails \/ Finish
    \/ BeginMount \/ OpenView
    \/ \E n \in DOMAIN nodes : Read(n) \/ \E size \in Page : ReadDir(n, size)

Spec == Init /\ [][Next]_vars

-----------------------------------------------------------------------------
\* A restore that succeeds made every entry what was backed up: its kind, its
\* bytes, its mode, its times, those of directories included although their
\* entries were made after them, its owner and its ACL and xattrs; the names
\* of a hard link group, and only they, are one file. Times, owner, ACL and
\* xattrs may be missing where the report says so, and nowhere with
\* --strict-metadata; the metadata of a special file may be where a warning
\* names it, even then.
RestoredIsRecorded ==
    pc = "done" => \A p \in DOMAIN manifest :
        LET e == manifest[p]  o == target[p]
            first == IF e.kind = "link" THEN GroupPath(manifest, e.group) ELSE p
            excused(what) == \/ <<p, what>> \in losses /\ ~strict
                             \/ p \in warned /\ e.kind \in Special
        IN  /\ p \in DOMAIN target
            /\ o.ino = first \/ e.kind = "dir"
            /\ o.type = manifest[first].kind
            /\ o.type = "file" => o.data = BytesOf(manifest[first].refs)
            /\ o.mode = e.mode \/ excused("mode")
            /\ o.mtime = e.mtime \/ excused("times")
            /\ o.owner = e.owner \/ excused("owner")
            /\ o.extra = e.extra \/ excused("extra")

\* A manifest that is refused leaves the target as it was: nothing is
\* written before the whole plan is checked.
RefusedWritesNothing ==
    pc = "failed" /\ ~FileTreePlan(manifest) => target = before

\* The view shows what was backed up: every path leads to its entry, hard
\* links to their file with all its names counted, file contents are the
\* backed up bytes, and a directory listed page by page gives each name once
\* (of plain names: ImageView::open does not check them).
ViewIsRecorded ==
    pc = "serve" =>
        /\ \A p \in DOMAIN manifest \ {<<>>} :
             LET n == nodes[InoOf(records, Parent(p))].children[Last(p)]
                 shown == manifest[nodes[n].path]
             IN  IF Kind(manifest, p) = "link"
                 THEN shown.group = manifest[p].group /\ shown.kind = "file"
                      /\ nodes[n].links = Cardinality({q \in DOMAIN manifest :
                                            manifest[q].group = shown.group})
                 ELSE nodes[n].path = p
        /\ \A n \in DOMAIN cache : cache[n] = BytesOf(manifest[nodes[n].path].refs)
        /\ \A l \in {l \in listing : l.end /\ \A p \in DOMAIN manifest : NormalComponents(p)} :
             /\ \A x, y \in DOMAIN l.names : l.names[x] = l.names[y] => x = y
             /\ Range(l.names) = {".", ".."} \cup DOMAIN nodes[l.node].children
=============================================================================
