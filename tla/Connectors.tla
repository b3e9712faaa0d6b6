----------------------------- MODULE Connectors -----------------------------
(***************************************************************************)
(* How a connector reads its source and what it makes of it                *)
(* (read/connectors/{files,nextcloud,pipeshub}.py, identity/groups.py).    *)
(* ConnectorSync takes a snapshot in one step; here a snapshot is the      *)
(* several reads it really is, and the source may change between them.     *)
(*                                                                         *)
(* A source is external: it is in one of the Worlds of its kind and may go *)
(* to any other.  A path is the sequence of its parts below the root.      *)
(* doc is the reference the id strategy gives a file; that two files get   *)
(* two references is assumed (the stem strategy leaves it to their names). *)
(***************************************************************************)
EXTENDS Naturals, Sequences, SequencesExt, Functions, Relation

CONSTANTS
  Worlds,     \* kind of connector to the states its source can be in
  Names,      \* the names that can be part of a reference
  PageSize

ASSUME ConnectorsAssumption == PageSize \in Nat \ {0}

(* At every instant a source is consistent: a path is one file or folder,  *)
(* and what it is in is there; every record is listed; every group has a   *)
(* list of members.  A folder of a manifest is below the root.             *)
ASSUME WorldsAssumption ==
  /\ DOMAIN Worlds \subseteq {"nextcloud", "files", "pipeshub", "keycloak"}
  /\ "nextcloud" \in DOMAIN Worlds => \A w \in Worlds["nextcloud"] :
       /\ \A e \in w.entries \cup w.shares : e.path \in Seq(STRING)
       /\ \A e, f \in w.entries : e.path = f.path => e = f
       /\ \A e \in w.entries : \A n \in 1 .. Len(e.path) - 1 :
            \E d \in w.entries : d.dir /\ d.path = SubSeq(e.path, 1, n)
  /\ "files" \in DOMAIN Worlds => \A w \in Worlds["files"] :
       /\ DOMAIN w.manifest.folders \subseteq Seq(STRING) \ {<< >>}
       /\ \A file \in w.tree : file.path \in Seq(STRING) \ {<< >>}
  /\ "pipeshub" \in DOMAIN Worlds => \A w \in Worlds["pipeshub"] :
       w.list \in Seq(STRING) /\ DOMAIN w.record \subseteq ToSet(w.list)
  /\ "keycloak" \in DOMAIN Worlds => \A w \in Worlds["keycloak"] :
       /\ w.top \in Seq(STRING)
       /\ w.members \in [DOMAIN w.group -> Seq([name : STRING, enabled : BOOLEAN])]

VARIABLES
  connector,  \* its kind
  source,     \* the source as it is
  read,       \* the snapshot call: where it is and what it has read
  tuples,     \* the snapshot it returned
  ever,       \* history: the grants that held at some instant of the read
  changed, moved  \* history: the source changed during the read; so did its layout

connectorVars == <<connector, source, read, tuples, ever, changed, moved>>

Source(name)   == <<"source", name>>
Document(name) == <<"document", name>>
Group(name)    == <<"group", name>>
Person(name)   == <<"user", name>>

(* What tuples let somebody do: directly, or by the parent of a document.  *)
Grants(T) ==
  {t \in T : t[2] # "parent" /\ t[3][1] # "source"} \cup
  UNION {{<<t[1], t[2], u[3]>> : u \in {u \in T : u[2] = "parent" /\ u[1] = t[3]}}
           : t \in {t \in T : t[2] # "parent"}}

-----------------------------------------------------------------------------
(* Nextcloud: one listing of the files, one of the shares.                 *)

(* _principal: who a share or an entry is for, if that can be a reference. *)
Principals(entry) ==
  IF entry.name \notin Names THEN {}
  ELSE CASE entry.type = "user" -> {Person(entry.name)}
         [] entry.type = "group" -> {Group(entry.name)}
         [] OTHER -> {}

ShareRelation(share) == IF share.update THEN "editor" ELSE "viewer"

Files(entries) == {e \in entries : ~e.dir /\ e.path # << >> /\ e.doc \in Names}

(* Mutant: a share on a deeper folder counts for the top folder.           *)
MutantSharedObjects(entries, path) ==
  {Source(e.path[1]) : e \in {e \in entries : e.dir /\ e.path # << >> /\ e.path = path}}
    \cup {Document(e.doc) : e \in {e \in Files(entries) : e.path = path}}

(* source_by_path and doc_by_path: a deeper folder is never guessed.       *)
SharedObjects(entries, path) ==
  {Source(e.path[1]) : e \in {e \in entries : e.dir /\ Len(e.path) = 1 /\ e.path = path}}
    \cup {Document(e.doc) : e \in {e \in Files(entries) : e.path = path}}

NextcloudTuples(entries, shares) ==
  {<<Source(e.path[1]), "parent", Document(e.doc)>> : e \in Files(entries)} \cup
  UNION {{<<p, ShareRelation(s), o>> : p \in Principals(s), o \in SharedObjects(entries, s.path)}
           : s \in shares}

(* What the source grants: a share covers all that is below its path.      *)
Covered(w, S) ==
  UNION {{<<p, ShareRelation(s), Document(e.doc)>> :
            p \in Principals(s), e \in {e \in Files(w.entries) : IsPrefix(s.path, e.path)}}
           : s \in S}

(* Shares on deeper folders are left out, knowingly (nextcloud.py:110).    *)
OnDeeperFolders(w) ==
  Covered(w, {s \in w.shares : Len(s.path) # 1 /\ \A e \in Files(w.entries) : e.path # s.path})

-----------------------------------------------------------------------------
(* Files: the manifest, then the tree.                                     *)

(* _nearest_folder, which pops one part after the other.                   *)
NearestFolder(path, folders) ==
  LET pop[n \in 0..Len(path)] ==
        IF n = 0 THEN << >>
        ELSE IF SubSeq(path, 1, n) \in DOMAIN folders THEN SubSeq(path, 1, n) ELSE pop[n - 1]
  IN  pop[Len(path) - 1]

Listed(spec, object) ==
  {<<p, "viewer", object>> : p \in spec.viewers} \cup {<<p, "editor", object>> : p \in spec.editors}

(* Mutant: a folder whose source is null leaves its files to the folder    *)
(* above.                                                                  *)
MutantFileParent(file, folders) ==
  LET f == NearestFolder(file.path, RestrictDomain(folders, LAMBDA p : folders[p].source # ""))
  IN  IF f = << >> THEN {} ELSE {<<Source(folders[f].source), "parent", Document(file.doc)>>}

(* The source "" is null in the manifest: its files have no parent.        *)
FileParent(file, folders) ==
  LET f == NearestFolder(file.path, folders)
  IN  IF f = << >> \/ folders[f].source = "" THEN {}
      ELSE {<<Source(folders[f].source), "parent", Document(file.doc)>>}

FilesTuples(manifest, tree) ==
  (UNION {Listed(manifest.folders[f], Source(manifest.folders[f].source)) :
            f \in {f \in DOMAIN manifest.folders : manifest.folders[f].source # ""}}) \cup
  UNION {FileParent(file, manifest.folders) \cup
           (IF file.path \in DOMAIN manifest.documents
            THEN Listed(manifest.documents[file.path], Document(file.doc)) ELSE {}) : file \in tree}

(* The sources of the deepest folder above a file that has an entry.       *)
Above(folders, file) == {f \in DOMAIN folders : IsStrictPrefix(f, file.path)}

SourcesOf(folders, file) ==
  {folders[f].source : f \in {f \in Above(folders, file) :
                                \A g \in Above(folders, file) : Len(g) <= Len(f)}} \ {""}

(* What the manifest grants: the list of a document, and the lists of the  *)
(* source its deepest folder with an entry has, if that is not null.       *)
ManifestGrants(w) ==
  (UNION {Listed(w.manifest.documents[file.path], Document(file.doc)) :
            file \in {file \in w.tree : file.path \in DOMAIN w.manifest.documents}}) \cup
  UNION {UNION {Listed(w.manifest.folders[f], Document(file.doc)) :
                  f \in {f \in DOMAIN w.manifest.folders :
                           w.manifest.folders[f].source \in SourcesOf(w.manifest.folders, file)}}
           : file \in w.tree}

-----------------------------------------------------------------------------
(* Lists that are read page by page, by position.                          *)

(* Mutant: the position moves one too far.                                 *)
MutantNextPage(first) == first + PageSize + 1

NextPage(first) == first + PageSize

Page(list, first) == SubSeq(list, first + 1, Min({first + PageSize, Len(list)}))

-----------------------------------------------------------------------------
(* PipesHub: the pages of the list of records, then each record.           *)

(* _relation                                                               *)
PermissionRelations(entry) ==
  CASE entry.relationship \in {"OWNER", "WRITER"} -> {"editor"}
    [] entry.relationship = "READER" -> {"viewer"}
    [] OTHER -> {}

(* default_principal_of: a user is known by the part of the name before    *)
(* the @, so that two of one local part are one user.                      *)
EntryPrincipals(entry) ==
  Principals(IF entry.type = "user" THEN [entry EXCEPT !.name = entry.local] ELSE entry)

EntryTuples(id, entry) ==
  {<<p, r, Document(id)>> : p \in EntryPrincipals(entry), r \in PermissionRelations(entry)}

RecordTuples(id, record) ==
  {<<Source(kb), "parent", Document(id)>> : kb \in {record.kb} \ {""}} \cup
  UNION {EntryTuples(id, entry) : entry \in record.permissions}

-----------------------------------------------------------------------------
(* Keycloak: the pages of groups, the children that were not in them, and  *)
(* the pages of members of every group.                                    *)

Came(w) == [x, y \in DOMAIN w.group |-> y \in w.group[x].inline]

ComesWith(w, g, h) == ReflexiveTransitiveClosure(Came(w), DOMAIN w.group)[g, h]

(* _flatten: a group and the subgroups that came with it, and with those.  *)
Flatten(w, g) == {h \in DOMAIN w.group : ComesWith(w, g, h)}

(* A group as it was listed: its path, and whether it has subgroups that   *)
(* were not.                                                               *)
ListedGroups(w, ids) ==
  {[id |-> h, path |-> w.group[h].path, lazy |-> w.group[h].inline = {} /\ w.group[h].lazy # {}]
     : h \in UNION {Flatten(w, g) : g \in ids}}

MemberTuples(members, path) ==
  {<<Person(m.name), "member", Group(path)>> :
     m \in {m \in ToSet(members) : m.enabled /\ m.name \in Names}}

(* What Keycloak says, for the groups in G.                                *)
Memberships(w, G) == UNION {MemberTuples(w.members[g], w.group[g].path) : g \in G}

(* The children of a child that had to be asked for are not asked for      *)
(* (groups.py:105).                                                        *)
BelowChildren(w) ==
  LET listed == UNION {Flatten(w, g) : g \in ToSet(w.top)}
      asked  == UNION {Flatten(w, c) : c \in UNION {w.group[g].lazy :
                         g \in {g \in listed : w.group[g].inline = {}}}}
  IN  DOMAIN w.group \ (listed \cup asked)

-----------------------------------------------------------------------------
(* What a source grants, and what its connector knowingly leaves out       *)

Granted(k, w) ==
  CASE k = "nextcloud" -> Covered(w, w.shares)
    [] k = "files"     -> ManifestGrants(w)
    [] k = "pipeshub"  -> Grants(UNION {RecordTuples(id, w.record[id]) : id \in DOMAIN w.record})
    [] k = "keycloak"  -> Memberships(w, DOMAIN w.group)

LeftOut(k, w) ==
  CASE k = "nextcloud" -> OnDeeperFolders(w)
    [] k = "keycloak"  -> Memberships(w, BelowChildren(w))
    [] OTHER -> {}

(* What a connector takes for fixed while it reads: which object is where. *)
Layout(k, w) ==
  CASE k = "nextcloud" -> w.entries
    [] k = "files"     -> w.tree
    [] k = "pipeshub"  -> {}
    [] k = "keycloak"  -> {<<g, w.group[g].path>> : g \in DOMAIN w.group}

-----------------------------------------------------------------------------
(* Reads                                                                   *)

Reads(r)   == read' = r /\ UNCHANGED <<tuples, connector, source, ever, changed, moved>>
Returns(T) == /\ read' = [pc |-> "returned"] /\ tuples' = T
              /\ UNCHANGED <<connector, source, ever, changed, moved>>

ListFiles ==
  /\ connector = "nextcloud" /\ read.pc = "start"
  /\ Reads([pc |-> "shares", entries |-> source.entries])

ListShares ==
  /\ read.pc = "shares"
  /\ Returns(NextcloudTuples(read.entries, source.shares))

LoadManifest ==
  /\ connector = "files" /\ read.pc = "start"
  /\ Reads([pc |-> "tree", manifest |-> source.manifest])

WalkTree ==
  /\ read.pc = "tree"
  /\ Returns(FilesTuples(read.manifest, source.tree))

(* A page that is not full is the last one.                                *)
ListRecords ==
  /\ connector = "pipeshub" /\ read.pc \in {"start", "page"}
  /\ LET first == IF read.pc = "start" THEN 0 ELSE read.first
         page  == Page(source.list, first)
         ids   == ToSet(page) \cup IF read.pc = "start" THEN {} ELSE read.ids
     IN  Reads(IF Len(page) < PageSize
               THEN [pc |-> "records", ids |-> ids, got |-> {}]
               ELSE [pc |-> "page", first |-> NextPage(first), ids |-> ids])

(* The records are read concurrently; one that is gone is skipped.         *)
ReadRecord(id) ==
  /\ read.pc = "records" /\ id \in read.ids
  /\ Reads([read EXCEPT !.ids = @ \ {id},
       !.got = @ \cup IF id \in DOMAIN source.record THEN RecordTuples(id, source.record[id]) ELSE {}])

RecordsRead ==
  /\ read.pc = "records" /\ read.ids = {}
  /\ Returns(read.got)

(* An empty page ends the list.                                            *)
ListGroups ==
  /\ connector = "keycloak" /\ read.pc \in {"start", "groups"}
  /\ LET first == IF read.pc = "start" THEN 0 ELSE read.first
         flat  == IF read.pc = "start" THEN {} ELSE read.flat
         page  == Page(source.top, first)
     IN  Reads(IF page = << >>
               THEN [pc |-> "children", flat |-> flat, todo |-> {g \in flat : g.lazy}]
               ELSE [pc |-> "groups", first |-> NextPage(first),
                     flat |-> flat \cup ListedGroups(source, ToSet(page))])

(* The loop runs over the groups listed before it, so that children of     *)
(* children stay unread.                                                   *)
ListChildren ==
  /\ read.pc = "children"
  /\ IF read.todo = {}
     THEN Reads([pc |-> "members", todo |-> read.flat, first |-> 0, got |-> {}])
     ELSE \E g \in read.todo :
            /\ g.id \in DOMAIN source.group
            /\ Reads([read EXCEPT !.todo = @ \ {g},
                 !.flat = @ \cup ListedGroups(source, source.group[g.id].lazy)])

(* The members of one group after the other; the path is the one that was  *)
(* listed, and a group that is gone raises.                                *)
ReadMembers ==
  /\ read.pc = "members" /\ read.todo # {}
  /\ LET g    == CHOOSE g \in read.todo : TRUE
         page == Page(source.members[g.id], read.first)
     IN  /\ g.id \in DOMAIN source.members
         /\ Reads(IF page = << >>
                  THEN [read EXCEPT !.todo = @ \ {g}, !.first = 0]
                  ELSE [read EXCEPT !.first = NextPage(@), !.got = @ \cup MemberTuples(page, g.path)])

MembersRead ==
  /\ read.pc = "members" /\ read.todo = {}
  /\ Returns(read.got)

(* A read fails, or something in it cannot be a reference where that is    *)
(* not skipped: there is no snapshot.                                      *)
ReadFails ==
  /\ read.pc \notin {"returned", "raised"}
  /\ Reads([pc |-> "raised"])

(* The source changes while it is read.                                    *)
SourceChanges ==
  /\ read.pc \notin {"start", "returned", "raised"}
  /\ \E w \in Worlds[connector] \ {source} :
       /\ source' = w
       /\ ever' = ever \cup Granted(connector, w)
       /\ moved' = (moved \/ Layout(connector, w) # Layout(connector, source))
  /\ changed' = TRUE
  /\ UNCHANGED <<connector, read, tuples>>

ConnectorsInit ==
  /\ connector \in DOMAIN Worlds
  /\ source \in Worlds[connector]
  /\ read = [pc |-> "start"]
  /\ tuples = {}
  /\ ever = Granted(connector, source)
  /\ changed = FALSE
  /\ moved = FALSE

ConnectorsNext ==
  \/ ListFiles \/ ListShares
  \/ LoadManifest \/ WalkTree
  \/ ListRecords \/ RecordsRead
  \/ (read.pc = "records" /\ \E id \in read.ids : ReadRecord(id))
  \/ ListGroups \/ ListChildren \/ ReadMembers \/ MembersRead
  \/ ReadFails \/ SourceChanges

ConnectorsSpec == ConnectorsInit /\ [][ConnectorsNext]_connectorVars

-----------------------------------------------------------------------------
(* Properties                                                              *)

(* A snapshot gives nobody more than the source gave them at some instant  *)
(* of the read, however its lists changed meanwhile, as long as the files  *)
(* or groups they are about stayed in place; and a source that stayed as   *)
(* it was is read in full, but for what is knowingly left out ("log, never *)
(* guess", nextcloud.py:110).                                              *)
SnapshotFaithful ==
  read.pc = "returned" =>
    /\ ~moved => Grants(tuples) \subseteq ever
    /\ ~changed => Granted(connector, source) \ LeftOut(connector, source) \subseteq Grants(tuples)
=============================================================================
