------------------------------ MODULE FsMount ------------------------------
(***************************************************************************)
(* The mount table of fs/fs_mount.c: filesystem types are registered in a  *)
(* fixed array, volumes are mounted at the end of a list, and every file   *)
(* operation goes to the volume its path is looked up in.                  *)
(*                                                                         *)
(* A volume is the private data fs->mount returned; volumes lists the live *)
(* ones.  The copy of the path strdup makes is assumed to succeed: the     *)
(* code does not test it.                                                  *)
(***************************************************************************)
EXTENDS MountLookup

CONSTANTS
  Types,            \* the filesystem types a caller may register
  BuiltIn,          \* the types fs_init registers, in order
  Paths,            \* the paths in use
  MAX_FS,           \* entries of registered_fs
  MAX_MOUNTS        \* bound: fs->mount calls that succeed

VARIABLES
  registered_fs,    \* sequence of types
  mount_points,     \* sequence of entries
  volumes,          \* live private data
  mounted,          \* number of volumes mounted so far
  served            \* the volume of the last file operation; 0 for failure

vars == <<registered_fs, mount_points, volumes, mounted, served>>

Init ==
  /\ registered_fs = << >>
  /\ mount_points = << >>
  /\ volumes = {}
  /\ mounted = 0
  /\ served = 0

\* Types are appended one by one while there is room.
Register(table, types) ==
  LET all == table \o types
  IN  SubSeq(all, 1, IF Len(all) < MAX_FS THEN Len(all) ELSE MAX_FS)

fs_register(fs) ==
  /\ registered_fs' = Register(registered_fs, <<fs>>)
  /\ UNCHANGED <<mount_points, volumes, mounted, served>>

\* fs->mount returned private data and the entry is appended.
AddMount(path, fs) ==
  /\ mounted < MAX_MOUNTS
  /\ mounted' = mounted + 1
  /\ volumes' = volumes \cup {mounted'}
  /\ mount_points' =
       Append(mount_points, [path |-> path, fs |-> fs, data |-> mounted', real |-> TRUE])

fs_mount(path, fs) ==
  /\ \E k \in 1..Len(registered_fs) : registered_fs[k] = fs
  /\ AddMount(path, fs)
  /\ UNCHANGED <<registered_fs, served>>

\* The first entry with this very path.
fs_unmount(path) ==
  \E k \in 1..Len(mount_points) :
    /\ mount_points[k].path = path
    /\ \A j \in 1..(k - 1) : mount_points[j].path # path
    /\ mount_points' = Without(mount_points, k)
    /\ volumes' = volumes \ {mount_points[k].data}
    /\ UNCHANGED <<registered_fs, mounted, served>>

\* fs_read, fs_write, fs_list_dir and fs_get_info: look the path up, give up
\* without a volume or when its type lacks the operation, else call it.
FileOperation(path, supported) ==
  /\ LET mp == find_mount_point(mount_points, path) IN
     served' = IF mp = NoMount \/ ~supported THEN 0 ELSE mp.data
  /\ UNCHANGED <<registered_fs, mount_points, volumes, mounted>>

\* The built-in types are registered; the first registered type that is
\* detected at LBA 0 and mounts becomes the root, if any does.
fs_init(found) ==
  /\ registered_fs' = Register(registered_fs, BuiltIn)
  /\ IF found = 0
     THEN UNCHANGED <<mount_points, volumes, mounted>>
     ELSE /\ found <= Len(registered_fs')
          /\ AddMount(<< >>, registered_fs'[found])
  /\ UNCHANGED served

Next ==
  \/ \E fs \in Types : fs_register(fs)
  \/ \E path \in Paths, fs \in Types : fs_mount(path, fs)
  \/ \E path \in Paths : fs_unmount(path)
  \/ \E path \in Paths, supported \in BOOLEAN : FileOperation(path, supported)
  \/ \E found \in 0..MAX_FS : fs_init(found)

Spec == Init /\ [][Next]_vars

-----------------------------------------------------------------------------
(* Properties.                                                             *)

\* Each live volume is in the table exactly once and each entry's volume is
\* live: no sequence of mounts and unmounts leaks a volume or leaves one in the
\* table after fs->unmount closed it.
VolumesLive ==
  /\ volumes = {mount_points[k].data : k \in 1..Len(mount_points)}
  /\ \A j, k \in 1..Len(mount_points) :
       mount_points[j].data = mount_points[k].data => j = k

\* fs_mount appends and the lookup takes the first of equal paths, so a mount
\* never takes over a path that an earlier mount serves unless it is deeper:
\* what a path means changes only by a deeper mount or when its own volume is
\* unmounted.
NeverShadowed ==
  [][\A path \in Paths :
       LET old == find_mount_point(mount_points, path)
           new == find_mount_point(mount_points', path)
       IN  old # NoMount /\ new # old =>
             old.data \notin volumes' \/ Len(new.path) > Len(old.path)]_vars

\* "Helper function to find mount point for a path", with "/" given as a mount
\* path: once a volume is mounted at the root, every path has a volume.
RootServesEveryPath ==
  (\E k \in 1..Len(mount_points) : mount_points[k].path = << >>) =>
    \A path \in Paths : find_mount_point(mount_points, path) # NoMount

=============================================================================
