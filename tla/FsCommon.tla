------------------------------ MODULE FsCommon ------------------------------
(***************************************************************************)
(* The other mount table, fs/fs_common.c.  It has no array of types: a     *)
(* type is registered by an entry at "/" without private data, and new     *)
(* entries go to the front of the list.                                    *)
(***************************************************************************)
EXTENDS MountLookup

CONSTANTS
  Types, Paths,
  MAX_MOUNTS        \* bound: fs->mount calls that succeed

VARIABLES
  mount_points,     \* sequence of entries, newest first
  volumes,          \* live private data
  mounted           \* number of volumes mounted so far

vars == <<mount_points, volumes, mounted>>

Init ==
  /\ mount_points = << >>
  /\ volumes = {}
  /\ mounted = 0

Known(fs) == \E k \in 1..Len(mount_points) : mount_points[k].fs = fs

\* kmalloc may fail, which leaves everything as it is.
fs_register(fs) ==
  /\ ~Known(fs)
  /\ mount_points' =
       <<[path |-> << >>, fs |-> fs, data |-> 0, real |-> FALSE]>> \o mount_points
  /\ UNCHANGED <<volumes, mounted>>

\* Mutant: when memory runs out the volume stays open.
NoMemoryKeepsVolume ==
  /\ volumes' = volumes \cup {mounted'}
  /\ UNCHANGED mount_points

\* kmalloc or kstrdup failed after fs->mount: the volume is closed again.
NoMemory ==
  UNCHANGED <<volumes, mount_points>>

fs_mount(path, fs, memory) ==
  /\ Known(fs)
  /\ mounted < MAX_MOUNTS
  /\ mounted' = mounted + 1
  /\ IF memory
     THEN /\ volumes' = volumes \cup {mounted'}
          /\ mount_points' =
               <<[path |-> path, fs |-> fs, data |-> mounted', real |-> TRUE]>>
                 \o mount_points
     ELSE NoMemory

\* The first entry with this path, be it a volume or a registration.  The data
\* of a registration is NULL and its path a literal, which kfree is given too:
\* the entry is out of the list by then, and the call returns or never does.
fs_unmount(path) ==
  \E k \in 1..Len(mount_points) :
    LET mp == mount_points[k] IN
    /\ mp.path = path
    /\ \A j \in 1..(k - 1) : mount_points[j].path # path
    /\ mount_points' = Without(mount_points, k)
    /\ volumes' = volumes \ {mp.data}
    /\ UNCHANGED mounted

Next ==
  \/ \E fs \in Types : fs_register(fs)
  \/ \E path \in Paths, fs \in Types, memory \in BOOLEAN : fs_mount(path, fs, memory)
  \/ \E path \in Paths : fs_unmount(path)

Spec == Init /\ [][Next]_vars

-----------------------------------------------------------------------------
(* Properties.                                                             *)

Volumes == {k \in 1..Len(mount_points) : mount_points[k].real}

\* Each live volume has one entry and each entry that is not a registration
\* has a live volume, also when a mount ran out of memory half way.
VolumesLive ==
  /\ volumes = {mount_points[k].data : k \in Volumes}
  /\ \A j, k \in Volumes : mount_points[j].data = mount_points[k].data => j = k

\* "Find the mount point for a given path": what the lookup finds is a mounted
\* volume, never the "Dummy path for registration".
RegistrationServesNothing ==
  \A path \in Paths :
    LET mp == find_mount_point(mount_points, path) IN mp # NoMount => mp.real

\* "Free mount point resources": the path fs_unmount frees was allocated by
\* kstrdup.  That of a registration is the literal "/".
FreesAllocated ==
  [][Len(mount_points') < Len(mount_points) => volumes' # volumes]_vars

=============================================================================
