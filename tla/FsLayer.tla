------------------------------ MODULE FsLayer ------------------------------
(***************************************************************************)
(* The file system layer above the drivers: the path normalization of      *)
(* fs_common.c and the two mount tables, fs_mount.c and fs_common.c.  A    *)
(* build links one of the tables, and a path is normalized without looking *)
(* at either, so a step of one leaves the others alone.                    *)
(***************************************************************************)
EXTENDS PathNormalize

CONSTANTS Types, BuiltIn, Paths, MAX_FS, MAX_MOUNTS

\* A path is the sequence of its components.
ASSUME LayerAssumption == Paths \subseteq Seq(STRING)

VARIABLES
  registered_fs, mount_points, volumes, mounted, served,
  list, list_volumes, list_mounted

tableVars == <<registered_fs, mount_points, volumes, mounted, served>>

listVars == <<list, list_volumes, list_mounted>>

Mount == INSTANCE FsMount

Common ==
  INSTANCE FsCommon
    WITH mount_points <- list, volumes <- list_volumes, mounted <- list_mounted

TablesInit == Mount!Init /\ Common!Init

TablesNext ==
  \/ Mount!Next /\ UNCHANGED listVars
  \/ Common!Next /\ UNCHANGED tableVars

TablesSpec == TablesInit /\ [][TablesNext]_<<tableVars, listVars>>

-----------------------------------------------------------------------------
(* Properties.                                                             *)

\* In both tables each live volume has one entry, and each entry that is no
\* registration has a live volume: no sequence of mounts and unmounts, and no
\* mount that runs out of memory half way, leaks a volume or keeps a closed one.
VolumesLive == Mount!VolumesLive /\ Common!VolumesLive

\* fs_mount appends and the lookup takes the first of equal paths: what a path
\* means changes only by a deeper mount or when its own volume is unmounted.
NeverShadowed == Mount!NeverShadowed

\* "Helper function to find mount point for a path", with "/" given as an
\* example of a mount path: a volume mounted at the root serves every path.
RootServesEveryPath == Mount!RootServesEveryPath

=============================================================================
