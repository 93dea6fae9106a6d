----------------------------- MODULE SecureLoad -----------------------------
(***************************************************************************)
(* The verified load of a kernel image: LoadAndVerifyKernel and            *)
(* ExecuteKernel of boot/secure.c, on top of ReadFile of uefi/uefi.c.      *)
(*                                                                         *)
(* Firmware services, allocations and the signature check are the          *)
(* outcomes they may have.  "held" is what was opened, allocated or loaded *)
(* and not yet closed, freed or unloaded.  The caller executes what was    *)
(* loaded, with or without a command line.                                 *)
(***************************************************************************)
EXTENDS Integers

CONSTANTS
  SIGNATURE,        \* 256: bytes of signature at the end of an image
  ImageSizes        \* the sizes of file the kernel may have

ASSUME LoadAssumption == SIGNATURE \in Nat \ {0} /\ ImageSizes \subseteq Nat

VARIABLES
  load_step,        \* where control is
  held,             \* resources in use
  image_size,       \* the bytes ReadFile reads
  secure_boot,      \* the variable SecureBoot is 1
  verified,         \* the bytes VerifyImageSignature accepted, if it did
  options,          \* LoadOptions of the image were set
  image_started     \* StartImage was called

secureVars == <<load_step, held, image_size, secure_boot, verified, options, image_started>>

-----------------------------------------------------------------------------
SecureInit ==
  /\ load_step = "root"
  /\ held = {}
  /\ image_size \in ImageSizes
  /\ secure_boot \in BOOLEAN
  /\ verified = 0
  /\ options = FALSE /\ image_started = FALSE

(* A call succeeds, which takes a resource, and control moves on.          *)
Take(from, resource, to) ==
  /\ load_step = from
  /\ held' = held \cup {resource}
  /\ load_step' = to
  /\ UNCHANGED <<image_size, secure_boot, verified, options, image_started>>

(* A call fails: what the function frees is freed, and LoadAndVerifyKernel *)
(* returns the error.                                                      *)
LoadFails(from, released) ==
  /\ load_step = from
  /\ held' = held \ released
  /\ load_step' = "failed"
  /\ UNCHANGED <<image_size, secure_boot, verified, options, image_started>>

(* One of the four protocol calls may fail.  Nothing is held but the root  *)
(* directory that OpenVolume returns.                                      *)
GetRootFileSystem ==
  Take("root", "root_directory", "open") \/ LoadFails("root", {})

OpenFile ==
  Take("open", "file", "info_size") \/ LoadFails("open", {})

(* GetInfo is asked for the size with InfoSize uninitialized: the firmware *)
(* may find it too small, reject it, or find it large enough, in which     *)
(* case ReadFile returns EFI_SUCCESS with no buffer and no size.           *)
GetInfoSize ==
  \/ /\ load_step = "info_size"
     /\ load_step' = "info"
     /\ UNCHANGED <<held, image_size, secure_boot, verified, options, image_started>>
  \/ LoadFails("info_size", {"file"})
  \/ /\ load_step = "info_size"
     /\ held' = held \ {"file"}
     /\ image_size' = 0
     /\ load_step' = "verify"
     /\ UNCHANGED <<secure_boot, verified, options, image_started>>

AllocateInfo ==
  Take("info", "info", "buffer") \/ LoadFails("info", {"file"})

(* GetInfo and the allocation of the file's buffer.                        *)
AllocateBuffer ==
  Take("buffer", "buffer", "read") \/ LoadFails("buffer", {"info", "file"})

(* Read may deliver less than the file's size: ReadSize is what it read.   *)
ReadContents ==
  \/ /\ load_step = "read"
     /\ image_size' \in 0..image_size
     /\ held' = held \ {"info", "file"}
     /\ load_step' = "verify"
     /\ UNCHANGED <<secure_boot, verified, options, image_started>>
  \/ LoadFails("read", {"info", "file", "buffer"})

VerifyKeepsBuffer ==
  \/ /\ load_step = "verify" /\ secure_boot /\ image_size >= SIGNATURE
     /\ verified' = image_size
     /\ load_step' = "loaded"
     /\ UNCHANGED <<held, image_size, secure_boot, options, image_started>>
  \/ secure_boot /\ LoadFails("verify", {})

(* The variable PK is read, then the last 256 bytes of the image are       *)
(* checked as the signature of the ones before.                            *)
VerifyImageSignature ==
  \/ /\ load_step = "verify" /\ secure_boot /\ image_size >= SIGNATURE
     /\ verified' = image_size
     /\ load_step' = "loaded"
     /\ UNCHANGED <<held, image_size, secure_boot, options, image_started>>
  \/ secure_boot /\ LoadFails("verify", {"buffer"})

SkipVerification ==
  /\ load_step = "verify" /\ ~secure_boot
  /\ load_step' = "loaded"
  /\ UNCHANGED <<held, image_size, secure_boot, verified, options, image_started>>

LoadImage ==
  \/ Take("loaded", "image", "options")
  \/ /\ load_step = "loaded"
     /\ load_step' = "returned"
     /\ UNCHANGED <<held, image_size, secure_boot, verified, options, image_started>>

SetOptions ==
  /\ load_step = "options"
  /\ options' \in BOOLEAN
  /\ load_step' = "start"
  /\ UNCHANGED <<held, image_size, secure_boot, verified, image_started>>

(* The image runs; when it returns an error it is unloaded.                *)
StartImage ==
  /\ load_step = "start"
  /\ image_started' = TRUE
  /\ load_step' = "returned"
  /\ held' \in {held, held \ {"image"}}
  /\ UNCHANGED <<image_size, secure_boot, verified, options>>

SecureNext ==
  \/ GetRootFileSystem \/ OpenFile \/ GetInfoSize \/ AllocateInfo \/ AllocateBuffer
  \/ ReadContents \/ VerifyImageSignature \/ SkipVerification \/ LoadImage
  \/ SetOptions \/ StartImage

SecureSpec == SecureInit /\ [][SecureNext]_secureVars

-----------------------------------------------------------------------------
(* With secure boot on, an image is started only if the bytes that are     *)
(* loaded are the ones VerifyImageSignature accepted, however short the    *)
(* read was; and once LoadAndVerifyKernel has failed, neither the file, its *)
(* information nor a buffer is still held (the root directory is: ReadFile *)
(* never closes it).                                                       *)
SecureLoadSound ==
  /\ image_started /\ secure_boot => verified = image_size /\ "buffer" \in held
  /\ load_step = "failed" => held \subseteq {"root_directory"}

(* uefi.c:69 says of ReadFile that EFI_SUCCESS means that "The file was    *)
(* read successfully".                                                     *)
SuccessHasBuffer == load_step = "loaded" => "buffer" \in held

=============================================================================
