---------------------------- MODULE MC_Security ----------------------------
(***************************************************************************)
(* The security components: measured boot (tpm2.c), the streaming SHA-256  *)
(* and the key derivation (crypto.c), the modes of AES (aes.c), and the    *)
(* verified load of an image (secure.c over uefi.c).  None calls another   *)
(* while it runs, so one part runs and the others stay at an initial       *)
(* state.                                                                  *)
(*                                                                         *)
(* Files that fit the event log and that do not, with sums that wrap and   *)
(* that do not.  Blocks of four bytes that end in a length of two, and     *)
(* messages of up to two blocks and one byte, so that the padding takes    *)
(* one block or two.  Keys shorter than a MAC, of whole MACs, and with a   *)
(* rest.  Images shorter than a signature and longer.  Messages of up to   *)
(* three AES blocks of two bytes, with and without rest.                   *)
(***************************************************************************)
EXTENDS MeasuredBoot, Sha256, Pbkdf2, SecureLoad, AesModes

VARIABLE part       \* the one that runs

MCSeparatorSize == [data |-> 1, desc |-> 1]

MCVersionSize == [data |-> 1, desc |-> 1]

\* A file that fits, one that is too large, one whose event wraps only together
\* with what the log holds, and one that wraps with its own name.
MCFileSizes ==
  {[data |-> 2, desc |-> 1], [data |-> 28, desc |-> 1],
   [data |-> 61, desc |-> 1], [data |-> 64, desc |-> 1]}

MCKeyLengths == {0, 1, 4, 5}

MCImageSizes == {1, 3}

SecurityInit ==
  /\ Init /\ ShaInit /\ KdfInit /\ SecureInit /\ AesInit
  /\ part \in {"tpm2", "sha256", "pbkdf2", "secure", "aes"}
  /\ part # "tpm2" => hardware = "none"
  /\ part # "pbkdf2" => asked = [key_len |-> 1, iterations |-> 1]
  /\ part # "secure" => image_size = 1 /\ ~secure_boot
  /\ part # "aes" => job.mode = "cbc" /\ job.len = 0 /\ job.dst = "b" /\ job.out = "c"

MeasuredStep ==
  part = "tpm2" /\ Next /\ UNCHANGED <<part, shaVars, kdfVars, secureVars, aesVars>>

ShaStep ==
  part = "sha256" /\ ShaNext /\ UNCHANGED <<part, vars, kdfVars, secureVars, aesVars>>

KdfStep ==
  part = "pbkdf2" /\ KdfNext /\ UNCHANGED <<part, vars, shaVars, secureVars, aesVars>>

SecureStep ==
  part = "secure" /\ SecureNext /\ UNCHANGED <<part, vars, shaVars, kdfVars, aesVars>>

AesStep ==
  part = "aes" /\ AesNext /\ UNCHANGED <<part, vars, shaVars, kdfVars, secureVars>>

SecurityNext == MeasuredStep \/ ShaStep \/ KdfStep \/ SecureStep \/ AesStep

SecuritySpec ==
  /\ SecurityInit
  /\ [][SecurityNext]_<<part, vars, shaVars, kdfVars, secureVars, aesVars>>
  /\ WF_vars(DriverStep)

=============================================================================
