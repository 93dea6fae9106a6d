-------------------------------- MODULE Pxe --------------------------------
(***************************************************************************)
(* Network boot: the PXE calls of net/pxe.c and the client of              *)
(* net/uefi_network.cpp that drives them, beside the address resolution    *)
(* and the ping of Arp: the two share no state.                            *)
(*                                                                         *)
(* The firmware's PXE stack and its network protocol are outside the       *)
(* repository: their calls succeed or fail, and pxe_tftp_read succeeds     *)
(* only with a buffer that holds the file.                                 *)
(***************************************************************************)
EXTENDS Arp

CONSTANTS
  RemoteSizes,      \* the sizes of files on the server
  UNKNOWN,          \* 0xFFFF: what pxe_get_file_size returns for no size
  DEFAULT_SIZE      \* 1 MiB: the buffer for a kernel of unknown size

VARIABLES
  net_step,         \* where control is, "idle" between calls
  wants,            \* "initrd" if an initrd is asked for
  pxe_initialized, stack_up,    \* the flag, and the stack it stands for
  client,           \* the client's initialized_ and its snp_
  loading, file_size,           \* the file being loaded, and its size
  buffer_size,      \* *kernel_size, *initrd_size
  filled,           \* the files this call has read whole
  leaked,           \* the buffers earlier calls allocated and lost
  booted,           \* what the last boot entered
  answer            \* what the last call returned

netVars == <<net_step, wants, pxe_initialized, stack_up, client, loading, file_size,
             buffer_size, filled, leaked, booted, answer>>

-----------------------------------------------------------------------------
NetInit ==
  /\ net_step = "idle"
  /\ wants = ""
  /\ pxe_initialized = FALSE /\ stack_up = FALSE
  /\ client = [initialized |-> FALSE, snp |-> "none"]
  /\ loading = "kernel" /\ file_size = 0 /\ buffer_size = 0
  /\ filled = {} /\ leaked = {} /\ booted = "none"
  /\ answer = 0

(* A call returns; the buffers it allocated are not freed.                 *)
NetReturn(rc) ==
  /\ net_step' = "idle"
  /\ answer' = rc

-----------------------------------------------------------------------------
(* The client: a network interface started by discoverNetwork and stopped  *)
(* by the destructor.                                                      *)

(* Start fails on an interface that is started already.                    *)
Initialize(next) ==
  \/ /\ client.snp # "started"
     /\ client' = [initialized |-> TRUE, snp |-> "started"]
     /\ net_step' = next /\ UNCHANGED answer
  \/ /\ client' \in {client, [client EXCEPT !.snp = IF @ = "started" THEN @ ELSE "located"]}
     /\ NetReturn(-1)

(* pxeDiscover copies what network_info holds and does not fail.           *)
discoverNetwork ==
  /\ net_step = "idle"
  /\ Initialize("discovered")
  /\ UNCHANGED <<wants, pxe_initialized, stack_up, loading, file_size, buffer_size,
                 filled, leaked, booted>>

DiscoverReturns ==
  /\ net_step = "discovered"
  /\ NetReturn(0)
  /\ UNCHANGED <<wants, pxe_initialized, stack_up, client, loading, file_size, buffer_size,
                 filled, leaked, booted>>

(* PXEClient::bootKernel: a kernel, and an initrd if its path is not empty.*)
bootKernel(initrd) ==
  /\ net_step = "idle"
  /\ wants' = initrd
  /\ loading' = "kernel" /\ filled' = {} /\ booted' = "none"
  /\ net_step' = "download_kernel"
  /\ UNCHANGED <<pxe_initialized, stack_up, client, file_size, buffer_size,
                 leaked, answer>>

Downloading == {"download_kernel", "download_initrd"}

DownloadDiscovers ==
  /\ net_step \in Downloading /\ ~client.initialized
  /\ Initialize(net_step)
  /\ UNCHANGED <<wants, pxe_initialized, stack_up, loading, file_size, buffer_size,
                 filled, leaked, booted>>

(* The downloaded data is dropped: pxe_boot_kernel loads the file again.   *)
downloadFile ==
  /\ net_step \in Downloading /\ client.initialized
  /\ \/ /\ net_step' = IF net_step = "download_kernel" /\ wants = "initrd"
                       THEN "download_initrd" ELSE "init"
        /\ UNCHANGED answer
     \/ NetReturn(-1)
  /\ UNCHANGED <<wants, pxe_initialized, stack_up, client, loading, file_size, buffer_size,
                 filled, leaked, booted>>

DestroyClient ==
  /\ net_step = "idle"
  /\ client' = [initialized |-> FALSE, snp |-> "none"]
  /\ UNCHANGED <<net_step, wants, pxe_initialized, stack_up, loading, file_size,
                 buffer_size, filled, leaked, booted, answer>>

-----------------------------------------------------------------------------
(* The PXE calls.                                                          *)

pxe_boot_kernel(initrd) ==
  /\ net_step = "idle"
  /\ wants' = initrd
  /\ loading' = "kernel" /\ filled' = {} /\ booted' = "none"
  /\ net_step' = "init"
  /\ UNCHANGED <<pxe_initialized, stack_up, client, file_size, buffer_size,
                 leaked, answer>>

(* pxe_init, then pxe_dhcp_discover; a stack that found no server is       *)
(* cleaned up again.                                                       *)
pxe_network_init ==
  /\ net_step = "init"
  /\ \/ pxe_initialized /\ net_step' = "size" /\ UNCHANGED <<stack_up, pxe_initialized, answer>>
     \/ ~pxe_initialized /\ NetReturn(-1) /\ UNCHANGED <<stack_up, pxe_initialized>>
     \/ ~pxe_initialized /\ net_step' = "discover" /\ stack_up' = TRUE /\ UNCHANGED <<pxe_initialized, answer>>
  /\ UNCHANGED <<wants, client, loading, file_size, buffer_size, filled, leaked, booted>>

DhcpDiscover ==
  /\ net_step = "discover"
  /\ \/ pxe_initialized' = TRUE /\ net_step' = "size" /\ UNCHANGED <<stack_up, answer>>
     \/ stack_up' = FALSE /\ NetReturn(-1) /\ UNCHANGED pxe_initialized
  /\ UNCHANGED <<wants, client, loading, file_size, buffer_size, filled, leaked, booted>>

pxe_cleanup_network ==
  /\ net_step = "idle" /\ pxe_initialized
  /\ pxe_initialized' = FALSE /\ stack_up' = FALSE
  /\ answer' = 0
  /\ UNCHANGED <<net_step, wants, client, loading, file_size, buffer_size, filled,
                 leaked, booted>>

(* pxe_get_file_size; the size of the buffer, or the end for an initrd of  *)
(* unknown size.                                                           *)
FileSize ==
  /\ net_step = "size"
  /\ \E actual \in RemoteSizes :
       \E size \in {actual, UNKNOWN} :
         /\ file_size' = actual
         /\ IF size # UNKNOWN
            THEN buffer_size' = size /\ net_step' = "allocate" /\ UNCHANGED <<leaked, answer>>
            ELSE IF loading = "kernel"
            THEN buffer_size' = DEFAULT_SIZE /\ net_step' = "allocate" /\ UNCHANGED <<leaked, answer>>
            ELSE buffer_size' = UNKNOWN /\ leaked' = leaked \cup filled /\ NetReturn(-1)
  /\ UNCHANGED <<wants, pxe_initialized, stack_up, client, loading, filled, booted>>

AllocateFile ==
  /\ net_step = "allocate"
  /\ \/ net_step' = "read" /\ UNCHANGED <<leaked, answer>>
     \/ leaked' = leaked \cup filled /\ NetReturn(-1)
  /\ UNCHANGED <<wants, pxe_initialized, stack_up, client, loading, file_size, buffer_size,
                 filled, booted>>

(* The initrd comes after the kernel, if it was asked for.                 *)
AfterRead ==
  IF loading = "kernel" /\ wants = "initrd"
  THEN net_step' = "size" /\ loading' = "initrd"
  ELSE net_step' = "dispatch" /\ UNCHANGED loading

(* Mutant: the result of the transfer is not looked at.                    *)
ReadFileUnchecked ==
  /\ net_step = "read"
  /\ filled' \in {filled, filled \cup {loading}}
  /\ AfterRead
  /\ UNCHANGED <<wants, pxe_initialized, stack_up, client, file_size,
                 buffer_size, leaked, booted, answer>>

(* A transfer that fails keeps the buffer.                                 *)
ReadFile ==
  /\ net_step = "read"
  /\ \/ /\ file_size <= buffer_size
        /\ filled' = filled \cup {loading}
        /\ AfterRead
        /\ UNCHANGED <<leaked, answer>>
     \/ /\ leaked' = leaked \cup filled \cup {loading}
        /\ NetReturn(-1)
        /\ UNCHANGED <<filled, loading>>
  /\ UNCHANGED <<wants, pxe_initialized, stack_up, client, file_size,
                 buffer_size, booted>>

(* The first word of the kernel selects the protocol.                      *)
Dispatch ==
  /\ net_step = "dispatch"
  /\ \/ \E protocol \in {"linux", "multiboot1", "multiboot2", "limine"} :
          booted' = protocol /\ net_step' = "booted" /\ UNCHANGED <<leaked, answer>>
     \/ leaked' = leaked \cup filled /\ NetReturn(-1) /\ UNCHANGED booted
  /\ UNCHANGED <<wants, pxe_initialized, stack_up, client, loading, file_size,
                 buffer_size, filled>>

NetStep ==
  \/ DiscoverReturns \/ DownloadDiscovers \/ downloadFile
  \/ pxe_network_init \/ DhcpDiscover
  \/ FileSize \/ AllocateFile \/ ReadFile \/ Dispatch

NetNext ==
  \/ NetStep
  \/ discoverNetwork \/ DestroyClient \/ pxe_cleanup_network
  \/ \E initrd \in {"", "initrd"} : bootKernel(initrd) \/ pxe_boot_kernel(initrd)

NetworkNext ==
  \/ NetNext /\ UNCHANGED wireVars
  \/ WireNext /\ UNCHANGED netVars

NetworkSpec == NetInit /\ WireInit /\ [][NetworkNext]_<<netVars, wireVars>>

-----------------------------------------------------------------------------
(* A protocol is entered only with the stack up and with every file that   *)
(* was asked for read whole by this call, however transfers failed and the *)
(* stack went up and down before; and between calls the flag               *)
(* pxe_initialized says whether the stack is up.                           *)
BootComplete ==
  /\ booted # "none" =>
       stack_up /\ {"kernel"} \cup ({"initrd"} \cap {wants}) \subseteq filled
  /\ net_step = "idle" => (stack_up <=> pxe_initialized)

(* What the network code reports, the network has delivered: a boot has    *)
(* the files it was asked for (pxe_boot_kernel), and an address or a ping  *)
(* was answered (arp_resolve, pxe_icmp_echo).                              *)
NetworkDelivered == BootComplete /\ AnswersClaimed

(* A boot that failed has returned the buffers it allocated.               *)
BuffersReturned == leaked = {}

(* pxe.c:87 says of the default size that it is used "if size unknown".    *)
DefaultOnlyIfUnknown ==
  net_step = "allocate" /\ loading = "kernel" /\ file_size = UNKNOWN => buffer_size = UNKNOWN

=============================================================================
