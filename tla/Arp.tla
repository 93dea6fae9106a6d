-------------------------------- MODULE Arp --------------------------------
(***************************************************************************)
(* Address resolution of net/arp.c, with its cache of one entry, and the   *)
(* ping of net/pxe.c that the recovery shell calls.                        *)
(*                                                                         *)
(* The network loses, delays, reorders and repeats: a request that was     *)
(* sent may be answered at any time, never, or again, and a receive        *)
(* returns any packet on the wire, or nothing.                             *)
(***************************************************************************)
EXTENDS Integers, FiniteSets

CONSTANTS
  Hosts,            \* the stations, by IP address
  Macs,             \* the hardware addresses they may have
  RETRIES, POLLS,   \* 3, 10000: the loops of arp_resolve
  MAX_WIRE          \* bound: packets on the wire

\* The empty string stands for no address.
ASSUME ArpAssumption == "" \notin Macs

VARIABLES
  wire_step,        \* where control is, "idle" between calls
  target,           \* the host the call is about
  arp_cache,        \* the one entry
  retry, poll,      \* loop counters of arp_resolve
  asked_of,         \* the requests sent
  wire,             \* the packets on their way here
  claims,           \* every (host, hardware address) a packet has claimed
  outcome           \* what the last call returned

wireVars == <<wire_step, target, arp_cache, retry, poll, asked_of, wire, claims, outcome>>

Failure == [rc |-> -1, host |-> "", mac |-> ""]

Success(host, mac) == [rc |-> 0, host |-> host, mac |-> mac]

-----------------------------------------------------------------------------
WireInit ==
  /\ wire_step = "idle"
  /\ target = ""
  /\ arp_cache = [valid |-> FALSE, host |-> "", mac |-> ""]
  /\ retry = 0 /\ poll = 0
  /\ asked_of = {} /\ wire = {} /\ claims = {}
  /\ outcome = Failure

WireReturn(r) ==
  /\ wire_step' = "idle"
  /\ outcome' = r

-----------------------------------------------------------------------------
(* The wire.                                                               *)

(* A station answers a request it was sent, or sends something else.       *)
Arrive ==
  /\ Cardinality(wire) < MAX_WIRE
  /\ \E p \in asked_of :
       \/ /\ p.kind = "echo"
          /\ wire' = wire \cup {[kind |-> "echo", host |-> p.host, mac |-> ""]}
          /\ UNCHANGED claims
       \/ /\ p.kind = "arp"
          /\ \E mac \in Macs :
               /\ wire' = wire \cup {[kind |-> "arp", host |-> p.host, mac |-> mac]}
               /\ claims' = claims \cup {<<p.host, mac>>}
  /\ UNCHANGED <<wire_step, target, arp_cache, retry, poll, asked_of, outcome>>

Stray ==
  /\ Cardinality(wire) < MAX_WIRE
  /\ wire' = wire \cup {[kind |-> "other", host |-> "", mac |-> ""]}
  /\ UNCHANGED <<wire_step, target, arp_cache, retry, poll, asked_of, claims, outcome>>

(* A ping sends one request and looks at one packet.                       *)
pxe_icmp_echo(host) ==
  /\ wire_step = "idle"
  /\ target' = host
  /\ \/ /\ asked_of' = asked_of \cup {[kind |-> "echo", host |-> host]}
        /\ wire_step' = "receive" /\ UNCHANGED outcome
     \/ WireReturn(Failure) /\ UNCHANGED asked_of
  /\ UNCHANGED <<arp_cache, retry, poll, wire, claims>>

(* The identifier and the sequence number are the same in every request.   *)
EchoMatches(p) == p.kind = "echo"

EchoReceive ==
  /\ wire_step = "receive"
  /\ \/ \E p \in wire :
          /\ wire' = wire \ {p}
          /\ WireReturn(IF EchoMatches(p) THEN Success(p.host, "") ELSE Failure)
     \/ WireReturn(Failure) /\ UNCHANGED wire
  /\ UNCHANGED <<target, arp_cache, retry, poll, asked_of, claims>>

arp_resolve(host) ==
  /\ wire_step = "idle"
  /\ target' = host
  /\ IF arp_cache.valid /\ arp_cache.host = host
     THEN WireReturn(Success(host, arp_cache.mac)) /\ UNCHANGED retry
     ELSE wire_step' = "arp_send" /\ retry' = 0 /\ UNCHANGED outcome
  /\ UNCHANGED <<arp_cache, poll, asked_of, wire, claims>>

ArpSend ==
  /\ wire_step = "arp_send"
  /\ IF retry = RETRIES
     THEN WireReturn(Failure) /\ UNCHANGED <<retry, poll, asked_of>>
     ELSE /\ asked_of' = asked_of \cup {[kind |-> "arp", host |-> target]}
          /\ poll' = 0 /\ retry' = retry + 1
          /\ wire_step' = "arp_poll" /\ UNCHANGED outcome
  /\ UNCHANGED <<target, arp_cache, wire, claims>>

ArpAnswers(p) == p.kind = "arp" /\ p.host = target

(* Mutant: only a poll that finds nothing is counted.                      *)
ArpPollMissUncounted ==
  /\ wire_step = "arp_poll"
  /\ \/ UNCHANGED wire /\ poll' = poll + 1
     \/ \E p \in wire : ~ArpAnswers(p) /\ wire' = wire \ {p} /\ UNCHANGED poll
  /\ wire_step' = IF poll' = POLLS THEN "arp_send" ELSE "arp_poll"
  /\ UNCHANGED <<target, arp_cache, retry, asked_of, claims, outcome>>

(* A poll that finds nothing, or a packet that is not the answer.          *)
ArpPollMiss ==
  /\ wire_step = "arp_poll"
  /\ \/ UNCHANGED wire
     \/ \E p \in wire : ~ArpAnswers(p) /\ wire' = wire \ {p}
  /\ poll' = poll + 1
  /\ wire_step' = IF poll' = POLLS THEN "arp_send" ELSE "arp_poll"
  /\ UNCHANGED <<target, arp_cache, retry, asked_of, claims, outcome>>

ArpPollHit ==
  /\ wire_step = "arp_poll"
  /\ \E p \in wire :
       /\ ArpAnswers(p)
       /\ wire' = wire \ {p}
       /\ arp_cache' = [valid |-> TRUE, host |-> target, mac |-> p.mac]
       /\ WireReturn(Success(target, p.mac))
  /\ UNCHANGED <<target, retry, poll, asked_of, claims>>

WireStep == EchoReceive \/ ArpSend \/ ArpPollMiss \/ ArpPollHit

WireNext ==
  \/ WireStep
  \/ \E host \in Hosts : pxe_icmp_echo(host) \/ arp_resolve(host)
  \/ Arrive \/ Stray

-----------------------------------------------------------------------------
(* What a resolution returns, and what the cache keeps for the next one,   *)
(* was claimed for that very host, though answers to earlier requests may  *)
(* arrive late; and a ping succeeds only on the answer of a host that was  *)
(* pinged (which one is not looked at).                                    *)
AnswersClaimed ==
  /\ arp_cache.valid => <<arp_cache.host, arp_cache.mac>> \in claims
  /\ outcome.rc = 0 /\ outcome.mac # "" => <<outcome.host, outcome.mac>> \in claims
  /\ outcome.rc = 0 /\ outcome.mac = "" /\ outcome.host # "" =>
       [kind |-> "echo", host |-> outcome.host] \in asked_of

(* The shell's ping reports success as "Reply from" the host it was asked  *)
(* for (shell_net.c:16).                                                   *)
ReplyFromHost ==
  wire_step = "idle" /\ outcome.rc = 0 /\ outcome.mac = "" /\ outcome.host # "" =>
    outcome.host = target

=============================================================================
