----------------------------- MODULE MCStorage -----------------------------
(* Model-checking instance of the reversible storage: behaviours of a client *)
(* of the trail alone, and of a client of one domain with values within five *)
(* and inputs that reach one below and one above them.                       *)
EXTENDS Trail, IntDomain

VARIABLE client   \* what this behaviour exercises, "trail" or "domain"

storageVars == <<client, vars, domainVars>>
FiveValues == 1 .. 5
AroundThem == 0 .. 6

\* The trail's client has a domain that it never touches.
SomeDomain == NewBoundsDomain /\ regs.min = 1 /\ regs.max = 1

StorageInit ==
  /\ Init
  /\ \/ client = "trail" /\ SomeDomain
     \/ client = "domain" /\ NewDomain

StorageNext ==
  /\ UNCHANGED client
  /\ \/ client = "trail" /\ Next /\ UNCHANGED domainVars
     \/ client = "domain" /\ DomainNext /\ UNCHANGED vars

StorageSpec == StorageInit /\ [][StorageNext]_storageVars
=============================================================================
