--------------------------- MODULE CertAuthority ---------------------------
(***************************************************************************)
(* The certificate authority of an installation and the leaves it signs    *)
(* (internal/ca), as the processes of aig use them: every run loads the    *)
(* pair of ~/.aig/ca.pem and ~/.aig/ca-key.pem, or generates one and       *)
(* writes the two files one after the other, without a lock; its child     *)
(* reads ca.pem by its path; its proxy mints one leaf for each host and    *)
(* keeps it.                                                               *)
(*                                                                         *)
(* A run generates at most one authority, so it is named after the run; a  *)
(* certificate and a key match when they have the same name. Keys, dates   *)
(* and serial numbers are left out. "cutOff" and "raced" are history.      *)
(***************************************************************************)
EXTENDS Integers, FiniteSets

CONSTANTS
  Runs,        \* processes that call LoadOrGenerate
  Conns,       \* connections of the child of each run
  Hosts,
  Old,         \* the authority of an earlier installation
  None,        \* no file, no leaf
  Empty,       \* a file that is not PEM: truncated, or written in part
  FirstFiles   \* the pairs of files there may be at the start

ASSUME CertAssumption ==
  /\ Old \notin Runs /\ None \notin Runs \cup Conns \cup {Old}
  /\ Empty \notin Runs \cup {Old, None}
  /\ FirstFiles \subseteq ({None, Old} \X {None, Old})

VARIABLES
  certFile, keyFile,
  pc,       \* where each run is
  cert,     \* CA.Cert and CA.Key of each run
  key,
  trust,    \* what its child has read from ca.pem
  cache,    \* Minter.cache: host to leaf; a leaf is named after its connection
  shake,    \* what each connection asked for and got
  cutOff,   \* some run stopped between the two files and left an older key
  raced     \* some run has generated while another was in LoadOrGenerate

fileVars == <<certFile, keyFile, cutOff, raced>>
caVars == <<cert, key, trust>>
mintVars == <<cache, shake>>
vars == <<certFile, keyFile, pc, cert, key, trust, cache, shake, cutOff, raced>>

Authorities == Runs \cup {Old}

Replacing == {"writeCert", "openKey", "writeKey"}
Generating == {"openCert"} \cup Replacing
Loading == {"statKey", "readCert", "readKey"} \cup Generating

Idle == [at |-> "idle", host |-> None, leaf |-> None]

CertTypeOK ==
  /\ certFile \in Authorities \cup {None, Empty}
  /\ keyFile \in Authorities \cup {None, Empty}
  /\ pc \in [Runs -> {"new", "ready", "running", "failed"} \cup Loading]
  /\ cert \in [Runs -> Authorities \cup {None}]
  /\ key \in [Runs -> Authorities \cup {None}]
  /\ trust \in [Runs -> Authorities \cup {None, Empty}]
  /\ cache \in [Runs -> [Hosts -> Conns \cup {None}]]
  /\ shake \in [Runs -> [Conns -> [at : {"idle", "minting", "served", "refused"},
                                   host : Hosts \cup {None}, leaf : Conns \cup {None}]]]
  /\ cutOff \in BOOLEAN /\ raced \in BOOLEAN

CertInit ==
  /\ \E f \in FirstFiles : certFile = f[1] /\ keyFile = f[2]
  /\ pc = [r \in Runs |-> "new"]
  /\ cert = [r \in Runs |-> None] /\ key = [r \in Runs |-> None]
  /\ trust = [r \in Runs |-> None]
  /\ cache = [r \in Runs |-> [h \in Hosts |-> None]]
  /\ shake = [r \in Runs |-> [c \in Conns |-> Idle]]
  /\ cutOff = FALSE /\ raced = FALSE

Goto(r, place) == pc' = [pc EXCEPT ![r] = place]

-----------------------------------------------------------------------------
(* LoadOrGenerate                                                          *)

OthersIn(r, places) == \E s \in Runs \ {r} : pc[s] \in places

(* Stat's verdict: r generates, or goes on towards loading the files.      *)
Decide(r, file, place) ==
  /\ Goto(r, IF file = None THEN "openCert" ELSE place)
  /\ raced' = (raced \/ OthersIn(r, IF file = None THEN Loading ELSE Generating))
  /\ UNCHANGED <<certFile, keyFile, cutOff, caVars, mintVars>>

(* A plausible mistake; no specification uses it: generate, whatever is    *)
(* there.                                                                  *)
StatNothing(r) ==
  /\ pc[r] = "new"
  /\ Decide(r, None, "statKey")

StatCert(r) ==
  /\ pc[r] = "new"
  /\ Decide(r, certFile, "statKey")

StatKey(r) ==
  /\ pc[r] = "statKey"
  /\ Decide(r, keyFile, "readCert")

ReadCert(r) ==
  /\ pc[r] = "readCert"
  /\ IF certFile = Empty
     THEN Goto(r, "failed") /\ UNCHANGED cert
     ELSE Goto(r, "readKey") /\ cert' = [cert EXCEPT ![r] = certFile]
  /\ UNCHANGED <<fileVars, key, trust, mintVars>>

\* Nothing compares the key with the certificate.
ReadKey(r) ==
  /\ pc[r] = "readKey"
  /\ IF keyFile = Empty
     THEN Goto(r, "failed") /\ UNCHANGED key
     ELSE Goto(r, "ready") /\ key' = [key EXCEPT ![r] = keyFile]
  /\ UNCHANGED <<fileVars, cert, trust, mintVars>>

\* os.WriteFile truncates the file, or creates it, and then writes it.
OpenCert(r) ==
  /\ pc[r] = "openCert"
  /\ certFile' = Empty
  /\ Goto(r, "writeCert")
  /\ UNCHANGED <<keyFile, cutOff, raced, caVars, mintVars>>

WriteCert(r) ==
  /\ pc[r] = "writeCert"
  /\ certFile' = r
  /\ Goto(r, "openKey")
  /\ UNCHANGED <<keyFile, cutOff, raced, caVars, mintVars>>

(* A plausible mistake; no specification uses it: a key that exists is     *)
(* kept.                                                                   *)
OpenKeyOnce(r) ==
  /\ pc[r] = "openKey"
  /\ keyFile' = IF keyFile = None THEN Empty ELSE keyFile
  /\ Goto(r, IF keyFile = None THEN "writeKey" ELSE "ready")
  /\ IF keyFile = None THEN UNCHANGED <<cert, key>>
     ELSE cert' = [cert EXCEPT ![r] = r] /\ key' = [key EXCEPT ![r] = r]
  /\ UNCHANGED <<certFile, cutOff, raced, trust, mintVars>>

OpenKey(r) ==
  /\ pc[r] = "openKey"
  /\ keyFile' = Empty
  /\ Goto(r, "writeKey")
  /\ UNCHANGED <<certFile, cutOff, raced, caVars, mintVars>>

WriteKey(r) ==
  /\ pc[r] = "writeKey"
  /\ keyFile' = r
  /\ cert' = [cert EXCEPT ![r] = r]
  /\ key' = [key EXCEPT ![r] = r]
  /\ Goto(r, "ready")
  /\ UNCHANGED <<certFile, cutOff, raced, trust, mintVars>>

\* A call of the file system fails, or the process is killed.
Stop(r) ==
  /\ pc[r] \in Loading
  /\ Goto(r, "failed")
  /\ cutOff' = (cutOff \/ (pc[r] = "openKey" /\ keyFile # None))
  /\ UNCHANGED <<certFile, keyFile, raced, caVars, mintVars>>

-----------------------------------------------------------------------------
(* The session                                                             *)

\* The child reads the file that NODE_EXTRA_CA_CERTS and the like name.
Launch(r) ==
  /\ pc[r] = "ready"
  /\ Goto(r, "running")
  /\ trust' = [trust EXCEPT ![r] = certFile]
  /\ UNCHANGED <<fileVars, cert, key, mintVars>>

(* CertFor: the cache has the leaf, or this connection will mint one.      *)
Lookup(r, c, h) ==
  /\ pc[r] = "running" /\ shake[r][c].at = "idle"
  /\ shake' = [shake EXCEPT ![r][c] =
       [at |-> IF cache[r][h] = None THEN "minting" ELSE "served",
        host |-> h, leaf |-> cache[r][h]]]
  /\ UNCHANGED <<pc, fileVars, caVars, cache>>

(* A plausible mistake; no specification uses it: Store in the place of    *)
(* LoadOrStore.                                                            *)
MintAndStore(r, c) ==
  /\ shake[r][c].at = "minting"
  /\ LET h == shake[r][c].host
     IN  /\ cache' = [cache EXCEPT ![r][h] = c]
         /\ shake' = [shake EXCEPT ![r][c] = [at |-> "served", host |-> h, leaf |-> c]]
  /\ UNCHANGED <<pc, fileVars, caVars>>

(* mint, and LoadOrStore: the first leaf stored for the host stays, and is *)
(* the one returned. x509.CreateCertificate refuses a key that is not the  *)
(* one of the parent certificate.                                          *)
Mint(r, c) ==
  /\ shake[r][c].at = "minting"
  /\ LET h == shake[r][c].host
         leaf == IF cache[r][h] = None THEN c ELSE cache[r][h]
     IN  IF cert[r] = key[r]
         THEN /\ cache' = [cache EXCEPT ![r][h] = leaf]
              /\ shake' = [shake EXCEPT ![r][c] = [at |-> "served", host |-> h, leaf |-> leaf]]
         ELSE /\ shake' = [shake EXCEPT ![r][c] = [at |-> "refused", host |-> h, leaf |-> None]]
              /\ UNCHANGED cache
  /\ UNCHANGED <<pc, fileVars, caVars>>

-----------------------------------------------------------------------------

LoadStep(r) ==
  \/ StatCert(r) \/ StatKey(r) \/ ReadCert(r) \/ ReadKey(r)
  \/ OpenCert(r) \/ WriteCert(r) \/ OpenKey(r) \/ WriteKey(r) \/ Stop(r)

SessionStep(r) ==
  Launch(r) \/ \E c \in Conns : Mint(r, c) \/ \E h \in Hosts : Lookup(r, c, h)

CertNext == \E r \in Runs : LoadStep(r) \/ SessionStep(r)

CertSpec == CertInit /\ [][CertNext]_vars

-----------------------------------------------------------------------------
(* Properties                                                              *)

HasCA(r) == pc[r] \in {"ready", "running"}

(* ca.go:32 "Idempotent across runs": two runs that have an authority have *)
(* the same one. First runs that overlap do not.                           *)
Idempotent == \A r, s \in Runs : HasCA(r) /\ HasCA(s) => cert[r] = cert[s] /\ key[r] = key[s]

(* They have the same one, whatever runs failed or were killed before or   *)
(* load at the same time, unless one generated while another was at it.    *)
SameCA == ~raced => Idempotent

(* ca.go:22: the child of a run trusts the authority its proxy signs with, *)
(* with the same exception.                                                *)
ChildTrustsItsCA == ~raced => \A r \in Runs : pc[r] = "running" => trust[r] = cert[r]

(* ca.go:30: what LoadOrGenerate returns is an authority: the key is the   *)
(* one of the certificate. A run that failed or was killed anywhere in its *)
(* writes does not change that, except between the two files while an      *)
(* older key is there. Even so, and in a race, nobody is served with a key *)
(* that is not the one of the certificate.                                 *)
PairMatches ==
  /\ ~raced /\ ~cutOff => \A r \in Runs : HasCA(r) => cert[r] = key[r]
  /\ \A r \in Runs, c \in Conns : shake[r][c].at = "served" => cert[r] = key[r]

(* What the properties rest on: once a run has an authority the files hold *)
(* it and no run replaces them; what a run has read or written so far is   *)
(* what the files hold; a file that was not finished keeps every later run *)
(* from loading; a served leaf is the one in the cache.                    *)
Alone == \A r, s \in Runs : pc[r] \in Generating /\ pc[s] \in Loading => r = s

FilesStand ==
  \A r \in Runs : HasCA(r) =>
    /\ cert[r] = certFile /\ key[r] = keyFile
    /\ certFile \in Authorities /\ keyFile \in Authorities
    /\ \A s \in Runs : pc[s] \notin Generating

InHand ==
  \A r \in Runs :
    /\ pc[r] \in {"statKey", "readCert", "readKey"} => certFile # None
    /\ pc[r] \in {"readCert", "readKey"} => keyFile # None
    /\ pc[r] = "readKey" => cert[r] = certFile /\ certFile # Empty
    /\ pc[r] = "writeCert" => certFile = Empty
    /\ pc[r] \in {"openKey", "writeKey"} => certFile = r
    /\ pc[r] = "writeKey" => keyFile = Empty

SavedPairMatches ==
  (~cutOff /\ certFile # None /\ keyFile # None /\ \A s \in Runs : pc[s] \notin Replacing)
    => certFile = keyFile \/ Empty \in {certFile, keyFile}

LeavesAreCached ==
  \A r \in Runs, c \in Conns :
    /\ shake[r][c].at # "idle" => shake[r][c].host \in Hosts
    /\ shake[r][c].at = "served" =>
         shake[r][c].leaf # None /\ cache[r][shake[r][c].host] = shake[r][c].leaf

MintedByAPair ==
  \A r \in Runs :
    /\ \A c \in Conns : shake[r][c].at # "idle" => pc[r] = "running"
    /\ \A h \in Hosts : cache[r][h] # None => pc[r] = "running" /\ cert[r] = key[r]

CertInv ==
  /\ CertTypeOK /\ LeavesAreCached /\ MintedByAPair
  /\ ~raced => Alone /\ FilesStand /\ InHand /\ SavedPairMatches
  /\ ChildTrustsItsCA

(* mint.go:31: all connections of a session to one host are served the     *)
(* same leaf, however their handshakes overlap.                            *)
OneLeafPerHost ==
  \A r \in Runs, c, d \in Conns :
    (shake[r][c].at = "served" /\ shake[r][d].at = "served"
       /\ shake[r][c].host = shake[r][d].host)
      => shake[r][c].leaf = shake[r][d].leaf
=============================================================================
