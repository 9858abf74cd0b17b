------------------------- MODULE CertAuthorityProofs -------------------------
(***************************************************************************)
(* CertInv is inductive: unless a run generates while another one is in    *)
(* LoadOrGenerate, every run has the same authority; the connections of a  *)
(* session to one host have the same leaf in any case.                     *)
(***************************************************************************)
EXTENDS CertAuthority, TLAPS

Serial == Alone /\ FilesStand /\ InHand /\ SavedPairMatches

(* Loading and the session leave each other's variables alone; the types   *)
(* of both.                                                                *)
LEMMA LoadKeepsTypes ==
  ASSUME CertTypeOK, NEW r \in Runs, LoadStep(r) \/ Launch(r)
  PROVE  CertTypeOK'
<1> USE CertAssumption DEF Goto, fileVars, caVars, mintVars, Decide, Loading, Generating, Replacing, Authorities
<1>1. CASE StatCert(r) \/ StatKey(r)
  BY <1>1 DEF CertTypeOK, StatCert, StatKey
<1>2. CASE ReadCert(r)
  <2>1. certFile \in Authorities \/ certFile = None \/ certFile = Empty
    BY DEF CertTypeOK
  <2>2. certFile # Empty => cert' = [cert EXCEPT ![r] = certFile]
    BY <1>2 DEF ReadCert
  <2>3. cert' \in [Runs -> Authorities \cup {None}]
    BY <1>2, <2>1, <2>2 DEF CertTypeOK, ReadCert
  <2> QED
    BY <1>2, <2>3 DEF CertTypeOK, ReadCert
<1>3. CASE ReadKey(r)
  <2>1. keyFile \in Authorities \/ keyFile = None \/ keyFile = Empty
    BY DEF CertTypeOK
  <2>2. key' \in [Runs -> Authorities \cup {None}]
    BY <1>3, <2>1 DEF CertTypeOK, ReadKey
  <2> QED
    BY <1>3, <2>2 DEF CertTypeOK, ReadKey
<1>4. CASE OpenCert(r) \/ WriteCert(r) \/ OpenKey(r)
  BY <1>4 DEF CertTypeOK, OpenCert, WriteCert, OpenKey
<1>5. CASE WriteKey(r)
  BY <1>5 DEF CertTypeOK, WriteKey
<1>6. CASE Stop(r)
  BY <1>6 DEF CertTypeOK, Stop
<1>7. CASE Launch(r)
  BY <1>7 DEF CertTypeOK, Launch
<1> QED
  BY <1>1, <1>2, <1>3, <1>4, <1>5, <1>6, <1>7 DEF LoadStep

LEMMA LoadKeepsSerial ==
  ASSUME CertTypeOK, ~raced, Serial, NEW r \in Runs, LoadStep(r) \/ Launch(r), ~raced'
  PROVE  Serial'
<1> USE CertAssumption DEF Goto, fileVars, caVars, mintVars, Loading, Generating, Replacing, HasCA
<1>1. /\ \A s \in Runs : s # r => pc'[s] = pc[s] /\ cert'[s] = cert[s] /\ key'[s] = key[s]
      /\ Authorities = Runs \cup {Old}
  BY DEF CertTypeOK, LoadStep, StatCert, StatKey, Decide, ReadCert, ReadKey, OpenCert,
         WriteCert, OpenKey, WriteKey, Stop, Launch, Authorities
<1>2. /\ pc[r] \in Generating => \A s \in Runs : s # r => pc[s] \notin Loading
      /\ pc[r] \in Loading => \A s \in Runs : s # r => pc[s] \notin Generating
  BY DEF Serial, Alone
<1>3. CASE StatCert(r)
  <2>1. /\ pc'[r] = IF certFile = None THEN "openCert" ELSE "statKey"
        /\ pc[r] = "new"
        /\ UNCHANGED <<certFile, keyFile, cutOff, cert, key, trust>>
    BY <1>3 DEF StatCert, Decide, CertTypeOK
  <2>2. /\ certFile = None => \A s \in Runs : s # r => pc[s] \notin Loading
        /\ certFile # None => \A s \in Runs : s # r => pc[s] \notin Generating
    BY <1>3 DEF StatCert, Decide, OthersIn
  <2>3. Alone' /\ FilesStand'
    BY <1>1, <2>1, <2>2 DEF Serial, Alone, FilesStand, Authorities
  <2>4. InHand' /\ SavedPairMatches'
    BY <1>1, <2>1 DEF Serial, InHand, SavedPairMatches
  <2> QED
    BY <2>3, <2>4 DEF Serial
<1>4. CASE StatKey(r)
  <2>1. /\ pc[r] = "statKey" /\ pc'[r] = IF keyFile = None THEN "openCert" ELSE "readCert"
        /\ UNCHANGED <<certFile, keyFile, cutOff, cert, key, trust>>
    BY <1>4 DEF StatKey, Decide, CertTypeOK
  <2>2. keyFile = None => \A s \in Runs : s # r => pc[s] \notin Loading
    BY <1>4 DEF StatKey, Decide, OthersIn
  <2>3. Alone' /\ FilesStand'
    BY <1>1, <1>2, <2>1, <2>2 DEF Serial, Alone, FilesStand, Authorities
  <2>4. InHand' /\ SavedPairMatches'
    BY <1>1, <2>1 DEF Serial, InHand, SavedPairMatches
  <2> QED
    BY <2>3, <2>4 DEF Serial
<1>5. CASE ReadCert(r)
  <2>1. /\ pc[r] = "readCert" /\ pc'[r] = IF certFile = Empty THEN "failed" ELSE "readKey"
        /\ certFile # Empty => cert'[r] = certFile
        /\ UNCHANGED <<certFile, keyFile, cutOff, key, trust>>
    BY <1>5 DEF ReadCert, CertTypeOK
  <2>2. Alone' /\ FilesStand'
    BY <1>1, <1>2, <2>1 DEF Serial, Alone, FilesStand, Authorities
  <2>3. InHand' /\ SavedPairMatches'
    BY <1>1, <2>1 DEF Serial, InHand, SavedPairMatches
  <2> QED
    BY <2>2, <2>3 DEF Serial
<1>6. CASE ReadKey(r)
  <2>1. /\ pc[r] = "readKey" /\ pc'[r] = IF keyFile = Empty THEN "failed" ELSE "ready"
        /\ keyFile # Empty => key'[r] = keyFile
        /\ UNCHANGED <<certFile, keyFile, cutOff, cert, trust>>
    BY <1>6 DEF ReadKey, CertTypeOK
  <2>2. cert[r] = certFile /\ certFile \in Authorities /\ keyFile # None
    BY <2>1 DEF Serial, InHand, CertTypeOK
  <2>3. keyFile # Empty => keyFile \in Authorities
    BY <2>2 DEF CertTypeOK
  <2>4. Alone' /\ FilesStand'
    BY <1>1, <1>2, <2>1, <2>2, <2>3 DEF Serial, Alone, FilesStand, Authorities
  <2>5. InHand' /\ SavedPairMatches'
    BY <1>1, <2>1 DEF Serial, InHand, SavedPairMatches
  <2> QED
    BY <2>4, <2>5 DEF Serial
<1>7. CASE OpenCert(r) \/ WriteCert(r) \/ OpenKey(r)
  <2>1. /\ pc[r] \in {"openCert", "writeCert", "openKey"}
        /\ pc'[r] \in {"writeCert", "openKey", "writeKey"}
        /\ pc'[r] = "writeCert" => certFile' = Empty
        /\ pc'[r] \in {"openKey", "writeKey"} => certFile' = r
        /\ pc'[r] = "writeKey" => keyFile' = Empty
        /\ \A s \in Runs : s # r => pc[s] \notin Loading
        /\ UNCHANGED <<cutOff, cert, key, trust>>
    BY <1>2, <1>7 DEF OpenCert, WriteCert, OpenKey, CertTypeOK, Serial, InHand
  <2>2. \A s \in Runs : ~HasCA(s)
    BY <2>1, <1>7 DEF Serial, FilesStand, OpenCert, WriteCert, OpenKey
  <2>3. Alone' /\ FilesStand'
    BY <1>1, <2>1, <2>2 DEF Serial, Alone, FilesStand
  <2>4. InHand' /\ SavedPairMatches'
    BY <1>1, <2>1, <2>2 DEF Serial, InHand, SavedPairMatches
  <2> QED
    BY <2>3, <2>4 DEF Serial
<1>8. CASE WriteKey(r)
  <2>1. /\ pc[r] = "writeKey" /\ pc'[r] = "ready" /\ keyFile' = r /\ cert'[r] = r /\ key'[r] = r
        /\ \A s \in Runs : s # r => pc[s] \notin Loading
        /\ UNCHANGED <<certFile, cutOff, trust>>
    BY <1>2, <1>8 DEF WriteKey, CertTypeOK
  <2>2. certFile = r /\ \A s \in Runs : ~HasCA(s)
    BY <2>1 DEF Serial, InHand, FilesStand
  <2>3. Alone' /\ FilesStand'
    BY <1>1, <2>1, <2>2 DEF Serial, Alone, FilesStand, Authorities
  <2>4. InHand' /\ SavedPairMatches'
    BY <1>1, <2>1, <2>2 DEF Serial, InHand, SavedPairMatches
  <2> QED
    BY <2>3, <2>4 DEF Serial
<1>9. CASE Stop(r)
  <2>1. /\ pc[r] \in Loading /\ pc'[r] = "failed" /\ cutOff' = (cutOff \/ (pc[r] = "openKey" /\ keyFile # None))
        /\ UNCHANGED <<certFile, keyFile, cert, key, trust>>
    BY <1>9 DEF Stop, CertTypeOK
  <2>2. Alone' /\ FilesStand'
    BY <1>1, <2>1 DEF Serial, Alone, FilesStand, Authorities
  <2>3. SavedPairMatches'
    <3>1. CASE pc[r] \in Replacing
      BY <2>1, <3>1 DEF Serial, InHand, SavedPairMatches
    <3>2. CASE pc[r] \notin Replacing
      BY <1>1, <2>1, <3>2 DEF Serial, SavedPairMatches
    <3> QED
      BY <3>1, <3>2
  <2>4. InHand'
    BY <1>1, <2>1 DEF Serial, InHand
  <2> QED
    BY <2>2, <2>3, <2>4 DEF Serial
<1>10. CASE Launch(r)
  <2>1. /\ pc[r] = "ready" /\ pc'[r] = "running"
        /\ UNCHANGED <<certFile, keyFile, cutOff, cert, key>>
    BY <1>10 DEF Launch, CertTypeOK
  <2>2. Alone' /\ FilesStand'
    BY <1>1, <2>1 DEF Serial, Alone, FilesStand, Authorities
  <2>3. InHand' /\ SavedPairMatches'
    BY <1>1, <2>1 DEF Serial, InHand, SavedPairMatches
  <2> QED
    BY <2>2, <2>3 DEF Serial
<1> QED
  BY <1>3, <1>4, <1>5, <1>6, <1>7, <1>8, <1>9, <1>10 DEF LoadStep

(* A child starts with the authority its run has; it is the one in the     *)
(* files.                                                                  *)
LEMMA LoadKeepsTrust ==
  ASSUME CertTypeOK, ~raced => FilesStand, ChildTrustsItsCA,
         NEW r \in Runs, LoadStep(r) \/ Launch(r), raced => raced'
  PROVE  ChildTrustsItsCA'
<1> SUFFICES ASSUME ~raced', NEW s \in Runs, pc'[s] = "running" PROVE trust'[s] = cert'[s]
  BY DEF ChildTrustsItsCA
<1>1. ~raced
  OBVIOUS
<1>2. CASE Launch(r)
  <2>1. pc[r] = "ready" /\ trust' = [trust EXCEPT ![r] = certFile] /\ cert' = cert
        /\ pc' = [pc EXCEPT ![r] = "running"]
    BY <1>2 DEF Launch, Goto
  <2>2. cert[r] = certFile
    BY <1>1, <2>1 DEF FilesStand, HasCA
  <2> QED
    BY <1>1, <2>1, <2>2 DEF ChildTrustsItsCA, CertTypeOK
<1>3. CASE LoadStep(r)
  <2>1. /\ pc'[r] # "running" /\ trust' = trust
        /\ \A q \in Runs : q # r => pc'[q] = pc[q] /\ cert'[q] = cert[q]
    BY <1>3 DEF CertTypeOK, LoadStep, StatCert, StatKey, Decide, ReadCert, ReadKey, OpenCert,
                WriteCert, OpenKey, WriteKey, Stop, Goto, caVars
  <2> QED
    BY <1>1, <2>1 DEF ChildTrustsItsCA
<1> QED
  BY <1>2, <1>3

(* Nothing but a mint fills the cache, and a run keeps what it mints with. *)
LEMMA LoadKeepsMinted ==
  ASSUME CertTypeOK, MintedByAPair, NEW r \in Runs, LoadStep(r) \/ Launch(r)
  PROVE  MintedByAPair'
<1>1. UNCHANGED <<cache, shake>>
  BY DEF LoadStep, StatCert, StatKey, Decide, ReadCert, ReadKey, OpenCert,
         WriteCert, OpenKey, WriteKey, Stop, Launch, mintVars
<1>2. pc[r] # "running"
  BY DEF LoadStep, StatCert, StatKey, ReadCert, ReadKey, OpenCert,
         WriteCert, OpenKey, WriteKey, Stop, Launch, Loading, Generating, Replacing
<1>3. \A s \in Runs : s # r => pc'[s] = pc[s] /\ cert'[s] = cert[s] /\ key'[s] = key[s]
  BY DEF CertTypeOK, LoadStep, StatCert, StatKey, Decide, ReadCert, ReadKey, OpenCert,
         WriteCert, OpenKey, WriteKey, Stop, Launch, Goto, caVars
<1> QED
  BY <1>1, <1>2, <1>3 DEF MintedByAPair

(* A lookup, or what a mint stores, keeps the leaves of the cache.         *)
LEMMA ShakeKeepsInv ==
  ASSUME CertInv, NEW r \in Runs, NEW c \in Conns,
         Mint(r, c) \/ \E h \in Hosts : Lookup(r, c, h)
  PROVE  CertInv'
<1>1. CertTypeOK /\ LeavesAreCached /\ None \notin Conns
  BY CertAssumption DEF CertInv
<1>2. UNCHANGED <<certFile, keyFile, cutOff, raced, pc, cert, key, trust>>
  BY DEF Mint, Lookup, fileVars, caVars
<1>3. (~raced => Serial)' /\ ChildTrustsItsCA'
  <2>1. (~raced => Serial) /\ ChildTrustsItsCA
    BY DEF CertInv, Serial
  <2> QED
    BY <1>2, <2>1 DEF Serial, Alone, FilesStand, InHand, SavedPairMatches, ChildTrustsItsCA, HasCA
<1>4. ASSUME CertTypeOK', shake'[r][c].at # "idle" => pc[r] = "running",
             \A d \in Conns \ {c} : shake'[r][d] = shake[r][d],
             \A s \in Runs \ {r} : shake'[s] = shake[s] /\ cache'[s] = cache[s],
             cache'[r] = cache[r] \/ (pc[r] = "running" /\ cert[r] = key[r])
      PROVE  MintedByAPair'
  <2>1. MintedByAPair
    BY DEF CertInv
  <2> SUFFICES ASSUME NEW s \in Runs
               PROVE  /\ \A d \in Conns : shake'[s][d].at # "idle" => pc[s] = "running"
                      /\ \A h \in Hosts : cache'[s][h] # None =>
                           pc[s] = "running" /\ cert[s] = key[s]
    BY <1>2 DEF MintedByAPair
  <2>2. CASE s # r
    BY <1>4, <2>1, <2>2 DEF MintedByAPair
  <2>3. CASE s = r
    BY <1>4, <2>1, <2>3 DEF MintedByAPair
  <2> QED
    BY <2>2, <2>3
<1>5. CASE \E h \in Hosts : Lookup(r, c, h)
  <2>1. PICK h \in Hosts : Lookup(r, c, h)
    BY <1>5
  <2> DEFINE leaf == cache[r][h]
             e == [at |-> IF leaf = None THEN "minting" ELSE "served", host |-> h, leaf |-> leaf]
  <2>2. shake' = [shake EXCEPT ![r][c] = e] /\ cache' = cache
    BY <2>1, Zenon DEF Lookup
  <2>3. leaf \in Conns \cup {None}
    BY <1>1 DEF CertTypeOK
  <2>4. CertTypeOK'
    BY <1>1, <1>2, <2>2, <2>3 DEF CertTypeOK
  <2>5. LeavesAreCached'
    <3> SUFFICES ASSUME NEW s \in Runs, NEW d \in Conns
                 PROVE /\ shake'[s][d].at # "idle" => shake'[s][d].host \in Hosts
                       /\ shake'[s][d].at = "served" =>
                            /\ shake'[s][d].leaf # None
                            /\ cache'[s][shake'[s][d].host] = shake'[s][d].leaf
      BY DEF LeavesAreCached
    <3>1. CASE s = r /\ d = c
      <4>1. shake'[s][d] = e
        BY <1>1, <2>2, <3>1 DEF CertTypeOK
      <4> QED
        BY <2>2, <3>1, <4>1
    <3>2. CASE ~(s = r /\ d = c)
      <4>1. shake'[s][d] = shake[s][d]
        BY <1>1, <2>2, <3>2 DEF CertTypeOK
      <4> QED
        BY <1>1, <2>2, <4>1 DEF LeavesAreCached
    <3> QED
      BY <3>1, <3>2
  <2>6. MintedByAPair'
    BY <1>1, <1>4, <2>1, <2>2, <2>4 DEF CertTypeOK, Lookup
  <2> QED
    BY <1>3, <2>4, <2>5, <2>6 DEF CertInv, Serial
<1>6. CASE Mint(r, c)
  <2> DEFINE h == shake[r][c].host
             leaf == IF cache[r][h] = None THEN c ELSE cache[r][h]
             served == [at |-> "served", host |-> h, leaf |-> leaf]
             refused == [at |-> "refused", host |-> h, leaf |-> None]
  <2>1. h \in Hosts
    BY <1>1, <1>6 DEF Mint, LeavesAreCached
  <2>2. leaf \in Conns /\ leaf # None
    BY <1>1, <2>1 DEF CertTypeOK
  <2>3. \/ /\ shake' = [shake EXCEPT ![r][c] = served]
           /\ cache' = [cache EXCEPT ![r][h] = leaf]
        \/ shake' = [shake EXCEPT ![r][c] = refused] /\ cache' = cache
    BY <1>6, Zenon DEF Mint
  <2>4. /\ served.at = "served" /\ served.host = h /\ served.leaf = leaf
        /\ refused.at = "refused" /\ refused.host = h
        /\ {served, refused} \subseteq
             [at : {"idle", "minting", "served", "refused"},
              host : Hosts \cup {None}, leaf : Conns \cup {None}]
    BY <2>1, <2>2
  <2>5. leaf = IF cache[r][h] = None THEN c ELSE cache[r][h]
    OBVIOUS
  <2> HIDE DEF served, refused, leaf, h
  <2>6. CertTypeOK'
    <3>1. cache' \in [Runs -> [Hosts -> Conns \cup {None}]]
      <4>1. cache \in [Runs -> [Hosts -> Conns \cup {None}]]
        BY <1>1 DEF CertTypeOK
      <4>2. [cache[r] EXCEPT ![h] = leaf] \in [Hosts -> Conns \cup {None}]
        BY <2>2, <4>1
      <4>3. [cache EXCEPT ![r][h] = leaf] \in [Runs -> [Hosts -> Conns \cup {None}]]
        BY <4>1, <4>2
      <4> QED
        BY <2>3, <4>1, <4>3, Zenon
    <3>2. shake' \in [Runs -> [Conns -> [at : {"idle", "minting", "served", "refused"},
                                       host : Hosts \cup {None}, leaf : Conns \cup {None}]]]
      <4> DEFINE E == [at : {"idle", "minting", "served", "refused"},
                       host : Hosts \cup {None}, leaf : Conns \cup {None}]
      <4>1. shake \in [Runs -> [Conns -> E]] /\ served \in E /\ refused \in E
        BY <1>1, <2>4, Zenon DEF CertTypeOK
      <4> HIDE DEF E
      <4>2. ASSUME NEW e \in E PROVE [shake EXCEPT ![r][c] = e] \in [Runs -> [Conns -> E]]
        <5>1. [shake[r] EXCEPT ![c] = e] \in [Conns -> E]
          BY <4>1, <4>2
        <5> QED
          BY <4>1, <5>1
      <4>3. shake' \in [Runs -> [Conns -> E]]
        BY <2>3, <4>1, <4>2, Zenon
      <4> QED
        BY <4>3 DEF E
    <3> QED
      BY <1>1, <1>2, <3>1, <3>2 DEF CertTypeOK
  <2>7. LeavesAreCached'
    <3> SUFFICES ASSUME NEW s \in Runs, NEW d \in Conns
                 PROVE /\ shake'[s][d].at # "idle" => shake'[s][d].host \in Hosts
                       /\ shake'[s][d].at = "served" =>
                            /\ shake'[s][d].leaf # None
                            /\ cache'[s][shake'[s][d].host] = shake'[s][d].leaf
      BY DEF LeavesAreCached
    <3>1. CASE s = r /\ d = c
      <4>1. \/ shake'[s][d] = served /\ cache'[s][h] = leaf
            \/ shake'[s][d] = refused
        BY <1>1, <2>1, <2>3, <3>1 DEF CertTypeOK
      <4> QED
        BY <2>1, <2>2, <2>4, <4>1
    <3>2. CASE ~(s = r /\ d = c)
      <4>1. shake'[s][d] = shake[s][d]
        BY <1>1, <2>3, <3>2 DEF CertTypeOK
      <4>2. \A x \in Hosts : cache[s][x] # None => cache'[s][x] = cache[s][x]
        <5>1. cache \in [Runs -> [Hosts -> Conns \cup {None}]]
          BY <1>1 DEF CertTypeOK
        <5>2. CASE cache' = [cache EXCEPT ![r][h] = leaf]
          BY <2>5, <5>1, <5>2
        <5> QED
          BY <2>3, <5>2
      <4> QED
        BY <1>1, <4>1, <4>2 DEF LeavesAreCached
    <3> QED
      BY <3>1, <3>2
  <2>8. MintedByAPair'
    <3>1. pc[r] = "running"
      BY <1>6 DEF Mint, CertInv, MintedByAPair
    <3>2. cache' = cache \/ cert[r] = key[r]
      BY <1>6 DEF Mint
    <3>3. /\ \A d \in Conns \ {c} : shake'[r][d] = shake[r][d]
          /\ \A s \in Runs \ {r} : shake'[s] = shake[s] /\ cache'[s] = cache[s]
      BY <1>1, <2>3 DEF CertTypeOK
    <3> QED
      BY <1>4, <2>6, <3>1, <3>2, <3>3
  <2> QED
    BY <1>3, <2>6, <2>7, <2>8 DEF CertInv, Serial
<1> QED
  BY <1>5, <1>6

-----------------------------------------------------------------------------

(* The inductive invariant of LoadOrGenerate and CertFor, for any runs,    *)
(* connections, hosts and files at the start.                              *)
THEOREM CertCorrect == CertSpec => []CertInv
<1>1. CertInit => CertInv
  <2> SUFFICES ASSUME CertInit PROVE CertInv
    OBVIOUS
  <2>1. /\ certFile \in {None, Old} /\ keyFile \in {None, Old}
        /\ cutOff = FALSE /\ raced = FALSE
        /\ \A r \in Runs : pc[r] = "new"
    BY CertAssumption DEF CertInit
  <2>2. CertTypeOK
    BY <2>1 DEF CertInit, CertTypeOK, Authorities, Idle
  <2>3. LeavesAreCached /\ MintedByAPair
    BY DEF CertInit, LeavesAreCached, MintedByAPair, Idle
  <2>4. Alone /\ FilesStand /\ InHand /\ ChildTrustsItsCA
    BY <2>1 DEF Alone, FilesStand, InHand, ChildTrustsItsCA, HasCA, Loading, Generating, Replacing
  <2>5. SavedPairMatches
    BY <2>1, CertAssumption DEF SavedPairMatches
  <2> QED
    BY <2>2, <2>3, <2>4, <2>5 DEF CertInv
<1>2. CertInv /\ [CertNext]_vars => CertInv'
  <2> SUFFICES ASSUME CertInv, [CertNext]_vars PROVE CertInv'
    OBVIOUS
  <2>1. ASSUME NEW r \in Runs, LoadStep(r) \/ Launch(r) PROVE CertInv'
    <3>1. CertTypeOK /\ LeavesAreCached /\ MintedByAPair /\ ChildTrustsItsCA /\ (~raced => Serial)
      BY DEF CertInv, Serial
    <3>2. UNCHANGED <<cache, shake>> /\ (raced => raced')
      <4>1. raced => raced'
        <5>1. CASE StatCert(r) \/ StatKey(r)
          BY <5>1 DEF StatCert, StatKey, Decide
        <5>2. CASE ~(StatCert(r) \/ StatKey(r))
          BY <2>1, <5>2 DEF LoadStep, ReadCert, ReadKey, OpenCert, WriteCert, OpenKey, WriteKey,
                            Stop, Launch, fileVars
        <5> QED
          BY <5>1, <5>2
      <4>2. UNCHANGED <<cache, shake>>
        BY <2>1 DEF LoadStep, StatCert, StatKey, Decide, ReadCert, ReadKey, OpenCert,
                    WriteCert, OpenKey, WriteKey, Stop, Launch, mintVars
      <4> QED
        BY <4>1, <4>2
    <3>3. LeavesAreCached' /\ MintedByAPair'
      BY <2>1, <3>1, <3>2, LoadKeepsMinted DEF LeavesAreCached
    <3>4. CertTypeOK'
      BY <2>1, <3>1, LoadKeepsTypes
    <3>5. ~raced' => Serial'
      BY <2>1, <3>1, <3>2, LoadKeepsSerial
    <3>6. ChildTrustsItsCA'
      BY <2>1, <3>1, <3>2, LoadKeepsTrust DEF Serial
    <3> QED
      BY <3>3, <3>4, <3>5, <3>6 DEF CertInv, Serial
  <2>2. ASSUME NEW r \in Runs, SessionStep(r) PROVE CertInv'
    BY <2>1, <2>2, ShakeKeepsInv DEF SessionStep
  <2>3. CASE UNCHANGED vars
    BY <2>3 DEF vars, CertInv, CertTypeOK, LeavesAreCached, MintedByAPair, Alone, FilesStand,
                InHand, SavedPairMatches, ChildTrustsItsCA, HasCA
  <2> QED
    BY <2>1, <2>2, <2>3 DEF CertNext
<1> QED
  BY <1>1, <1>2, PTL DEF CertSpec

(* Unless a run generates while another one is in LoadOrGenerate, all runs *)
(* have the same authority, whatever fails or is killed: ca.go:32.         *)
THEOREM RunsShareTheCA == CertSpec => []SameCA
<1>1. CertInv => SameCA
  BY DEF CertInv, FilesStand, SameCA, Idempotent
<1> QED
  BY <1>1, CertCorrect, PTL

(* And the child of a run trusts what its proxy signs with: ca.go:22.      *)
THEOREM ChildrenTrustTheirCA == CertSpec => []ChildTrustsItsCA
<1>1. CertInv => ChildTrustsItsCA
  BY DEF CertInv
<1> QED
  BY <1>1, CertCorrect, PTL

(* And the key is the one of the certificate, unless a run was stopped     *)
(* between the two files and left an older key; whoever is served at all   *)
(* is served with a pair that matches, in races too.                       *)
THEOREM PairsMatch == CertSpec => []PairMatches
<1>1. ASSUME CertInv, ~raced, ~cutOff, NEW r \in Runs, HasCA(r) PROVE cert[r] = key[r]
  <2>1. /\ cert[r] = certFile /\ key[r] = keyFile
        /\ certFile \in Authorities /\ keyFile \in Authorities
        /\ \A s \in Runs : pc[s] \notin Replacing
    BY <1>1 DEF CertInv, FilesStand, Generating
  <2>2. certFile \notin {None, Empty} /\ keyFile \notin {None, Empty}
    BY <2>1, CertAssumption DEF Authorities
  <2> QED
    BY <1>1, <2>1, <2>2 DEF CertInv, SavedPairMatches
<1>2. ASSUME CertInv, NEW r \in Runs, NEW c \in Conns, shake[r][c].at = "served"
      PROVE  cert[r] = key[r]
  BY <1>2 DEF CertInv, LeavesAreCached, MintedByAPair
<1>3. CertInv => PairMatches
  BY <1>1, <1>2 DEF PairMatches
<1> QED
  BY <1>3, CertCorrect, PTL

(* The connections of a session to one host are served the same leaf,      *)
(* whatever the runs do at the same time: mint.go:31.                      *)
THEOREM HostsHaveOneLeaf == CertSpec => []OneLeafPerHost
<1>1. CertInv => OneLeafPerHost
  BY DEF CertInv, LeavesAreCached, OneLeafPerHost
<1> QED
  BY <1>1, CertCorrect, PTL
=============================================================================
