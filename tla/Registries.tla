------------------------------- MODULE Registries -------------------------------
(* The docker client's config.json as the control plane keeps it (registries/registries.go): two  *)
(* requests that store or remove a credential, down to the files they open. Every write goes to   *)
(* one temporary name, which holds the process id and nothing of the request, and is renamed.     *)
EXTENDS Naturals, FiniteSets
CONSTANTS Savers, Registry, Credential, HalfWritten, NoCredential,
          Inodes,    \* files there can be
          MaxWrites  \* requests made
ASSUME RegistriesAssumption == MaxWrites \in Nat /\ NoCredential \notin Credential

VARIABLES inode,   \* what a file holds, and whether its mode is 0600
          config,  \* the file under the name config.json, {} for none
          tmp,     \* the file under the temporary name, {} for none
          call,    \* where each request is
          writes
registriesVars == <<inode, config, tmp, call, writes>>

Documents == [Registry -> Credential \cup {NoCredential}]
NoEntries == [r \in Registry |-> NoCredential]
Blank == [data |-> HalfWritten, closed |-> FALSE]
Returned == [at |-> "done", fd |-> {}]

RegistriesInit ==
    /\ \E first \in Inodes, known \in {NoEntries} \cup [Registry -> Credential] :
         /\ config \in {{}, {first}}
         /\ inode = [i \in Inodes |-> IF i = first THEN [data |-> known, closed |-> TRUE] ELSE Blank]
    /\ tmp = {}
    /\ call = [r \in Savers |-> Returned]
    /\ writes = 0

\* read: an absent file and one that does not parse both mean no usable credentials.
Parsed(file) == IF file = {} THEN NoEntries
               ELSE LET i == CHOOSE x \in file : TRUE IN IF inode[i].data = HalfWritten THEN NoEntries ELSE inode[i].data
Free(i) == i \notin config \cup tmp /\ \A r \in Savers : i \notin call[r].fd
Advance(r, at) == call' = [call EXCEPT ![r].at = at]

\* Put asks for a credential, Remove for none. A request that starts overlaps those under way.
Start(r, registry, credential) ==
    /\ call[r] = Returned /\ writes < MaxWrites /\ writes' = writes + 1
    /\ LET others == {q \in Savers \ {r} : call[q] # Returned}
       IN  call' = [q \in Savers |->
             IF q = r THEN [at |-> "probe", fd |-> {}, registry |-> registry, credential |-> credential,
                            cfg |-> NoEntries, alone |-> others = {}]
             ELSE IF q \in others THEN [call[q] EXCEPT !.alone = FALSE] ELSE call[q]]
    /\ UNCHANGED <<inode, config, tmp>>

\* Writable, then read; there is nothing to remove where nothing is.
Read(r) ==
    /\ call[r].at = "probe"
    /\ \/ call' = [call EXCEPT ![r] = Returned]  \* the directory is not writable
       \/ LET cfg == Parsed(config)
          IN  call' = [call EXCEPT ![r] =
                IF call[r].credential = NoCredential /\ cfg[call[r].registry] = NoCredential THEN Returned
                ELSE [@ EXCEPT !.at = "open", !.cfg = [cfg EXCEPT ![call[r].registry] = call[r].credential]]]
    /\ UNCHANGED <<inode, config, tmp, writes>>

\* WriteFile: the temporary file is created or truncated, then filled.
Open(r) ==
    /\ call[r].at = "open"
    /\ \E i \in Inodes :
         /\ IF tmp = {} THEN Free(i) /\ inode' = [inode EXCEPT ![i] = Blank]
                        ELSE i \in tmp /\ inode' = [inode EXCEPT ![i].data = HalfWritten]
         /\ tmp' = {i}
         /\ call' = [call EXCEPT ![r].at = "fill", ![r].fd = {i}]
    /\ UNCHANGED <<config, writes>>
\* Written over what another request filled in the meantime, a shorter one leaves that one's end.
WriteTmp(r) ==
    /\ call[r].at = "fill" /\ Advance(r, "chmod")
    /\ \E i \in call[r].fd :
         \E data \in {call[r].cfg} \cup (IF inode[i].data \in {HalfWritten, call[r].cfg} THEN {} ELSE {HalfWritten}) :
           inode' = [inode EXCEPT ![i].data = data]
    /\ UNCHANGED <<config, tmp, writes>>
\* fail: whatever is under the temporary name goes.
GiveUp(r) ==
    /\ tmp' = {} /\ call' = [call EXCEPT ![r] = Returned]
    /\ UNCHANGED <<inode, config, writes>>
WriteTmpFails(r) == call[r].at = "fill" /\ GiveUp(r)
ChmodTmp_Forgotten(r) == call[r].at = "chmod" /\ Advance(r, "rename") /\ UNCHANGED <<inode, config, tmp, writes>>
ChmodTmp(r) ==
    /\ call[r].at = "chmod"
    /\ IF tmp = {} THEN GiveUp(r)
       ELSE /\ inode' = [i \in Inodes |-> IF i \in tmp THEN [inode[i] EXCEPT !.closed = TRUE] ELSE inode[i]]
            /\ Advance(r, "rename") /\ UNCHANGED <<config, tmp, writes>>
Rename(r) ==
    /\ call[r].at = "rename"
    /\ IF tmp = {} THEN GiveUp(r)
       ELSE /\ config' = tmp /\ tmp' = {} /\ call' = [call EXCEPT ![r] = Returned]
            /\ UNCHANGED <<inode, writes>>

RegistriesNext ==
    \E r \in Savers :
        \/ \E registry \in Registry, credential \in Credential \cup {NoCredential} : Start(r, registry, credential)
        \/ Read(r) \/ Open(r) \/ WriteTmp(r) \/ WriteTmpFails(r) \/ ChmodTmp(r) \/ Rename(r)
RegistriesSpec == RegistriesInit /\ [][RegistriesNext]_registriesVars
--------------------------------------------------------------------------------
(* What a stored credential may do to the others, and what docker finds at any moment. *)

RegistriesTypeOK ==
    /\ config \subseteq Inodes /\ tmp \subseteq Inodes /\ Cardinality(config) <= 1 /\ Cardinality(tmp) <= 1
    /\ \A i \in Inodes : inode[i].data \in Documents \cup {HalfWritten} /\ inode[i].closed \in BOOLEAN
    /\ \A r \in Savers : call[r].fd \subseteq Inodes

\* A request no other overlaps changes its own entry and no other one, wherever it fails, and leaves
\* the file whole and closed to others (registries.go:195-200, 265-268), also when an earlier overlap left a
\* torn file or a temporary one behind.
AloneKeeps ==
    [][\A r \in Savers : call[r].at \in {"fill", "chmod", "rename"} /\ call[r].alone /\ call'[r] = Returned =>
        \/ config' = config /\ \A i \in config : inode'[i] = inode[i]
        \/ \A i \in config' : /\ inode'[i].closed
                              /\ inode'[i].data = [Parsed(config) EXCEPT ![call[r].registry] = call[r].credential]
      ]_registriesVars

\* registries.go:198-200: docker may read the file at any moment, so it is never found truncated.
DockerParses == \A i \in config : inode[i].data # HalfWritten
================================================================================
