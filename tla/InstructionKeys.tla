--------------------------- MODULE InstructionKeys ---------------------------
(***************************************************************************)
(* Settlement instructions and the key ring that signs them                *)
(* (packages/core/src/engine/settlement-instruction-service.ts and         *)
(* settlement-instruction-signing.ts).                                     *)
(*                                                                         *)
(* The vault holds the generations of the signing key, one entry each; a   *)
(* process loads them into a ring, one read at a time, and caches the      *)
(* ring.  The first load ever mints generation 1; an operator's tool mints *)
(* the next.  Nothing reserves a generation between the read that finds it *)
(* absent and the write, so two minters may write the same one: raced      *)
(* records that two were ever about to write at once.                      *)
(*                                                                         *)
(* A key is a number, counted as keys are minted.  Payloads are left out:  *)
(* an instruction is the key that signed it and its counter-signature,     *)
(* which is the request that attached it.                                  *)
(***************************************************************************)
EXTENDS Naturals, Sequences

CONSTANTS
    Nodes,          \* processes of the service or of the operator's tool
    Requests,
    Instructions,   \* instruction ids
    MaxGenerations, \* MAX_KEY_GENERATIONS
    None

ASSUME KeysAssumption == MaxGenerations \in Nat \ {0} /\ None \notin Requests

Operations == {"generate", "publish", "rotate", "countersign"}

Location == {"idle", "load", "loaded", "put", "store", "attach"}

\* A request: the await it is in, its operation and process, the generations its
\* load has found, the key it signs with, the instruction it counter-signs.
Request == [at : Location, op : Operations, node : Nodes \cup {None}, found : Seq(Nat \ {0}),
            key : Nat, on : Instructions \cup {None}]

Idle == [at |-> "idle", op |-> "publish", node |-> None, found |-> <<>>, key |-> 0, on |-> None]

\* A request that starts at an await.
Begun(at, op, n) == [Idle EXCEPT !.at = at, !.op = op, !.node = n]

Row == [key : Nat \ {0}, counter : Requests \cup {None}]

ASSUME RowAssumption == None \notin Row

VARIABLES
    vault,         \* vault[g]: the key stored as generation g
    minted,        \* keys minted so far
    ring,          \* ring[n]: the cached key ring of a process, empty when null
    instructions,  \* instructions[i]: its row, or None
    req,           \* req[r]: a request's local state
    booted,        \* history: booted[n]: generations in the vault when n started
    raced          \* history: two requests were about to write a generation at once

vars == <<vault, minted, ring, instructions, req, booted, raced>>

KeyRing == Seq(Nat \ {0})

TypeOK ==
    /\ vault \in KeyRing /\ Len(vault) <= MaxGenerations
    /\ minted \in Nat
    /\ ring \in [Nodes -> KeyRing]
    /\ instructions \in [Instructions -> Row \cup {None}]
    /\ req \in [Requests -> Request]
    /\ booted \in [Nodes -> 0 .. MaxGenerations]
    /\ raced \in BOOLEAN

Init ==
    /\ vault = <<>>
    /\ minted = 0
    /\ ring = [n \in Nodes |-> <<>>]
    /\ instructions = [i \in Instructions |-> None]
    /\ req = [r \in Requests |-> Idle]
    /\ booted = [n \in Nodes |-> 0]
    /\ raced = FALSE

-----------------------------------------------------------------------------
(* Helpers                                                                 *)

At(r, location) == req[r].at = location

Goto(r, to) == req' = [req EXCEPT ![r].at = to]

Answer(r) == req' = [req EXCEPT ![r] = Idle]

\* Mutant: the first generation found goes on signing.
ActiveFirst(keys) == keys[1]

\* The last generation found signs.
Active(keys) == keys[Len(keys)]

\* Mutant: the loop over the generations has no end.
ExhaustedNever(r) == FALSE

Exhausted(r) == Len(req[r].found) = MaxGenerations

\* The generation after those found is in the vault.
Present(r) == ~Exhausted(r) /\ Len(req[r].found) < Len(vault)

\* Mutant: a rotation writes over the generation that is active.
NextGenerationActive(r) == IF req[r].op = "rotate" /\ req[r].found # <<>>
                           THEN Len(req[r].found) ELSE Len(req[r].found) + 1

\* The generation a minter writes.
NextGeneration(r) == Len(req[r].found) + 1

\* putPlaintext: an upsert.
Stored(g, key) == IF g <= Len(vault) THEN [vault EXCEPT ![g] = key] ELSE Append(vault, key)

\* A request is about to write a generation it found absent.
AboutToPut(r) == raced' = (raced \/ \E q \in Requests \ {r} : At(q, "put"))

-----------------------------------------------------------------------------
(* Loading and rotating                                                    *)

\* generate, the published keys, verify: a cached ring is used as it is.
Start(r, n, op) ==
    /\ At(r, "idle")
    /\ op \in {"generate", "publish"}
    /\ IF ring[n] = <<>>
       THEN req' = [req EXCEPT ![r] = Begun("load", op, n)]
       ELSE /\ op = "generate"
            /\ req' = [req EXCEPT ![r] = [Begun("store", op, n) EXCEPT !.key = Active(ring[n])]]
    /\ UNCHANGED <<vault, minted, ring, instructions, booted, raced>>

\* rotateInstructionSigningKey loads past the cache.
Rotate(r, n) ==
    /\ At(r, "idle")
    /\ req' = [req EXCEPT ![r] = Begun("load", "rotate", n)]
    /\ UNCHANGED <<vault, minted, ring, instructions, booted, raced>>

\* One read of the load.  The first absent generation ends it: a ring that has
\* none mints, a rotation mints the next unless the generations are exhausted.
Probe(r) ==
    /\ At(r, "load")
    /\ \/ /\ Present(r)
          /\ req' = [req EXCEPT ![r].found = Append(@, vault[Len(@) + 1])]
          /\ UNCHANGED raced
       \/ /\ ~Present(r)
          /\ req[r].found = <<>> \/ (req[r].op = "rotate" /\ ~Exhausted(r))
          /\ Goto(r, "put")
          /\ AboutToPut(r)
       \/ /\ ~Present(r)
          /\ req[r].found # <<>>
          /\ \/ req[r].op # "rotate" /\ Goto(r, "loaded")
             \/ req[r].op = "rotate" /\ Exhausted(r) /\ Answer(r)
          /\ UNCHANGED raced
    /\ UNCHANGED <<vault, minted, ring, instructions, booted>>

\* The write.  A rotation that had to mint generation 1 goes on to the next.
Put(r) ==
    LET key == minted + 1
        again == req[r].op = "rotate" /\ req[r].found = <<>> /\ MaxGenerations > 1
    IN /\ At(r, "put")
       /\ vault' = Stored(NextGeneration(r), key)
       /\ minted' = key
       /\ IF req[r].op = "rotate" /\ ~again
          THEN Answer(r)
          ELSE req' = [req EXCEPT ![r].found = Append(@, key),
                                  ![r].at = IF again THEN "put" ELSE "loaded"]
       /\ IF again THEN AboutToPut(r) ELSE UNCHANGED raced
       /\ UNCHANGED <<ring, instructions, booted>>

\* Mutant: what is loaded is added to what is cached.
CachedRingMerged(r) == ring[req[r].node] \o req[r].found

CachedRing(r) == req[r].found

\* The answer of the last read arrives: the ring is cached, over any other, and
\* its active key signs.
Loaded(r) ==
    /\ At(r, "loaded")
    /\ ring' = [ring EXCEPT ![req[r].node] = CachedRing(r)]
    /\ IF req[r].op = "generate"
       THEN req' = [req EXCEPT ![r] = [Begun("store", "generate", @.node) EXCEPT
                                         !.key = Active(req[r].found)]]
       ELSE Answer(r)
    /\ UNCHANGED <<vault, minted, instructions, booted, raced>>

\* store.create under a new id.
Store(r, i) ==
    /\ At(r, "store")
    /\ instructions[i] = None
    /\ instructions' = [instructions EXCEPT ![i] = [key |-> req[r].key, counter |-> None]]
    /\ Answer(r)
    /\ UNCHANGED <<vault, minted, ring, booted, raced>>

-----------------------------------------------------------------------------
(* recordCustomerSignature                                                 *)

Unsigned(i) == instructions[i] # None /\ instructions[i].counter = None

CounterSign(r, n, i) ==
    /\ At(r, "idle")
    /\ Unsigned(i)
    /\ req' = [req EXCEPT ![r] = [Begun("attach", "countersign", n) EXCEPT !.on = i]]
    /\ UNCHANGED <<vault, minted, ring, instructions, booted, raced>>

\* Mutant: the update is not conditional, as in the memory store.
AttachAnyway(r) ==
    /\ At(r, "attach")
    /\ instructions' = [instructions EXCEPT ![req[r].on].counter = r]
    /\ Answer(r)
    /\ UNCHANGED <<vault, minted, ring, booted, raced>>

\* attachCustomerSignature: the update of a row that has one matches nothing.
Attach(r) ==
    /\ At(r, "attach")
    /\ instructions' = IF Unsigned(req[r].on)
                       THEN [instructions EXCEPT ![req[r].on].counter = r]
                       ELSE instructions
    /\ Answer(r)
    /\ UNCHANGED <<vault, minted, ring, booted, raced>>

-----------------------------------------------------------------------------
(* The environment                                                         *)

\* A process stops, with what it was doing, and starts again.
Restart(n) ==
    /\ ring' = [ring EXCEPT ![n] = <<>>]
    /\ booted' = [booted EXCEPT ![n] = Len(vault)]
    /\ req' = [r \in Requests |-> IF req[r].node = n THEN Idle ELSE req[r]]
    /\ UNCHANGED <<vault, minted, instructions, raced>>

\* reloadKeys drops the cache and nothing else.
ReloadKeys(n) ==
    /\ ring[n] # <<>>
    /\ ring' = [ring EXCEPT ![n] = <<>>]
    /\ UNCHANGED <<vault, minted, instructions, req, booted, raced>>

Next ==
    \/ \E r \in Requests :
          \/ \E n \in Nodes : Rotate(r, n) \/ \E op \in {"generate", "publish"} : Start(r, n, op)
          \/ Probe(r) \/ Put(r) \/ Loaded(r) \/ Attach(r)
          \/ \E i \in Instructions : Store(r, i) \/ \E n \in Nodes : CounterSign(r, n, i)
    \/ \E n \in Nodes : Restart(n) \/ ReloadKeys(n)

Spec == Init /\ [][Next]_vars

-----------------------------------------------------------------------------
(* Properties                                                              *)

InVault(key, from) == \E g \in 1 .. Len(vault) : g >= from /\ vault[g] = key

\* settlement-instruction-signing.ts:126: "instructions it signed are still in
\* customers' hands and must stay verifiable": the key of every instruction stays
\* in the vault, whoever rotates and restarts, as long as no two minters wrote at
\* once.
StaysVerifiable ==
    raced \/ \A i \in Instructions : instructions[i] # None => InVault(instructions[i].key, 1)

\* What a process publishes or caches of a generation is what the vault holds of
\* it, so no two processes publish different keys for one.
RingsAgree ==
    raced \/ \A n \in Nodes : \A g \in 1 .. Len(ring[n]) :
                g <= Len(vault) /\ ring[n][g] = vault[g]

\* A process signs with a generation at least as new as the newest there was when
\* it started: a restart picks a rotation up, whatever loads overlap.
SignsWithRecent ==
    raced \/ \A r \in Requests : At(r, "store") => InVault(req[r].key, booted[req[r].node])

\* prisma-settlement-instructions.ts:116: a row that carries a counter-signature
\* keeps it, so which one the customer applied is never in doubt.
CounterSignedOnce ==
    [][\A i \in Instructions :
          instructions[i] # None /\ instructions[i].counter # None
             => instructions'[i] # None /\ instructions'[i].counter = instructions[i].counter]_vars
=============================================================================
