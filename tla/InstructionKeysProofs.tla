------------------------ MODULE InstructionKeysProofs ------------------------
(***************************************************************************)
(* Proofs about InstructionKeys, for any processes, requests, instructions *)
(* and generations.                                                        *)
(*                                                                         *)
(* As long as no two minters were about to write at once, every ring and   *)
(* every partial load is a prefix of the vault, and the one request about  *)
(* to write has seen all of it.  So a write only appends, and what was     *)
(* signed with any generation stays in the vault.                          *)
(***************************************************************************)
EXTENDS InstructionKeys, SequenceTheorems, TLAPS

Agrees(keys) ==
    /\ Len(keys) <= Len(vault)
    /\ \A g \in 1 .. Len(keys) : keys[g] = vault[g]

\* What a request relies on across its awaits, whatever was raced.
RequestShape(r) ==
    /\ req[r].at # "idle" => req[r].node \in Nodes
    /\ req[r].at = "attach" => req[r].on \in Instructions /\ instructions[req[r].on] # None
    /\ req[r].at = "load" => Len(req[r].found) <= MaxGenerations
    /\ req[r].at = "put" => Len(req[r].found) < MaxGenerations
    /\ req[r].at = "loaded" => req[r].found # <<>>
    /\ req[r].at = "store" => req[r].key # 0

\* And as long as nothing was.
RequestAgrees(r) ==
    /\ req[r].at \in {"load", "put", "loaded"} => Agrees(req[r].found)
    /\ req[r].at = "put" => Len(req[r].found) = Len(vault)
    /\ req[r].at = "loaded" => Len(req[r].found) >= booted[req[r].node]
    /\ req[r].at = "store" => InVault(req[r].key, booted[req[r].node])

RingOK(n) == Agrees(ring[n]) /\ (ring[n] # <<>> => Len(ring[n]) >= booted[n])

OneWriter == \A q, r \in Requests : (req[q].at = "put" /\ req[r].at = "put") => q = r

Unraced ==
    /\ OneWriter
    /\ \A r \in Requests : RequestAgrees(r)
    /\ \A n \in Nodes : RingOK(n)
    /\ \A i \in Instructions : instructions[i] # None => InVault(instructions[i].key, 1)

IInv ==
    /\ TypeOK
    /\ \A r \in Requests : RequestShape(r)
    /\ \A n \in Nodes : booted[n] <= Len(vault)
    /\ ~raced => Unraced

-----------------------------------------------------------------------------
(* The vault only grows                                                    *)

Grows == Len(vault) <= Len(vault') /\ \A g \in 1 .. Len(vault) : vault'[g] = vault[g]

LEMMA GrowsAgrees ==
    ASSUME vault \in KeyRing, vault' \in KeyRing, Grows, NEW keys \in KeyRing, Agrees(keys)
    PROVE  Agrees(keys)'
<1>1. Len(keys) \in Nat /\ Len(vault) \in Nat /\ Len(vault') \in Nat
  BY DEF KeyRing
<1>2. \A g \in 1 .. Len(keys) : g \in 1 .. Len(vault)
  BY <1>1 DEF Agrees
<1>3. QED
  BY <1>1, <1>2 DEF Agrees, Grows

LEMMA GrowsInVault ==
    ASSUME vault \in KeyRing, vault' \in KeyRing, Grows, NEW key, NEW from, InVault(key, from)
    PROVE  InVault(key, from)'
<1>1. Len(vault) \in Nat /\ Len(vault') \in Nat
  BY DEF KeyRing
<1>2. PICK g \in 1 .. Len(vault) : g >= from /\ vault[g] = key
  BY DEF InVault
<1>3. g \in 1 .. Len(vault') /\ vault'[g] = key
  BY <1>1, <1>2 DEF Grows
<1>4. QED
  BY <1>2, <1>3 DEF InVault

LEMMA StillGrows == ASSUME vault' = vault, vault \in KeyRing PROVE Grows
BY DEF Grows, KeyRing

\* A request a step leaves alone.
LEMMA ShapeFrame ==
    ASSUME NEW q \in Requests, RequestShape(q), req'[q] = req[q],
           \A i \in Instructions : instructions[i] # None => instructions'[i] # None
    PROVE  RequestShape(q)'
BY DEF RequestShape

LEMMA AgreesFrame ==
    ASSUME TypeOK, vault' \in KeyRing, Grows, NEW q \in Requests, RequestShape(q), RequestAgrees(q),
           req'[q] = req[q],
           req[q].at = "put" => vault' = vault,
           req[q].at # "idle" => booted'[req[q].node] = booted[req[q].node]
    PROVE  RequestAgrees(q)'
<1>1. req[q].found \in KeyRing /\ vault \in KeyRing
  BY DEF TypeOK, Request, KeyRing
<1>2. req[q].at \in {"load", "put", "loaded"} => Agrees(req[q].found)'
  BY <1>1, GrowsAgrees DEF RequestAgrees
<1>3. req[q].at = "put" => Len(req[q].found) = Len(vault')
  BY DEF RequestAgrees
<1>4. req[q].at = "loaded" => Len(req[q].found) >= booted'[req[q].node]
  BY DEF RequestAgrees
<1>5. ASSUME req'[q].at = "store"
      PROVE  \E g \in 1 .. Len(vault') : g >= booted'[req'[q].node] /\ vault'[g] = req'[q].key
  <2>1. req[q].at = "store" /\ booted'[req'[q].node] = booted[req[q].node]
    BY <1>5
  <2>2. PICK g \in 1 .. Len(vault) : g >= booted[req[q].node] /\ vault[g] = req[q].key
    BY <2>1 DEF RequestAgrees, InVault
  <2>3. g \in 1 .. Len(vault') /\ vault'[g] = vault[g]
    BY <1>1 DEF Grows, KeyRing
  <2>4. QED
    BY <2>1, <2>2, <2>3
<1>6. QED
  BY <1>2, <1>3, <1>4, <1>5 DEF RequestAgrees, Agrees, InVault

LEMMA RingFrame ==
    ASSUME TypeOK, vault' \in KeyRing, Grows, NEW n \in Nodes, RingOK(n),
           ring'[n] = ring[n], booted'[n] = booted[n]
    PROVE  RingOK(n)'
<1>1. ring[n] \in KeyRing /\ vault \in KeyRing
  BY DEF TypeOK
<1>2. Agrees(ring[n])'
  BY <1>1, GrowsAgrees DEF RingOK
<1>3. QED
  BY <1>2 DEF RingOK, Agrees

-----------------------------------------------------------------------------
(* Steps of one request that do not write the vault                        *)

\* Such a step preserves the invariant when the request, the rings and the rows
\* it changes are as the invariant wants them.
LEMMA OneRequest ==
    ASSUME IInv, NEW r \in Requests, NEW new \in Request,
           req' = [req EXCEPT ![r] = new],
           UNCHANGED <<vault, minted, booted>>,
           raced' \in BOOLEAN, raced => raced',
           ring' \in [Nodes -> KeyRing],
           instructions' \in [Instructions -> Row \cup {None}],
           \A i \in Instructions : instructions[i] # None => instructions'[i] # None,
           RequestShape(r)',
           ~raced' => RequestAgrees(r)',
           (~raced' /\ new.at = "put") => \A q \in Requests \ {r} : req[q].at # "put",
           ~raced' => \A n \in Nodes : RingOK(n)',
           ~raced' => \A i \in Instructions :
                         instructions'[i] # None => InVault(instructions'[i].key, 1)
    PROVE  IInv'
<1>1. TypeOK'
  BY DEF IInv, TypeOK
<1>2. req'[r] = new /\ \A q \in Requests : q # r => req'[q] = req[q]
  BY DEF IInv, TypeOK
<1>3. vault \in KeyRing /\ vault' \in KeyRing /\ Grows
  BY StillGrows DEF IInv, TypeOK
<1>4. \A q \in Requests : RequestShape(q)'
  <2>1. SUFFICES ASSUME NEW q \in Requests, q # r PROVE RequestShape(q)'
    OBVIOUS
  <2>2. QED
    BY <1>2, ShapeFrame DEF IInv
<1>5. \A n \in Nodes : booted'[n] <= Len(vault')
  BY DEF IInv
<1>6. ASSUME ~raced' PROVE Unraced'
  <2>1. ~raced /\ Unraced
    BY <1>6 DEF IInv
  <2>2. \A q \in Requests : RequestAgrees(q)'
    <3>1. SUFFICES ASSUME NEW q \in Requests, q # r PROVE RequestAgrees(q)'
      BY <1>6
    <3>2. RequestShape(q) /\ RequestAgrees(q)
      BY <2>1 DEF IInv, Unraced
    <3>3. QED
      BY <1>2, <1>3, <3>1, <3>2, AgreesFrame DEF IInv
  <2>3. OneWriter'
    <3>1. SUFFICES ASSUME NEW p \in Requests, NEW q \in Requests,
                          req'[p].at = "put", req'[q].at = "put"
                   PROVE  p = q
      BY DEF OneWriter
    <3>2. CASE p # r /\ q # r
      BY <1>2, <2>1, <3>1, <3>2 DEF Unraced, OneWriter
    <3>3. CASE p = r \/ q = r
      BY <1>2, <1>6, <3>1, <3>3
    <3>4. QED
      BY <3>2, <3>3
  <2>4. (\A i \in Instructions : instructions[i] # None => InVault(instructions[i].key, 1))'
    BY <1>6 DEF InVault
  <2>5. \A n \in Nodes : RingOK(n)'
    BY <1>6
  <2>6. QED
    BY <2>2, <2>3, <2>4, <2>5 DEF Unraced
<1>7. QED
  BY <1>1, <1>4, <1>5, <1>6 DEF IInv

\* The same when only the request changes.
LEMMA OnlyRequest ==
    ASSUME IInv, NEW r \in Requests, NEW new \in Request,
           req' = [req EXCEPT ![r] = new],
           UNCHANGED <<vault, minted, booted, ring, instructions>>,
           raced' \in BOOLEAN, raced => raced',
           RequestShape(r)',
           ~raced' => RequestAgrees(r)',
           (~raced' /\ new.at = "put") => \A q \in Requests \ {r} : req[q].at # "put"
    PROVE  IInv'
<1>1. /\ ring' \in [Nodes -> KeyRing]
      /\ instructions' \in [Instructions -> Row \cup {None}]
  BY DEF IInv, TypeOK
<1>2. ASSUME ~raced' PROVE \A n \in Nodes : RingOK(n)'
  BY <1>2 DEF IInv, Unraced, RingOK, Agrees
<1>3. ASSUME ~raced'
      PROVE  \A i \in Instructions : instructions'[i] # None => InVault(instructions'[i].key, 1)
  BY <1>3 DEF IInv, Unraced
<1>4. QED
  BY <1>1, <1>2, <1>3, OneRequest

-----------------------------------------------------------------------------
(* The actions                                                             *)

LEMMA IdleRequest == Idle \in Request /\ Idle.at = "idle"
BY DEF Idle, Request, Location, Operations

\* A request that begins at an await on a node.
LEMMA BegunRequest ==
    ASSUME NEW at \in Location, NEW op \in Operations, NEW n \in Nodes
    PROVE  /\ Begun(at, op, n) \in Request
           /\ Begun(at, op, n).at = at /\ Begun(at, op, n).op = op
           /\ Begun(at, op, n).node = n /\ Begun(at, op, n).found = <<>>
           /\ Begun(at, op, n).key = 0 /\ Begun(at, op, n).on = None
<1>1. Idle.found = <<>> /\ Idle.key = 0 /\ Idle.on = None
  BY DEF Idle
<1>2. \A row \in Request :
         LET new == [row EXCEPT !.at = at, !.op = op, !.node = n]
         IN  /\ new \in Request /\ new.at = at /\ new.op = op /\ new.node = n
             /\ new.found = row.found /\ new.key = row.key /\ new.on = row.on
  BY DEF Request
<1>3. QED
  BY <1>1, <1>2, IdleRequest DEF Begun

LEMMA KeyedRequest ==
    ASSUME NEW row \in Request, NEW key \in Nat
    PROVE  /\ [row EXCEPT !.key = key] \in Request
           /\ [row EXCEPT !.key = key].at = row.at /\ [row EXCEPT !.key = key].node = row.node
           /\ [row EXCEPT !.key = key].key = key
BY DEF Request

LEMMA EmptyAgrees == ASSUME vault \in KeyRing PROVE Agrees(<<>>)
BY DEF Agrees, KeyRing

\* The last key of a ring that is as recent as the process is a recent one.
LEMMA ActiveIsRecent ==
    ASSUME vault \in KeyRing, NEW keys \in KeyRing, keys # <<>>, NEW from
    PROVE  /\ Active(keys) \in Nat \ {0}
           /\ (Agrees(keys) /\ Len(keys) >= from) => InVault(Active(keys), from)
<1>1. Len(keys) \in Nat /\ Len(keys) # 0 /\ Len(vault) \in Nat
  BY EmptySeq DEF KeyRing
<1>2. Len(keys) \in 1 .. Len(keys)
  BY <1>1
<1>3. Active(keys) \in Nat \ {0}
  BY <1>2 DEF Active, KeyRing
<1>4. ASSUME Agrees(keys), Len(keys) >= from PROVE InVault(Active(keys), from)
  <2>1. Len(keys) \in 1 .. Len(vault) /\ vault[Len(keys)] = Active(keys)
    BY <1>1, <1>2, <1>4 DEF Agrees, Active
  <2>2. QED
    BY <1>4, <2>1 DEF InVault
<1>5. QED
  BY <1>3, <1>4

\* A request that is answered.
LEMMA AnswerIInv ==
    ASSUME IInv, NEW r \in Requests, Answer(r),
           UNCHANGED <<vault, minted, booted, ring, instructions, raced>>
    PROVE  IInv'
<1>1. req' = [req EXCEPT ![r] = Idle] /\ req'[r] = Idle
  BY DEF Answer, IInv, TypeOK
<1>2. RequestShape(r)' /\ RequestAgrees(r)'
  BY <1>1, IdleRequest DEF RequestShape, RequestAgrees
<1>3. raced' \in BOOLEAN
  BY DEF IInv, TypeOK
<1>4. QED
  BY <1>1, <1>2, <1>3, IdleRequest, OnlyRequest

LEMMA StartIInv ==
    ASSUME IInv, NEW r \in Requests, NEW n \in Nodes, NEW op \in {"generate", "publish"},
           Start(r, n, op)
    PROVE  IInv'
<1>1. UNCHANGED <<vault, minted, ring, instructions, booted, raced>>
  BY DEF Start
<1>2. vault \in KeyRing /\ ring[n] \in KeyRing /\ raced' \in BOOLEAN
  BY <1>1 DEF IInv, TypeOK
<1>3. CASE ring[n] = <<>>
  <2> DEFINE new == Begun("load", op, n)
  <2>1. new \in Request /\ new.at = "load" /\ new.node = n /\ new.found = <<>>
    BY BegunRequest DEF Location, Operations
  <2> HIDE DEF new
  <2>2. req' = [req EXCEPT ![r] = new] /\ req'[r] = new
    BY <1>3 DEF Start, IInv, TypeOK, new
  <2>3. RequestShape(r)'
    BY <2>1, <2>2, KeysAssumption DEF RequestShape
  <2>4. RequestAgrees(r)'
    BY <1>1, <1>2, <2>1, <2>2, EmptyAgrees DEF RequestAgrees, Agrees
  <2>5. QED
    BY <1>1, <1>2, <2>1, <2>2, <2>3, <2>4, OnlyRequest
<1>4. CASE ring[n] # <<>>
  <2> DEFINE key == Active(ring[n])
             new == [Begun("store", op, n) EXCEPT !.key = key]
  <2>1. key \in Nat \ {0}
    BY <1>2, <1>4, ActiveIsRecent
  <2>2. new \in Request /\ new.at = "store" /\ new.node = n /\ new.key = key
    <3>1. /\ Begun("store", op, n) \in Request
          /\ Begun("store", op, n).at = "store" /\ Begun("store", op, n).node = n
      BY BegunRequest DEF Location, Operations
    <3> HIDE DEF key
    <3>2. QED
      BY <2>1, <3>1, KeyedRequest
  <2>3. ~raced => InVault(key, booted[n])
    <3>1. ~raced => Agrees(ring[n]) /\ Len(ring[n]) >= booted[n]
      BY <1>4 DEF IInv, Unraced, RingOK
    <3>2. QED
      BY <1>2, <1>4, <3>1, ActiveIsRecent
  <2>4. req' = [req EXCEPT ![r] = new] /\ req'[r] = new
    BY <1>4 DEF Start, IInv, TypeOK
  <2> HIDE DEF new, key
  <2>5. RequestShape(r)'
    BY <2>1, <2>2, <2>4 DEF RequestShape
  <2>6. ~raced' => RequestAgrees(r)'
    BY <1>1, <2>2, <2>3, <2>4 DEF RequestAgrees, InVault
  <2>7. QED
    BY <1>1, <1>2, <2>2, <2>4, <2>5, <2>6, OnlyRequest
<1>5. QED
  BY <1>3, <1>4

LEMMA RotateIInv ==
    ASSUME IInv, NEW r \in Requests, NEW n \in Nodes, Rotate(r, n)
    PROVE  IInv'
<1> DEFINE new == Begun("load", "rotate", n)
<1>1. new \in Request /\ new.at = "load" /\ new.node = n /\ new.found = <<>>
  BY BegunRequest DEF Location, Operations
<1> HIDE DEF new
<1>2. UNCHANGED <<vault, minted, ring, instructions, booted, raced>>
  BY DEF Rotate
<1>3. req' = [req EXCEPT ![r] = new] /\ req'[r] = new /\ vault \in KeyRing /\ raced' \in BOOLEAN
  BY <1>2 DEF Rotate, IInv, TypeOK, new
<1>4. RequestShape(r)'
  BY <1>1, <1>3, KeysAssumption DEF RequestShape
<1>5. RequestAgrees(r)'
  BY <1>1, <1>2, <1>3, EmptyAgrees DEF RequestAgrees, Agrees
<1>6. QED
  BY <1>1, <1>2, <1>3, <1>4, <1>5, OnlyRequest

\* A read that found its generation.
LEMMA PresentIInv ==
    ASSUME IInv, NEW r \in Requests, At(r, "load"), Present(r),
           req' = [req EXCEPT ![r].found = Append(@, vault[Len(@) + 1])],
           UNCHANGED <<vault, minted, ring, instructions, booted, raced>>
    PROVE  IInv'
<1> DEFINE keys == req[r].found
           more == Append(keys, vault[Len(keys) + 1])
           new == [req[r] EXCEPT !.found = more]
<1>1. req[r] \in Request /\ keys \in KeyRing /\ vault \in KeyRing /\ Len(keys) \in Nat
  BY DEF IInv, TypeOK, Request, KeyRing
<1>2. Len(keys) + 1 \in 1 .. Len(vault) /\ Len(vault) <= MaxGenerations
  BY <1>1 DEF Present, IInv, TypeOK, KeyRing
<1>3. more \in KeyRing /\ Len(more) = Len(keys) + 1 /\ vault[Len(keys) + 1] \in Nat \ {0}
  BY <1>1, <1>2 DEF KeyRing
<1>4. \A g \in 1 .. Len(keys) : more[g] = keys[g]
  BY <1>1, <1>3 DEF KeyRing
<1>5. more[Len(keys) + 1] = vault[Len(keys) + 1]
  BY <1>1, <1>3 DEF KeyRing
<1>6. ~raced => Agrees(more)
  <2>1. ~raced => Agrees(keys)
    BY DEF IInv, Unraced, RequestAgrees, At
  <2> HIDE DEF more, keys
  <2>2. QED
    BY <1>1, <1>2, <1>3, <1>4, <1>5, <2>1 DEF Agrees
<1>7. req' = [req EXCEPT ![r] = new] /\ req'[r] = new
  BY DEF IInv, TypeOK
<1> HIDE DEF more, keys
<1>8. new \in Request /\ new.at = "load" /\ new.node = req[r].node /\ new.found = more
  <2>1. \A row \in Request :
           LET changed == [row EXCEPT !.found = more]
           IN  /\ changed \in Request /\ changed.at = row.at /\ changed.node = row.node
               /\ changed.found = more
    BY <1>3 DEF Request, KeyRing
  <2>2. QED
    BY <1>1, <2>1 DEF At
<1> HIDE DEF new
<1>9. RequestShape(r)'
  <2>1. req[r].node \in Nodes
    BY DEF IInv, RequestShape, At
  <2>2. Len(more) <= MaxGenerations
    BY <1>1, <1>2, <1>3, KeysAssumption DEF KeyRing
  <2>3. QED
    BY <1>7, <1>8, <2>1, <2>2 DEF RequestShape
<1>10. ~raced' => RequestAgrees(r)'
  BY <1>6, <1>7, <1>8 DEF RequestAgrees, Agrees
<1>11. raced' \in BOOLEAN
  BY DEF IInv, TypeOK
<1>12. QED
  BY <1>7, <1>8, <1>9, <1>10, <1>11, OnlyRequest

\* A request that only moves to another await.
LEMMA GotoRequest ==
    ASSUME IInv, NEW r \in Requests, NEW to \in Location, Goto(r, to)
    PROVE  \E new \in Request :
              /\ req' = [req EXCEPT ![r] = new] /\ req'[r] = new
              /\ new.at = to /\ new.node = req[r].node /\ new.found = req[r].found
<1> DEFINE new == [req[r] EXCEPT !.at = to]
<1>1. req[r] \in Request
  BY DEF IInv, TypeOK
<1>2. \A row \in Request :
         LET changed == [row EXCEPT !.at = to]
         IN  /\ changed \in Request /\ changed.at = to /\ changed.node = row.node
             /\ changed.found = row.found
  BY DEF Request
<1>3. req' = [req EXCEPT ![r] = new] /\ req'[r] = new
  BY DEF Goto, IInv, TypeOK
<1>4. QED
  BY <1>1, <1>2, <1>3

\* A read that found its generation absent leads to a write.
LEMMA MintsIInv ==
    ASSUME IInv, NEW r \in Requests, At(r, "load"), ~Present(r),
           req[r].found = <<>> \/ ~Exhausted(r),
           Goto(r, "put"), AboutToPut(r),
           UNCHANGED <<vault, minted, ring, instructions, booted>>
    PROVE  IInv'
<1>1. PICK new \in Request :
         /\ req' = [req EXCEPT ![r] = new] /\ req'[r] = new
         /\ new.at = "put" /\ new.node = req[r].node /\ new.found = req[r].found
  BY GotoRequest DEF Location
<1>2. /\ vault \in KeyRing /\ req[r].found \in KeyRing /\ raced \in BOOLEAN
      /\ req[r].node \in Nodes /\ Len(req[r].found) <= MaxGenerations
  BY DEF IInv, TypeOK, Request, KeyRing, RequestShape, At
<1>3. Len(req[r].found) \in Nat /\ Len(vault) \in Nat /\ (req[r].found = <<>> => Len(req[r].found) = 0)
  BY <1>2 DEF KeyRing
<1>4. Len(req[r].found) < MaxGenerations /\ Len(req[r].found) >= Len(vault)
  BY <1>2, <1>3, KeysAssumption DEF Present, Exhausted
<1>5. /\ raced' \in BOOLEAN /\ (raced => raced')
      /\ ~raced' => \A q \in Requests \ {r} : req[q].at # "put"
  BY <1>2 DEF AboutToPut, At
<1>6. RequestShape(r)'
  BY <1>1, <1>2, <1>4 DEF RequestShape
<1>7. ~raced' => RequestAgrees(r)'
  <2>1. ~raced => Agrees(req[r].found)
    BY DEF IInv, Unraced, RequestAgrees, At
  <2>2. QED
    BY <1>1, <1>3, <1>4, <1>5, <2>1 DEF RequestAgrees, Agrees
<1>8. QED
  BY <1>1, <1>5, <1>6, <1>7, OnlyRequest

\* A read that found its generation absent ends a load that found others.
LEMMA LoadEndsIInv ==
    ASSUME IInv, NEW r \in Requests, At(r, "load"), ~Present(r), req[r].found # <<>>,
           Goto(r, "loaded"),
           UNCHANGED <<vault, minted, ring, instructions, booted, raced>>
    PROVE  IInv'
<1>1. PICK new \in Request :
         /\ req' = [req EXCEPT ![r] = new] /\ req'[r] = new
         /\ new.at = "loaded" /\ new.node = req[r].node /\ new.found = req[r].found
  BY GotoRequest DEF Location
<1>2. /\ vault \in KeyRing /\ req[r].found \in KeyRing /\ raced' \in BOOLEAN
      /\ req[r].node \in Nodes /\ Len(vault) <= MaxGenerations
      /\ booted[req[r].node] <= Len(vault) /\ booted[req[r].node] \in Nat
  BY DEF IInv, TypeOK, Request, KeyRing, RequestShape, At
<1>3. Len(req[r].found) \in Nat /\ Len(vault) \in Nat
  BY <1>2 DEF KeyRing
<1>4. Len(req[r].found) >= booted[req[r].node]
  BY <1>2, <1>3, KeysAssumption DEF Present, Exhausted
<1>5. RequestShape(r)'
  BY <1>1, <1>2 DEF RequestShape
<1>6. ~raced' => RequestAgrees(r)'
  <2>1. ~raced => Agrees(req[r].found)
    BY DEF IInv, Unraced, RequestAgrees, At
  <2>2. QED
    BY <1>1, <1>4, <2>1 DEF RequestAgrees, Agrees
<1>7. QED
  BY <1>1, <1>2, <1>5, <1>6, OnlyRequest

LEMMA ProbeIInv == ASSUME IInv, NEW r \in Requests, Probe(r) PROVE IInv'
<1>1. CASE Present(r)
  BY <1>1, PresentIInv DEF Probe
<1>2. CASE ~Present(r) /\ Goto(r, "put") /\ AboutToPut(r)
           /\ (req[r].found = <<>> \/ ~Exhausted(r))
  BY <1>2, MintsIInv DEF Probe
<1>3. CASE ~Present(r) /\ req[r].found # <<>> /\ UNCHANGED raced /\ Goto(r, "loaded")
  BY <1>3, LoadEndsIInv DEF Probe
<1>4. CASE UNCHANGED raced /\ Answer(r)
  BY <1>4, AnswerIInv DEF Probe
<1>5. QED
  BY <1>1, <1>2, <1>3, <1>4 DEF Probe

LEMMA LoadedIInv == ASSUME IInv, NEW r \in Requests, Loaded(r) PROVE IInv'
<1> DEFINE n == req[r].node
           keys == req[r].found
<1>1. /\ UNCHANGED <<vault, minted, instructions, booted, raced>>
      /\ ring' = [ring EXCEPT ![n] = keys]
  BY DEF Loaded, CachedRing
<1>2. /\ vault \in KeyRing /\ keys \in KeyRing /\ keys # <<>> /\ n \in Nodes
      /\ ring \in [Nodes -> KeyRing] /\ ring' \in [Nodes -> KeyRing] /\ raced' \in BOOLEAN
      /\ instructions' \in [Instructions -> Row \cup {None}]
  BY <1>1 DEF Loaded, At, IInv, TypeOK, Request, RequestShape, KeyRing
<1>3. ~raced => Agrees(keys) /\ Len(keys) >= booted[n]
  BY DEF Loaded, At, IInv, Unraced, RequestAgrees
<1> HIDE DEF keys, n
<1>4. ASSUME ~raced' PROVE \A m \in Nodes : RingOK(m)'
  <2>1. ~raced /\ \A m \in Nodes : RingOK(m)
    BY <1>1, <1>4 DEF IInv, Unraced
  <2>2. ring'[n] = keys /\ \A m \in Nodes : m # n => ring'[m] = ring[m]
    BY <1>1, <1>2
  <2>3. QED
    BY <1>1, <1>3, <2>1, <2>2 DEF RingOK, Agrees
<1>5. ASSUME ~raced'
      PROVE  \A i \in Instructions : instructions'[i] # None => InVault(instructions'[i].key, 1)
  BY <1>1, <1>5 DEF IInv, Unraced
<1>6. CASE req[r].op = "generate"
  <2> DEFINE key == Active(keys)
             new == [Begun("store", "generate", n) EXCEPT !.key = key]
  <2>1. key \in Nat \ {0} /\ (~raced => InVault(key, booted[n]))
    BY <1>2, <1>3, ActiveIsRecent
  <2>2. req' = [req EXCEPT ![r] = new] /\ req'[r] = new
    BY <1>6 DEF Loaded, IInv, TypeOK, keys, n
  <2> HIDE DEF key
  <2>3. new \in Request /\ new.at = "store" /\ new.node = n /\ new.key = key
    BY <1>2, <2>1, BegunRequest, KeyedRequest DEF Location, Operations
  <2> HIDE DEF new
  <2>4. RequestShape(r)'
    BY <1>2, <2>1, <2>2, <2>3 DEF RequestShape
  <2>5. ~raced' => RequestAgrees(r)'
    BY <1>1, <2>1, <2>2, <2>3 DEF RequestAgrees, InVault
  <2>6. \A i \in Instructions : instructions[i] # None => instructions'[i] # None
    BY <1>1
  <2>7. QED
    BY <1>1, <1>2, <1>4, <1>5, <2>2, <2>3, <2>4, <2>5, <2>6, OneRequest
<1>7. CASE req[r].op # "generate"
  <2>1. req' = [req EXCEPT ![r] = Idle] /\ req'[r] = Idle
    BY <1>7 DEF Loaded, Answer, IInv, TypeOK
  <2>2. RequestShape(r)' /\ RequestAgrees(r)'
    BY <2>1, IdleRequest DEF RequestShape, RequestAgrees
  <2>3. \A i \in Instructions : instructions[i] # None => instructions'[i] # None
    BY <1>1
  <2>4. QED
    BY <1>1, <1>2, <1>4, <1>5, <2>1, <2>2, <2>3, IdleRequest, OneRequest
<1>8. QED
  BY <1>6, <1>7

\* A request that is answered and leaves the rows as the invariant wants them.
LEMMA RowsIInv ==
    ASSUME IInv, NEW r \in Requests, Answer(r),
           UNCHANGED <<vault, minted, ring, booted, raced>>,
           instructions' \in [Instructions -> Row \cup {None}],
           \A i \in Instructions : instructions[i] # None => instructions'[i] # None,
           ~raced => \A i \in Instructions :
                        instructions'[i] # None => InVault(instructions'[i].key, 1)
    PROVE  IInv'
<1>1. req' = [req EXCEPT ![r] = Idle] /\ req'[r] = Idle
  BY DEF Answer, IInv, TypeOK
<1>2. RequestShape(r)' /\ RequestAgrees(r)'
  BY <1>1, IdleRequest DEF RequestShape, RequestAgrees
<1>3. raced' \in BOOLEAN /\ ring' \in [Nodes -> KeyRing]
  BY DEF IInv, TypeOK
<1>4. ASSUME ~raced' PROVE \A n \in Nodes : RingOK(n)'
  BY <1>4 DEF IInv, Unraced, RingOK, Agrees
<1>5. QED
  BY <1>1, <1>2, <1>3, <1>4, IdleRequest, OneRequest

LEMMA StoreIInv ==
    ASSUME IInv, NEW r \in Requests, NEW i \in Instructions, Store(r, i)
    PROVE  IInv'
<1> DEFINE row == [key |-> req[r].key, counter |-> None]
<1>1. /\ Answer(r) /\ instructions' = [instructions EXCEPT ![i] = row]
      /\ UNCHANGED <<vault, minted, ring, booted, raced>>
  BY DEF Store
<1>2. /\ req[r].key \in Nat \ {0} /\ req[r].node \in Nodes
      /\ instructions \in [Instructions -> Row \cup {None}]
  BY DEF Store, At, IInv, TypeOK, Request, RequestShape
<1>3. row \in Row /\ row # None /\ row.key = req[r].key
  BY <1>2, RowAssumption DEF Row
<1>4. ~raced => InVault(req[r].key, 1)
  <2>1. ~raced => InVault(req[r].key, booted[req[r].node])
    BY DEF Store, At, IInv, Unraced, RequestAgrees
  <2>2. QED
    BY <2>1 DEF InVault
<1> HIDE DEF row
<1>5. instructions' \in [Instructions -> Row \cup {None}]
  BY <1>1, <1>2, <1>3
<1>6. instructions'[i] = row /\ \A j \in Instructions : j # i => instructions'[j] = instructions[j]
  BY <1>1, <1>2
<1>7. \A j \in Instructions : instructions[j] # None => instructions'[j] # None
  BY <1>3, <1>6
<1>8. ASSUME ~raced
      PROVE  \A j \in Instructions : instructions'[j] # None => InVault(instructions'[j].key, 1)
  BY <1>3, <1>4, <1>6, <1>8 DEF IInv, Unraced
<1>9. QED
  BY <1>1, <1>5, <1>7, <1>8, RowsIInv

LEMMA CounterSignIInv ==
    ASSUME IInv, NEW r \in Requests, NEW n \in Nodes, NEW i \in Instructions,
           CounterSign(r, n, i)
    PROVE  IInv'
<1> DEFINE new == [Begun("attach", "countersign", n) EXCEPT !.on = i]
<1>1. new \in Request /\ new.at = "attach" /\ new.node = n /\ new.on = i
  <2>1. \A row \in Request :
           LET changed == [row EXCEPT !.on = i]
           IN  /\ changed \in Request /\ changed.at = row.at /\ changed.node = row.node
               /\ changed.on = i
    BY DEF Request
  <2>2. /\ Begun("attach", "countersign", n) \in Request
        /\ Begun("attach", "countersign", n).at = "attach"
        /\ Begun("attach", "countersign", n).node = n
    BY BegunRequest DEF Location, Operations
  <2>3. QED
    BY <2>1, <2>2
<1>2. /\ UNCHANGED <<vault, minted, ring, instructions, booted, raced>>
      /\ instructions[i] # None
  BY DEF CounterSign, Unsigned
<1>3. req' = [req EXCEPT ![r] = new] /\ req'[r] = new /\ raced' \in BOOLEAN
  BY <1>2 DEF CounterSign, IInv, TypeOK
<1> HIDE DEF new
<1>4. RequestShape(r)' /\ RequestAgrees(r)'
  BY <1>1, <1>2, <1>3 DEF RequestShape, RequestAgrees
<1>5. QED
  BY <1>1, <1>2, <1>3, <1>4, OnlyRequest

LEMMA AttachIInv == ASSUME IInv, NEW r \in Requests, Attach(r) PROVE IInv'
<1> DEFINE i == req[r].on
<1>1. Answer(r) /\ UNCHANGED <<vault, minted, ring, booted, raced>>
  BY DEF Attach
<1>2. i \in Instructions /\ instructions[i] \in Row /\ instructions \in [Instructions -> Row \cup {None}]
  BY DEF Attach, At, IInv, TypeOK, RequestShape
<1>3. CASE Unsigned(i)
  <2> DEFINE row == [instructions[i] EXCEPT !.counter = r]
  <2>1. row \in Row /\ row # None /\ row.key = instructions[i].key
    <3>1. \A old \in Row :
             LET changed == [old EXCEPT !.counter = r]
             IN  changed \in Row /\ changed.key = old.key
      BY DEF Row
    <3>2. QED
      BY <1>2, <3>1, RowAssumption
  <2>2. instructions' = [instructions EXCEPT ![i] = row]
    BY <1>3, <1>2 DEF Attach
  <2> HIDE DEF row, i
  <2>3. /\ instructions' \in [Instructions -> Row \cup {None}] /\ instructions'[i] = row
        /\ \A j \in Instructions : j # i => instructions'[j] = instructions[j]
    BY <1>2, <2>1, <2>2
  <2>4. \A j \in Instructions : instructions[j] # None => instructions'[j] # None
    BY <2>1, <2>3
  <2>5. instructions[i] # None
    BY <1>2, RowAssumption
  <2>6. ASSUME ~raced
        PROVE  \A j \in Instructions : instructions'[j] # None => InVault(instructions'[j].key, 1)
    <3>1. \A j \in Instructions : instructions[j] # None => InVault(instructions[j].key, 1)
      BY <2>6 DEF IInv, Unraced
    <3>2. QED
      BY <1>2, <2>1, <2>3, <2>5, <3>1
  <2>7. QED
    BY <1>1, <2>3, <2>4, <2>6, RowsIInv
<1>4. CASE ~Unsigned(i)
  <2>1. instructions' = instructions
    BY <1>4 DEF Attach
  <2>2. QED
    BY <1>1, <2>1, AnswerIInv
<1>5. QED
  BY <1>3, <1>4

\* A write adds a generation, unless another minter got there first.
LEMMA StoredKey ==
    ASSUME vault \in KeyRing, NEW key \in Nat \ {0}, NEW g \in 1 .. Len(vault) + 1
    PROVE  /\ Stored(g, key) \in KeyRing
           /\ Len(Stored(g, key)) = IF g <= Len(vault) THEN Len(vault) ELSE g
           /\ g = Len(vault) + 1 =>
                 /\ Stored(g, key)[g] = key
                 /\ \A h \in 1 .. Len(vault) : Stored(g, key)[h] = vault[h]
<1>1. Len(vault) \in Nat
  BY DEF KeyRing
<1>2. CASE g <= Len(vault)
  <2>1. [vault EXCEPT ![g] = key] \in KeyRing /\ Len([vault EXCEPT ![g] = key]) = Len(vault)
    BY <1>1, <1>2, ExceptSeq DEF KeyRing
  <2>2. QED
    BY <1>1, <1>2, <2>1 DEF Stored
<1>3. CASE g = Len(vault) + 1
  <2>1. Stored(g, key) = Append(vault, key)
    BY <1>1, <1>3 DEF Stored
  <2> DEFINE longer == Append(vault, key)
  <2>2. /\ longer \in KeyRing /\ Len(longer) = Len(vault) + 1
        /\ longer[Len(vault) + 1] = key
        /\ \A h \in 1 .. Len(vault) : longer[h] = vault[h]
    BY <1>1, AppendProperties DEF KeyRing
  <2> HIDE DEF longer
  <2>3. Stored(g, key) = longer
    BY <2>1 DEF longer
  <2>4. ~(g <= Len(vault))
    BY <1>1, <1>3
  <2>5. QED
    BY <1>3, <2>2, <2>3, <2>4
<1>4. QED
  BY <1>1, <1>2, <1>3

\* The request that wrote, afterwards.
LEMMA PutRequest ==
    ASSUME IInv, NEW r \in Requests, Put(r), NEW key, key = minted + 1
    PROVE  \E new \in Request :
              /\ req' = [req EXCEPT ![r] = new] /\ req'[r] = new
              /\ \/ new.at = "idle"
                 \/ /\ new.at = "loaded" \/ (new.at = "put" /\ MaxGenerations > 1
                                               /\ req[r].found = <<>> /\ AboutToPut(r))
                    /\ new.node = req[r].node
                    /\ new.found = Append(req[r].found, key)
              /\ ~AboutToPut(r) => UNCHANGED raced
<1> DEFINE again == req[r].op = "rotate" /\ req[r].found = <<>> /\ MaxGenerations > 1
           more == Append(req[r].found, key)
           at == IF again THEN "put" ELSE "loaded"
           new == [req[r] EXCEPT !.found = more, !.at = at]
<1>1. req[r] \in Request /\ key \in Nat \ {0} /\ req[r].found \in KeyRing
  BY DEF IInv, TypeOK, Request, KeyRing
<1>2. CASE req[r].op = "rotate" /\ ~again
  <2>1. req' = [req EXCEPT ![r] = Idle] /\ req'[r] = Idle /\ UNCHANGED raced
    BY <1>2 DEF Put, Answer, IInv, TypeOK
  <2>2. QED
    BY <2>1, IdleRequest
<1>3. CASE ~(req[r].op = "rotate" /\ ~again)
  <2>1. more \in KeyRing
    BY <1>1 DEF KeyRing
  <2>2. req' = [req EXCEPT ![r] = new] /\ req'[r] = new
    BY <1>3 DEF Put, IInv, TypeOK
  <2>3. again => AboutToPut(r)
    BY DEF Put
  <2>4. ~again => UNCHANGED raced
    BY DEF Put
  <2>5. /\ new \in Request /\ new.at = at
        /\ new.node = req[r].node /\ new.found = more
    <3>1. at \in Location
      BY DEF Location
    <3> HIDE DEF more, at
    <3>2. \A row \in Request :
             LET changed == [row EXCEPT !.found = more, !.at = at]
             IN  /\ changed \in Request /\ changed.at = at
                 /\ changed.node = row.node /\ changed.found = more
      BY <2>1, <3>1 DEF Request, KeyRing
    <3>3. QED
      BY <1>1, <3>2
  <2> HIDE DEF more
  <2>6. QED
    BY <2>2, <2>3, <2>4, <2>5 DEF more
<1>4. QED
  BY <1>2, <1>3

LEMMA PutIInv == ASSUME IInv, NEW r \in Requests, Put(r) PROVE IInv'
<1> DEFINE key == minted + 1
           g == Len(req[r].found) + 1
           more == Append(req[r].found, key)
<1>1. /\ vault' = Stored(g, key) /\ minted' = key /\ UNCHANGED <<ring, instructions, booted>>
      /\ req[r].at = "put"
  BY DEF Put, NextGeneration, At
<1>2. /\ key \in Nat \ {0} /\ vault \in KeyRing /\ req[r].found \in KeyRing /\ raced \in BOOLEAN
      /\ Len(vault) <= MaxGenerations /\ Len(req[r].found) < MaxGenerations
      /\ req[r].node \in Nodes /\ booted \in [Nodes -> 0 .. MaxGenerations]
      /\ \A n \in Nodes : booted[n] <= Len(vault)
  BY <1>1 DEF IInv, TypeOK, Request, RequestShape, KeyRing
<1>3. /\ Len(vault) \in Nat /\ Len(req[r].found) \in Nat
      /\ more \in KeyRing /\ Len(more) = g /\ more[g] = key /\ more # <<>>
      /\ \A h \in 1 .. Len(req[r].found) : more[h] = req[r].found[h]
      /\ (req[r].found = <<>> => Len(req[r].found) = 0)
  <2>1. Len(vault) \in Nat /\ Len(req[r].found) \in Nat
    BY <1>2 DEF KeyRing
  <2> HIDE DEF key
  <2>2. /\ more \in KeyRing /\ more # <<>> /\ Len(more) = g
        /\ \A h \in 1 .. Len(more) :
              more[h] = IF h = Len(req[r].found) + 1 THEN key ELSE req[r].found[h]
    <3>1. req[r].found \in Seq(Nat \ {0}) /\ key \in Nat \ {0}
      BY <1>2 DEF KeyRing
    <3>2. QED
      BY <2>1, <3>1, AppendProperties, SMTT(30) DEF KeyRing
  <2> HIDE DEF more
  <2>3. more[g] = key /\ \A h \in 1 .. Len(req[r].found) : more[h] = req[r].found[h]
    BY <2>1, <2>2
  <2>4. QED
    BY <2>1, <2>2, <2>3
<1>4. PICK new \in Request :
         /\ req' = [req EXCEPT ![r] = new] /\ req'[r] = new
         /\ \/ new.at = "idle"
            \/ /\ new.at = "loaded" \/ (new.at = "put" /\ MaxGenerations > 1
                                          /\ req[r].found = <<>> /\ AboutToPut(r))
               /\ new.node = req[r].node
               /\ new.found = more
         /\ ~AboutToPut(r) => UNCHANGED raced
  BY PutRequest
<1>5. \A q \in Requests : q # r => req'[q] = req[q]
  BY <1>4 DEF IInv, TypeOK
<1>6. raced' \in BOOLEAN /\ (raced => raced')
  <2>1. CASE AboutToPut(r)
    <3>1. raced' = (raced \/ \E q \in Requests \ {r} : At(q, "put"))
      BY <2>1 DEF AboutToPut
    <3>2. QED
      BY <1>2, <3>1
  <2>2. CASE ~AboutToPut(r)
    BY <1>2, <1>4, <2>2
  <2>3. QED
    BY <2>1, <2>2
<1> HIDE DEF more, key
\* Without a race, the writer has seen the whole vault.
<1>7. ~raced => /\ g = Len(vault) + 1 /\ Agrees(req[r].found)
                /\ \A q \in Requests \ {r} : req[q].at # "put"
  BY <1>1, <1>2, <1>3 DEF IInv, Unraced, OneWriter, RequestAgrees
\* With one, the vault is still a sequence of keys: another's write only adds to it.
<1>8. /\ vault' \in KeyRing /\ Len(vault') \in Nat /\ Len(vault) <= Len(vault')
      /\ Len(vault') <= MaxGenerations
  <2>1. CASE g <= Len(vault) + 1
    <3>1. g \in 1 .. Len(vault) + 1
      BY <1>3, <2>1
    <3>2. vault' \in KeyRing /\ Len(vault') = IF g <= Len(vault) THEN Len(vault) ELSE g
      BY <1>1, <1>2, <3>1, StoredKey
    <3>3. MaxGenerations \in Nat /\ g <= MaxGenerations
      BY <1>2, <1>3, KeysAssumption
    <3>4. QED
      BY <1>2, <1>3, <2>1, <3>2, <3>3
  <2>2. CASE g > Len(vault) + 1
    <3>1. vault' = Append(vault, key)
      BY <1>1, <1>3, <2>2 DEF Stored
    <3>2. QED
      BY <1>2, <1>3, <2>2, <3>1, KeysAssumption, SMTT(30) DEF KeyRing
  <2>3. QED
    BY <1>3, <2>1, <2>2
<1>9. ~raced => /\ Grows /\ Len(vault') = g /\ vault'[g] = key
  <2>1. SUFFICES ASSUME ~raced PROVE Grows /\ Len(vault') = g /\ vault'[g] = key
    OBVIOUS
  <2>2. g = Len(vault) + 1 /\ g \in 1 .. Len(vault) + 1
    BY <1>3, <1>7, <2>1
  <2>3. /\ Len(vault') = IF g <= Len(vault) THEN Len(vault) ELSE g
        /\ vault'[g] = key /\ \A h \in 1 .. Len(vault) : vault'[h] = vault[h]
    BY <1>1, <1>2, <2>2, StoredKey
  <2>4. QED
    BY <1>3, <1>8, <2>2, <2>3 DEF Grows
<1>10. TypeOK'
  BY <1>1, <1>2, <1>4, <1>6, <1>8 DEF IInv, TypeOK
<1>11. \A q \in Requests : RequestShape(q)'
  <2>1. SUFFICES ASSUME NEW q \in Requests PROVE RequestShape(q)'
    OBVIOUS
  <2>2. CASE q = r
    BY <1>2, <1>3, <1>4, <2>2 DEF RequestShape
  <2>3. CASE q # r
    BY <1>1, <1>5, <2>3, ShapeFrame DEF IInv
  <2>4. QED
    BY <2>2, <2>3
<1>12. \A n \in Nodes : booted'[n] <= Len(vault')
  <2>1. booted \in [Nodes -> Nat]
    BY KeysAssumption DEF IInv, TypeOK
  <2>2. \A n \in Nodes : booted[n] \in Nat /\ booted[n] <= Len(vault)
    BY <1>2, <2>1
  <2>3. QED
    BY <1>1, <1>3, <1>8, <2>2
<1>13. ASSUME ~raced' PROVE Unraced'
  <2>1. ~raced /\ Unraced /\ Grows
    BY <1>6, <1>9, <1>13 DEF IInv
  <2>2. ~raced' => \A q \in Requests \ {r} : req[q].at # "put"
    BY <1>7, <2>1
  <2>3. OneWriter'
    BY <1>5, <1>13, <2>2 DEF OneWriter
  <2>4. \A q \in Requests : RequestAgrees(q)'
    <3>1. SUFFICES ASSUME NEW q \in Requests PROVE RequestAgrees(q)'
      OBVIOUS
    <3>2. CASE q = r
      <4>1. Len(more) <= Len(vault') /\ \A h \in 1 .. Len(more) : more[h] = vault'[h]
        <5>1. /\ g = Len(vault) + 1 /\ Len(more) = g /\ Len(vault') = g
              /\ more[g] = key /\ vault'[g] = key
          BY <1>3, <1>7, <1>9, <2>1
        <5>2. \A h \in 1 .. Len(vault) : more[h] = vault[h] /\ vault'[h] = vault[h]
          BY <1>3, <1>7, <2>1, <5>1 DEF Agrees, Grows
        <5>3. QED
          BY <1>3, <5>1, <5>2
      <4>2. g >= booted[req[r].node]
        BY <1>2, <1>3, <1>7, <2>1, KeysAssumption
      <4>3. QED
        <5>1. CASE new.at = "idle"
          BY <1>4, <3>2, <5>1 DEF RequestAgrees
        <5>2. CASE /\ new.at \in {"loaded", "put"} /\ new.node = req[r].node /\ new.found = more
          BY <1>1, <1>3, <1>4, <1>9, <2>1, <3>2, <4>1, <4>2, <5>2 DEF RequestAgrees, Agrees
        <5>3. QED
          BY <1>4, <5>1, <5>2
    <3>3. CASE q # r
      <4>1. RequestShape(q) /\ RequestAgrees(q)
        BY <2>1 DEF IInv, Unraced
      <4>2. QED
        BY <1>1, <1>5, <1>8, <1>13, <2>1, <2>2, <3>3, <4>1, AgreesFrame DEF IInv
    <3>4. QED
      BY <3>2, <3>3
  <2>5. \A n \in Nodes : RingOK(n)'
    BY <1>1, <1>8, <2>1, RingFrame DEF IInv, Unraced
  <2>6. (\A i \in Instructions : instructions[i] # None => InVault(instructions[i].key, 1))'
    BY <1>1, <1>2, <1>8, <2>1, GrowsInVault DEF Unraced
  <2>7. QED
    BY <2>3, <2>4, <2>5, <2>6 DEF Unraced
<1>14. QED
  BY <1>10, <1>11, <1>12, <1>13 DEF IInv

\* A restart forgets the ring and what the process was doing.
LEMMA RestartIInv == ASSUME IInv, NEW n \in Nodes, Restart(n) PROVE IInv'
<1>1. /\ ring' = [ring EXCEPT ![n] = <<>>] /\ booted' = [booted EXCEPT ![n] = Len(vault)]
      /\ req' = [r \in Requests |-> IF req[r].node = n THEN Idle ELSE req[r]]
      /\ UNCHANGED <<vault, minted, instructions, raced>>
  BY DEF Restart
<1>2. /\ vault \in KeyRing /\ vault' \in KeyRing /\ Grows /\ Len(vault) \in 0 .. MaxGenerations
  BY <1>1, StillGrows, KeysAssumption DEF IInv, TypeOK, KeyRing
<1>3. ring' \in [Nodes -> KeyRing] /\ ring'[n] = <<>> /\ \A m \in Nodes : m # n => ring'[m] = ring[m]
  BY <1>1 DEF IInv, TypeOK, KeyRing
<1>4. /\ booted' \in [Nodes -> 0 .. MaxGenerations]
      /\ \A m \in Nodes : booted'[m] = IF m = n THEN Len(vault) ELSE booted[m]
  BY <1>1, <1>2 DEF IInv, TypeOK
<1>5. /\ req' \in [Requests -> Request]
      /\ \A r \in Requests : \/ req'[r] = Idle
                             \/ req'[r] = req[r] /\ req[r].node # n
  BY <1>1, IdleRequest DEF IInv, TypeOK
<1>6. TypeOK'
  BY <1>1, <1>2, <1>3, <1>4, <1>5 DEF IInv, TypeOK
<1>7. \A r \in Requests : RequestShape(r)'
  <2>1. SUFFICES ASSUME NEW r \in Requests PROVE RequestShape(r)'
    OBVIOUS
  <2>2. CASE req'[r] = Idle
    BY <2>2, IdleRequest DEF RequestShape
  <2>3. CASE req'[r] = req[r]
    BY <1>1, <2>3, ShapeFrame DEF IInv
  <2>4. QED
    BY <1>5, <2>2, <2>3
<1>8. \A m \in Nodes : booted'[m] <= Len(vault')
  BY <1>1, <1>2, <1>4 DEF IInv
<1>9. ASSUME ~raced' PROVE Unraced'
  <2>1. ~raced /\ Unraced
    BY <1>1, <1>9 DEF IInv
  <2>2. OneWriter'
    BY <1>5, <2>1, IdleRequest DEF Unraced, OneWriter
  <2>3. \A r \in Requests : RequestAgrees(r)'
    <3>1. SUFFICES ASSUME NEW r \in Requests PROVE RequestAgrees(r)'
      OBVIOUS
    <3>2. CASE req'[r] = Idle
      BY <3>2, IdleRequest DEF RequestAgrees
    <3>3. CASE req'[r] = req[r] /\ req[r].node # n
      <4>1. req[r].at # "idle" => booted'[req[r].node] = booted[req[r].node]
        BY <1>4, <3>3 DEF IInv, RequestShape
      <4>2. RequestShape(r) /\ RequestAgrees(r)
        BY <2>1 DEF IInv, Unraced
      <4>3. QED
        BY <1>1, <1>2, <3>3, <4>1, <4>2, AgreesFrame DEF IInv
    <3>4. QED
      BY <1>5, <3>2, <3>3
  <2>4. \A m \in Nodes : RingOK(m)'
    <3>1. SUFFICES ASSUME NEW m \in Nodes PROVE RingOK(m)'
      OBVIOUS
    <3>2. CASE m = n
      BY <1>2, <1>3, <3>2, EmptySeq DEF RingOK, Agrees
    <3>3. CASE m # n
      BY <1>2, <1>3, <1>4, <2>1, <3>3, RingFrame DEF IInv, Unraced
    <3>4. QED
      BY <3>2, <3>3
  <2>5. (\A i \in Instructions : instructions[i] # None => InVault(instructions[i].key, 1))'
    BY <1>1, <2>1 DEF Unraced, InVault
  <2>6. QED
    BY <2>2, <2>3, <2>4, <2>5 DEF Unraced
<1>10. QED
  BY <1>6, <1>7, <1>8, <1>9 DEF IInv

LEMMA ReloadKeysIInv == ASSUME IInv, NEW n \in Nodes, ReloadKeys(n) PROVE IInv'
<1>1. /\ ring' = [ring EXCEPT ![n] = <<>>]
      /\ UNCHANGED <<vault, minted, instructions, req, booted, raced>>
  BY DEF ReloadKeys
<1>2. vault \in KeyRing /\ vault' \in KeyRing /\ Grows
  BY <1>1, StillGrows DEF IInv, TypeOK
<1>3. ring' \in [Nodes -> KeyRing] /\ ring'[n] = <<>> /\ \A m \in Nodes : m # n => ring'[m] = ring[m]
  BY <1>1 DEF IInv, TypeOK, KeyRing
<1>4. TypeOK'
  BY <1>1, <1>3 DEF IInv, TypeOK
<1>5. \A r \in Requests : RequestShape(r)'
  BY <1>1, ShapeFrame DEF IInv
<1>6. ASSUME ~raced' PROVE Unraced'
  <2>1. ~raced /\ Unraced
    BY <1>1, <1>6 DEF IInv
  <2>2. OneWriter' /\ \A r \in Requests : RequestAgrees(r)'
    BY <1>1, <2>1 DEF Unraced, OneWriter, RequestAgrees, Agrees, InVault
  <2>3. \A m \in Nodes : RingOK(m)'
    <3>1. SUFFICES ASSUME NEW m \in Nodes PROVE RingOK(m)'
      OBVIOUS
    <3>2. CASE m = n
      BY <1>2, <1>3, <3>2, EmptySeq DEF RingOK, Agrees
    <3>3. CASE m # n
      BY <1>1, <1>2, <1>3, <2>1, <3>3, RingFrame DEF IInv, Unraced
    <3>4. QED
      BY <3>2, <3>3
  <2>4. (\A i \in Instructions : instructions[i] # None => InVault(instructions[i].key, 1))'
    BY <1>1, <2>1 DEF Unraced, InVault
  <2>5. QED
    BY <2>2, <2>3, <2>4 DEF Unraced
<1>7. QED
  BY <1>1, <1>4, <1>5, <1>6 DEF IInv

-----------------------------------------------------------------------------
(* The theorems                                                            *)

LEMMA InitIInv == Init => IInv
<1> SUFFICES ASSUME Init PROVE IInv
  OBVIOUS
<1>1. vault = <<>> /\ vault \in KeyRing /\ Len(vault) = 0
  BY EmptySeq DEF Init, KeyRing
<1>2. TypeOK
  <2>1. <<>> \in KeyRing /\ 0 \in 0 .. MaxGenerations /\ MaxGenerations \in Nat
    BY <1>1, KeysAssumption DEF Init
  <2>2. req \in [Requests -> Request] /\ instructions \in [Instructions -> Row \cup {None}]
    BY IdleRequest DEF Init
  <2>3. ring \in [Nodes -> KeyRing] /\ booted \in [Nodes -> 0 .. MaxGenerations]
    BY <2>1 DEF Init
  <2>4. minted \in Nat /\ raced \in BOOLEAN /\ Len(vault) <= MaxGenerations
    <3>1. minted = 0 /\ raced = FALSE
      BY DEF Init
    <3>2. Len(vault) <= MaxGenerations
      BY <1>1, <2>1
    <3>3. QED
      BY <3>1, <3>2
  <2>5. QED
    BY <1>1, <2>2, <2>3, <2>4 DEF TypeOK
<1>3. \A r \in Requests : req[r].at = "idle"
  BY IdleRequest DEF Init
<1>4. QED
  BY <1>1, <1>2, <1>3, KeysAssumption, EmptySeq
     DEF Init, IInv, RequestShape, Unraced, OneWriter, RequestAgrees, RingOK, Agrees

LEMMA NextIInv == IInv /\ [Next]_vars => IInv'
<1> SUFFICES ASSUME IInv, [Next]_vars PROVE IInv'
  OBVIOUS
<1>1. ASSUME NEW r \in Requests, NEW n \in Nodes, Rotate(r, n) PROVE IInv'
  BY <1>1, RotateIInv
<1>2. ASSUME NEW r \in Requests, NEW n \in Nodes, NEW op \in {"generate", "publish"},
             Start(r, n, op)
      PROVE  IInv'
  BY <1>2, StartIInv
<1>3. ASSUME NEW r \in Requests, Probe(r) PROVE IInv'
  BY <1>3, ProbeIInv
<1>4. ASSUME NEW r \in Requests, Put(r) PROVE IInv'
  BY <1>4, PutIInv
<1>5. ASSUME NEW r \in Requests, Loaded(r) PROVE IInv'
  BY <1>5, LoadedIInv
<1>6. ASSUME NEW r \in Requests, Attach(r) PROVE IInv'
  BY <1>6, AttachIInv
<1>7. ASSUME NEW r \in Requests, NEW i \in Instructions, Store(r, i) PROVE IInv'
  BY <1>7, StoreIInv
<1>8. ASSUME NEW r \in Requests, NEW n \in Nodes, NEW i \in Instructions, CounterSign(r, n, i)
      PROVE  IInv'
  BY <1>8, CounterSignIInv
<1>9. ASSUME NEW n \in Nodes, Restart(n) PROVE IInv'
  BY <1>9, RestartIInv
<1>10. ASSUME NEW n \in Nodes, ReloadKeys(n) PROVE IInv'
  BY <1>10, ReloadKeysIInv
<1>11. CASE UNCHANGED vars
  BY <1>11 DEF vars, IInv, TypeOK, RequestShape, Unraced, OneWriter, RequestAgrees, RingOK,
               Agrees, InVault
<1>12. QED
  BY <1>1, <1>2, <1>3, <1>4, <1>5, <1>6, <1>7, <1>8, <1>9, <1>10, <1>11 DEF Next

LEMMA Invariant == Spec => []IInv
<1>1. QED
  BY InitIInv, NextIInv, PTL DEF Spec

\* Every reachable state is well typed, for any number of processes and requests.
THEOREM TypeCorrect == Spec => []TypeOK
<1>1. IInv => TypeOK
  BY DEF IInv
<1>2. QED
  BY <1>1, Invariant, PTL

\* An instruction stays verifiable, however many rotations, restarts and loads
\* overlap, unless two minters were about to write at once.
THEOREM StaysVerifiableHolds == Spec => []StaysVerifiable
<1>1. IInv => StaysVerifiable
  BY DEF IInv, Unraced, StaysVerifiable
<1>2. QED
  BY <1>1, Invariant, PTL

\* No two processes publish different keys for one generation.
THEOREM RingsAgreeHolds == Spec => []RingsAgree
<1>1. IInv => RingsAgree
  <2>1. SUFFICES ASSUME IInv, ~raced, NEW n \in Nodes, NEW g \in 1 .. Len(ring[n])
                 PROVE  g <= Len(vault) /\ ring[n][g] = vault[g]
    BY DEF RingsAgree
  <2>2. Agrees(ring[n]) /\ vault \in KeyRing /\ ring[n] \in KeyRing
    BY <2>1 DEF IInv, Unraced, RingOK, TypeOK
  <2>3. QED
    BY <2>2 DEF Agrees, KeyRing
<1>2. QED
  BY <1>1, Invariant, PTL

\* No process signs with a generation older than the newest there was when it started.
THEOREM SignsWithRecentHolds == Spec => []SignsWithRecent
<1>1. IInv => SignsWithRecent
  BY DEF IInv, Unraced, RequestAgrees, SignsWithRecent, At
<1>2. QED
  BY <1>1, Invariant, PTL

\* A counter-signature is never replaced.
THEOREM CounterSignedOnceHolds == Spec => CounterSignedOnce
<1>1. ASSUME IInv, [Next]_vars, NEW i \in Instructions,
             instructions[i] # None, instructions[i].counter # None
      PROVE  instructions'[i] # None /\ instructions'[i].counter = instructions[i].counter
  <2>1. CASE instructions' = instructions
    BY <1>1, <2>1
  <2>2. ASSUME NEW r \in Requests, Attach(r)
        PROVE  instructions'[i] = instructions[i]
    <3>1. ~Unsigned(i)
      BY <1>1 DEF Unsigned
    <3>2. Unsigned(req[r].on) => req[r].on # i
      BY <3>1
    <3>3. QED
      BY <2>2, <3>2 DEF Attach, IInv, TypeOK
  <2>3. ASSUME NEW r \in Requests, NEW j \in Instructions, Store(r, j)
        PROVE  instructions'[i] = instructions[i]
    BY <1>1, <2>3 DEF Store, IInv, TypeOK
  <2>4. QED
    BY <1>1, <2>1, <2>2, <2>3
       DEF Next, Rotate, Start, Probe, Put, Loaded, CounterSign, Restart, ReloadKeys, vars
<1>2. IInv /\ [Next]_vars
         => [\A i \in Instructions :
                instructions[i] # None /\ instructions[i].counter # None
                   => instructions'[i] # None
                      /\ instructions'[i].counter = instructions[i].counter]_vars
  BY <1>1
<1>3. QED
  BY <1>2, Invariant, PTL DEF Spec, CounterSignedOnce
=============================================================================
