------------------------ MODULE QuantumWalletProofs ------------------------
(***************************************************************************)
(* Proofs about the compressed-key wallet for any seeds, any number of     *)
(* keys and any transactions: the address index is exact, a load restores  *)
(* a prefix of what was saved wherever a crash cut the file, and the       *)
(* witness of a signed transaction fits its inputs.                        *)
(***************************************************************************)
EXTENDS QuantumWallet, FiniteSetTheorems, TLAPS

-----------------------------------------------------------------------------
(* The inductive invariant.                                                *)

SeedValues == Seq(Seeds \cup Indices)

\* The key pairs that can have been made with the first n Dilithium keys.
Pairs(n) == {FromSeed(s, k) : s \in SeedValues, k \in 1 .. n}

PairsOK ==
    /\ made \in 0 .. MaxKeys
    /\ keypairs \in Seq(Pairs(made))
    /\ held \subseteq Pairs(made)
    /\ saved \in Seq(Pairs(made))

\* Each address leads to the pair it is the address of, and back.
IndexOK ==
    /\ IsFiniteSet(DOMAIN address_to_index)
    /\ Cardinality(DOMAIN address_to_index) = Len(keypairs)
    /\ \A a \in DOMAIN address_to_index :
          /\ address_to_index[a] \in 1 .. Len(keypairs)
          /\ keypairs[address_to_index[a]].address_hash = a
    /\ \A i \in 1 .. Len(keypairs) :
          /\ keypairs[i].address_hash \in DOMAIN address_to_index
          /\ address_to_index[keypairs[i].address_hash] = i

\* The file holds the first seeds of the wallet it was written from.
FileOK ==
    file # NoFile =>
        /\ file = [count |-> file.count, keys |-> file.keys]
        /\ file.keys \in Seq(SeedValues)
        /\ Len(file.keys) <= Len(saved)
        /\ \A i \in 1 .. Len(file.keys) : file.keys[i] = saved[i].seed
        /\ file.count \in {NoCount, Len(saved)}
        /\ file.count = NoCount => file.keys = <<>>

\* Where SaveToFile and LoadFromFile are.
BusyOK ==
    /\ busy \in {"no", "count", "keys", "load"} /\ at \in Nat
    /\ loaded \in BOOLEAN
    /\ busy \in {"count", "keys"} => saved = keypairs /\ file # NoFile
    /\ busy = "count" => file.count = NoCount
    /\ busy = "keys" => file.count = Len(saved) /\ Len(file.keys) < Len(saved)
    /\ busy = "load" =>
          /\ file # NoFile /\ ~loaded
          /\ at = Len(keypairs) /\ at <= Len(file.keys)
          /\ \A i \in 1 .. at : keypairs[i].seed = file.keys[i]
          /\ made + (Len(file.keys) - at) <= MaxKeys
    /\ loaded =>
          /\ Len(keypairs) <= Len(saved)
          /\ \A i \in 1 .. Len(keypairs) : keypairs[i].seed = saved[i].seed
          /\ FileIsComplete => Len(keypairs) = Len(saved)

\* A transaction is not signed, or its witness fits.
TxShape(t) ==
    /\ t = [vin |-> t.vin, witness |-> t.witness]
    /\ t.vin \in Seq(Outpoints) /\ t.vin # <<>>
    /\ DOMAIN t.witness = DOMAIN t.vin
    /\ \/ t.witness[1] = <<>>
       \/ WitnessFits(t) /\ VerifyAggregated(FromScriptWitness(t.witness[1]).agg_signature)

TxOK == tx # NoTx => TxShape(tx)

IInv == PairsOK /\ IndexOK /\ FileOK /\ BusyOK /\ TxOK

-----------------------------------------------------------------------------
(* Key pairs and the wallet as a value.                                    *)

\* The parts of a key pair made from a seed.
LEMMA PairParts ==
    ASSUME NEW s, NEW k
    PROVE  /\ FromSeed(s, k).seed = s /\ FromSeed(s, k).dilithium = k
           /\ FromSeed(s, k).address_hash = <<EcdsaPubKey(s), k>>
  BY DEF FromSeed

\* A known pair.
LEMMA PairFacts ==
    ASSUME NEW n \in Nat, NEW kp \in Pairs(n)
    PROVE  /\ kp.seed \in SeedValues /\ kp.dilithium \in 1 .. n
           /\ kp.address_hash = <<EcdsaPubKey(kp.seed), kp.dilithium>>
  <1>1. PICK s \in SeedValues, k \in 1 .. n : kp = FromSeed(s, k)
    BY DEF Pairs
  <1> QED BY <1>1, PairParts

\* More keys allow more pairs.
LEMMA PairsGrow ==
    ASSUME NEW n \in Nat
    PROVE  /\ Pairs(n) \subseteq Pairs(n + 1)
           /\ \A s \in SeedValues : FromSeed(s, n + 1) \in Pairs(n + 1)
           /\ Seq(Pairs(n)) \subseteq Seq(Pairs(n + 1))
  <1>1. 1 .. n \subseteq 1 .. n + 1 /\ n + 1 \in 1 .. n + 1
    OBVIOUS
  <1>2. Pairs(n) \subseteq Pairs(n + 1)
    BY <1>1 DEF Pairs
  <1>3. \A s \in SeedValues : FromSeed(s, n + 1) \in Pairs(n + 1)
    BY <1>1 DEF Pairs
  <1> QED BY <1>2, <1>3

\* AddKeyPair keeps the index exact, and appends a pair with a new address.
LEMMA AddedFacts ==
    ASSUME IndexOK, NEW S, keypairs \in Seq(S), NEW kp \in S,
           SetWallet(Added(Current, kp))
    PROVE  /\ IndexOK' /\ keypairs' \in Seq(S)
           /\ kp.address_hash \in DOMAIN address_to_index => keypairs' = keypairs
           /\ kp.address_hash \notin DOMAIN address_to_index => keypairs' = Append(keypairs, kp)
  <1> DEFINE a == kp.address_hash
  <1>1. CASE a \in DOMAIN address_to_index
    <2>1. keypairs' = keypairs /\ address_to_index' = address_to_index
      BY <1>1 DEF SetWallet, Added, Current
    <2> QED BY <1>1, <2>1 DEF IndexOK
  <1>2. CASE a \notin DOMAIN address_to_index
    <2>1. /\ keypairs' = Append(keypairs, kp)
          /\ address_to_index' = [x \in DOMAIN address_to_index \cup {a} |->
                IF x = a THEN Len(keypairs) + 1 ELSE address_to_index[x]]
      BY <1>2 DEF SetWallet, Added, Current
    <2>2. /\ keypairs' \in Seq(S) /\ Len(keypairs') = Len(keypairs) + 1 /\ Len(keypairs) \in Nat
          /\ keypairs'[Len(keypairs) + 1] = kp
          /\ \A i \in 1 .. Len(keypairs) : keypairs'[i] = keypairs[i]
      BY <2>1
    <2>3. /\ DOMAIN address_to_index' = DOMAIN address_to_index \cup {a}
          /\ address_to_index'[a] = Len(keypairs) + 1
          /\ \A x \in DOMAIN address_to_index : address_to_index'[x] = address_to_index[x]
      BY <1>2, <2>1
    <2>4. /\ IsFiniteSet(DOMAIN address_to_index')
          /\ Cardinality(DOMAIN address_to_index') = Len(keypairs')
      <3>1. IsFiniteSet(DOMAIN address_to_index) /\ Cardinality(DOMAIN address_to_index) = Len(keypairs)
        BY DEF IndexOK
      <3>2. /\ IsFiniteSet(DOMAIN address_to_index \cup {a})
            /\ Cardinality(DOMAIN address_to_index \cup {a}) = Cardinality(DOMAIN address_to_index) + 1
        BY <1>2, <3>1, FS_AddElement
      <3> QED BY <3>1, <3>2, <2>2, <2>3
    <2>5. \A x \in DOMAIN address_to_index' :
             /\ address_to_index'[x] \in 1 .. Len(keypairs')
             /\ keypairs'[address_to_index'[x]].address_hash = x
      BY <2>2, <2>3 DEF IndexOK
    <2>6. \A i \in 1 .. Len(keypairs') :
             /\ keypairs'[i].address_hash \in DOMAIN address_to_index'
             /\ address_to_index'[keypairs'[i].address_hash] = i
      <3>1. SUFFICES ASSUME NEW i \in 1 .. Len(keypairs) + 1
                     PROVE  /\ keypairs'[i].address_hash \in DOMAIN address_to_index'
                            /\ address_to_index'[keypairs'[i].address_hash] = i
        BY <2>2
      <3>2. CASE i = Len(keypairs) + 1
        BY <3>2, <2>2, <2>3
      <3>3. CASE i \in 1 .. Len(keypairs)
        BY <3>3, <2>2, <2>3 DEF IndexOK
      <3> QED BY <3>2, <3>3, <2>2
    <2> QED BY <1>2, <2>1, <2>2, <2>4, <2>5, <2>6 DEF IndexOK
  <1> QED BY <1>1, <1>2

\* A pair with a Dilithium key of its own has a new address.
LEMMA FreshAddress ==
    ASSUME PairsOK, IndexOK, NEW s
    PROVE  FromSeed(s, made + 1).address_hash \notin DOMAIN address_to_index
  <1>1. SUFFICES ASSUME NEW a \in DOMAIN address_to_index, a = <<EcdsaPubKey(s), made + 1>>
                 PROVE  FALSE
    BY PairParts
  <1>2. PICK i \in 1 .. Len(keypairs) : keypairs[i].address_hash = a
    BY DEF IndexOK
  <1>3. keypairs[i] \in Pairs(made) /\ made \in Nat
    BY <1>2 DEF PairsOK
  <1>4. keypairs[i].dilithium \in 1 .. made
        /\ a = <<EcdsaPubKey(keypairs[i].seed), keypairs[i].dilithium>>
    BY <1>2, <1>3, PairFacts
  <1> QED BY <1>1, <1>3, <1>4

\* The empty wallet.
LEMMA EmptyFacts ==
    ASSUME SetWallet(Empty)
    PROVE  IndexOK' /\ keypairs' = <<>>
  <1>1. keypairs' = <<>> /\ address_to_index' = <<>>
    BY DEF SetWallet, Empty
  <1>2. DOMAIN address_to_index' = {} /\ Len(keypairs') = 0
    BY <1>1
  <1> QED BY <1>1, <1>2, FS_EmptySet DEF IndexOK

-----------------------------------------------------------------------------
(* Transactions.                                                           *)

\* SignTransaction with key pairs for all inputs makes a witness that fits,
\* and with any other number of them leaves the transaction alone.
LEMMA SignFits ==
    ASSUME NEW t, TxShape(t), NEW S, NEW pairs \in Seq(S)
    PROVE  TxShape(SignTransaction(t, pairs))
  <1>1. CASE Len(t.vin) # Len(pairs)
    BY <1>1 DEF SignTransaction
  <1>2. CASE Len(t.vin) = Len(pairs)
    <2>1. PICK keys : keys = [i \in DOMAIN pairs |-> pairs[i].dilithium]
      OBVIOUS
    <2>2. PICK hashes : hashes = [i \in DOMAIN pairs |-> pairs[i].address_hash]
      OBVIOUS
    <2>3. PICK n : n = Len(pairs)
      OBVIOUS
    <2>4. PICK agg : agg = Aggregate(TxHash(t), keys)
      OBVIOUS
    <2>5. PICK w : w = [agg_signature |-> agg, pubkeys |-> keys, address_hashes |-> hashes,
                        input_count |-> n]
      OBVIOUS
    <2>6. SignTransaction(t, pairs) = [t EXCEPT !.witness = [i \in DOMAIN t.vin |-> ToScriptWitness(w)]]
      BY <1>2, <2>1, <2>2, <2>3, <2>4, <2>5 DEF SignTransaction
    <2>7. /\ n \in Nat /\ n # 0 /\ n = Len(t.vin) /\ DOMAIN pairs = 1 .. n
          /\ DOMAIN t.vin = 1 .. n /\ 1 \in 1 .. n
      BY <1>2, <2>3 DEF TxShape
    <2>8. Len(keys) = n /\ Len(hashes) = n
      BY <2>1, <2>2, <2>7
    <2>9. WitnessIsValid(w)
      BY <2>5, <2>7, <2>8 DEF WitnessIsValid
    <2>10. PICK stack : stack = <<agg, keys, hashes, n>>
      OBVIOUS
    <2>11. ToScriptWitness(w) = stack
      BY <2>5, <2>9, <2>10 DEF ToScriptWitness
    <2>12. FromScriptWitness(stack) = w
      BY <2>5, <2>10 DEF FromScriptWitness
    <2>13. PICK u : u = SignTransaction(t, pairs)
      OBVIOUS
    <2>14. /\ u = [vin |-> u.vin, witness |-> u.witness] /\ u.vin = t.vin
           /\ u.witness = [i \in 1 .. n |-> stack]
      BY <2>6, <2>7, <2>11, <2>13 DEF TxShape
    <2>15. WitnessFits(u)
      BY <2>5, <2>7, <2>9, <2>12, <2>14 DEF WitnessFits
    <2>16. VerifyAggregated(FromScriptWitness(u.witness[1]).agg_signature)
      <3>1. FromScriptWitness(u.witness[1]).agg_signature = agg
        BY <2>5, <2>7, <2>12, <2>14
      <3>2. DOMAIN agg.messages = DOMAIN agg.pubkeys
        BY <2>4 DEF Aggregate
      <3> QED BY <3>1, <3>2 DEF VerifyAggregated
    <2>17. TxShape(u)
      BY <2>7, <2>14, <2>15, <2>16 DEF TxShape
    <2> QED BY <2>13, <2>17
  <1> QED BY <1>1, <1>2

\* A transaction as BuildTransaction leaves it.
LEMMA BuiltFits ==
    ASSUME NEW inputs \in Inputs
    PROVE  TxShape(BuildTransaction(inputs)) /\ inputs \in Seq(Outpoints)
  <1>1. PICK n \in 1 .. MaxInputs : inputs \in [1 .. n -> Outpoints]
    BY DEF Inputs
  <1>2. n \in Nat /\ n # 0
    BY <1>1, BoundAssumption
  <1>3. inputs \in Seq(Outpoints) /\ inputs # <<>> /\ DOMAIN inputs = 1 .. n /\ 1 \in 1 .. n
    BY <1>1, <1>2
  <1>4. PICK t : t = BuildTransaction(inputs)
    OBVIOUS
  <1>5. /\ t.vin = inputs /\ t.witness = [i \in DOMAIN inputs |-> <<>>]
        /\ t = [vin |-> t.vin, witness |-> t.witness]
    BY <1>4 DEF BuildTransaction
  <1>6. TxShape(t)
    BY <1>3, <1>5 DEF TxShape
  <1> QED BY <1>3, <1>4, <1>6

\* The steps that only touch the transaction.
LEMMA TxStep ==
    ASSUME IInv,
           \/ \E inputs \in Inputs : CreateTransaction(inputs)
           \/ SignWithWallet
           \/ \E inputs \in Inputs : \E pairs \in [DOMAIN inputs -> held] : BuildAndSign(inputs, pairs)
    PROVE  IInv'
  <1>1. UNCHANGED <<keypairs, address_to_index, held, made, file, busy, at, saved, loaded>>
    BY DEF CreateTransaction, SignWithWallet, BuildAndSign, wallet, disk
  <1>2. PairsOK' /\ IndexOK' /\ FileOK' /\ BusyOK'
    BY <1>1 DEF IInv, PairsOK, IndexOK, FileOK, BusyOK, FileIsComplete
  <1>3. TxShape(tx')
    <2>1. CASE \E inputs \in Inputs : CreateTransaction(inputs)
      BY <2>1, BuiltFits DEF CreateTransaction
    <2>2. CASE SignWithWallet
      <3>1. PICK n : n = IF Len(tx.vin) <= Len(keypairs) THEN Len(tx.vin) ELSE Len(keypairs)
        OBVIOUS
      <3>2. TxShape(tx) /\ keypairs \in Seq(Pairs(made))
        BY <2>2 DEF SignWithWallet, IInv, TxOK, PairsOK
      <3>3. n \in 0 .. Len(keypairs)
        BY <3>1, <3>2 DEF TxShape
      <3>4. SubSeq(keypairs, 1, n) \in Seq(Pairs(made))
        BY <3>2, <3>3
      <3>5. tx' = SignTransaction(tx, SubSeq(keypairs, 1, n))
        BY <2>2, <3>1 DEF SignWithWallet
      <3> QED BY <3>2, <3>4, <3>5, SignFits
    <2>3. CASE \E inputs \in Inputs : \E pairs \in [DOMAIN inputs -> held] : BuildAndSign(inputs, pairs)
      <3>0. PICK inputs \in Inputs : \E pairs \in [DOMAIN inputs -> held] : BuildAndSign(inputs, pairs)
        BY <2>3
      <3>1. PICK pairs \in [DOMAIN inputs -> held] : BuildAndSign(inputs, pairs)
        BY <3>0
      <3>2. TxShape(BuildTransaction(inputs)) /\ inputs \in Seq(Outpoints)
        BY BuiltFits
      <3>3. pairs \in Seq(held)
        <4>1. DOMAIN inputs = 1 .. Len(inputs) /\ Len(inputs) \in Nat
          BY <3>2
        <4> QED BY <4>1
      <3> QED BY <3>1, <3>2, <3>3, SignFits DEF BuildAndSign
    <2> QED BY <2>1, <2>2, <2>3
  <1> QED BY <1>2, <1>3 DEF IInv, TxOK

-----------------------------------------------------------------------------
(* The wallet and its file.                                                *)

\* A key pair is generated and added.
LEMMA GenerateStep ==
    ASSUME IInv, NEW seed \in Seeds, GenerateNewKeyPair(seed)
    PROVE  IInv'
  <1> USE DEF IInv
  <1>1. PICK kp : kp = FromSeed(<<seed>>, made + 1)
    OBVIOUS
  <1>2. /\ SetWallet(Added(Current, kp)) /\ held' = held \cup {kp} /\ made' = made + 1
        /\ busy = "no" /\ made < MaxKeys /\ loaded' = FALSE
        /\ UNCHANGED <<file, busy, at, saved, tx>>
    BY <1>1 DEF GenerateNewKeyPair, disk
  <1>3. made \in Nat /\ made' \in 0 .. MaxKeys
    BY <1>2, BoundAssumption DEF PairsOK
  <1>4. kp \in Pairs(made') /\ Pairs(made) \subseteq Pairs(made')
    <2>1. <<seed>> \in SeedValues
      BY DEF SeedValues
    <2> QED BY <1>1, <1>2, <1>3, <2>1, PairsGrow
  <1>5. keypairs \in Seq(Pairs(made')) /\ saved \in Seq(Pairs(made'))
    BY <1>2, <1>3, PairsGrow DEF PairsOK
  <1>6. PICK S : S = Pairs(made')
    OBVIOUS
  <1>7. IndexOK' /\ keypairs' \in Seq(S)
    BY <1>2, <1>4, <1>5, <1>6, AddedFacts
  <1>8. PairsOK'
    BY <1>2, <1>3, <1>4, <1>5, <1>6, <1>7 DEF PairsOK, Pairs
  <1>9. FileOK' /\ TxOK'
    BY <1>2 DEF FileOK, TxOK
  <1>10. BusyOK'
    BY <1>2 DEF BusyOK
  <1> QED BY <1>7, <1>8, <1>9, <1>10

\* A child key goes to the caller.
LEMMA DeriveStep ==
    ASSUME IInv, NEW kp \in held, NEW n \in Indices, DeriveChild(kp, n)
    PROVE  IInv'
  <1> USE DEF IInv
  <1>1. /\ held' = held \cup {FromSeed(Append(kp.seed, n), made + 1)} /\ made' = made + 1
        /\ busy = "no" /\ made < MaxKeys
        /\ UNCHANGED <<keypairs, address_to_index, file, busy, at, saved, loaded, tx>>
    BY DEF DeriveChild, Derive, wallet, disk
  <1>2. made \in Nat /\ made' \in 0 .. MaxKeys
    BY <1>1, BoundAssumption DEF PairsOK
  <1>3. Append(kp.seed, n) \in SeedValues
    <2>1. kp.seed \in SeedValues
      BY <1>2, PairFacts DEF PairsOK
    <2> QED BY <2>1 DEF SeedValues
  <1>4. /\ FromSeed(Append(kp.seed, n), made + 1) \in Pairs(made + 1)
        /\ Pairs(made) \subseteq Pairs(made + 1)
        /\ Seq(Pairs(made)) \subseteq Seq(Pairs(made + 1))
    BY <1>2, <1>3, PairsGrow
  <1>5. PairsOK'
    BY <1>1, <1>2, <1>4 DEF PairsOK, Pairs
  <1>6. IndexOK' /\ FileOK' /\ TxOK'
    BY <1>1 DEF IndexOK, FileOK, TxOK
  <1>7. BusyOK'
    BY <1>1 DEF BusyOK, FileIsComplete
  <1> QED BY <1>5, <1>6, <1>7

\* A pair the caller holds is added, or the wallet is cleared.
LEMMA EditStep ==
    ASSUME IInv, (\E kp \in held : AddKeyPair(kp)) \/ Clear
    PROVE  IInv'
  <1> USE DEF IInv
  <1>1. /\ busy = "no" /\ loaded' = FALSE
        /\ UNCHANGED <<held, made, file, busy, at, saved, tx>>
    BY DEF AddKeyPair, Clear, disk
  <1>2. IndexOK' /\ keypairs' \in Seq(Pairs(made))
    <2>1. CASE Clear
      BY <2>1, EmptyFacts DEF Clear
    <2>2. CASE \E kp \in held : AddKeyPair(kp)
      <3>1. PICK kp \in held : SetWallet(Added(Current, kp))
        BY <2>2 DEF AddKeyPair
      <3>2. PICK S : S = Pairs(made)
        OBVIOUS
      <3>3. kp \in S /\ keypairs \in Seq(S)
        BY <3>2 DEF PairsOK
      <3> QED BY <3>1, <3>2, <3>3, AddedFacts
    <2> QED BY <2>1, <2>2
  <1>3. PairsOK'
    BY <1>1, <1>2 DEF PairsOK, Pairs
  <1>4. FileOK' /\ TxOK'
    BY <1>1 DEF FileOK, TxOK
  <1>5. BusyOK'
    BY <1>1 DEF BusyOK
  <1> QED BY <1>2, <1>3, <1>4, <1>5

\* The writes of SaveToFile.
LEMMA SaveStep ==
    ASSUME IInv, SaveOpen \/ SaveWrite
    PROVE  IInv'
  <1> USE DEF IInv
  <1>1. UNCHANGED <<keypairs, address_to_index, held, made, at, loaded, tx>>
    BY DEF SaveOpen, SaveWrite, wallet
  <1>2. IndexOK' /\ TxOK'
    BY <1>1 DEF IndexOK, TxOK
  <1>3. CASE SaveOpen
    <2>1. /\ file' = [count |-> NoCount, keys |-> <<>>] /\ busy' = "count" /\ saved' = keypairs
      BY <1>3 DEF SaveOpen
    <2>2. file'.count = NoCount /\ file'.keys = <<>> /\ Len(file'.keys) = 0
      BY <2>1
    <2>3. PairsOK'
      BY <1>1, <2>1 DEF PairsOK, Pairs
    <2>4. Len(keypairs) \in Nat
      BY DEF PairsOK
    <2>5. FileOK'
      BY <2>1, <2>2, <2>4, <1>1 DEF FileOK, SeedValues
    <2>6. file' # NoFile
      <3>1. <<>> \in Seq(Seq(Seeds \cup Indices))
        OBVIOUS
      <3>2. file' \in [count : Nat \cup {NoCount}, keys : Seq(Seq(Seeds \cup Indices))]
        BY <2>1, <3>1
      <3> QED BY <3>2, MarkAssumption
    <2>7. BusyOK'
      BY <2>1, <2>2, <2>4, <2>6, <1>1 DEF BusyOK
    <2> QED BY <1>2, <2>3, <2>5, <2>7
  <1>4. CASE SaveWrite
    <2>1. /\ busy \in {"count", "keys"} /\ saved' = saved /\ saved = keypairs /\ file # NoFile
          /\ keypairs \in Seq(Pairs(made)) /\ Len(keypairs) \in Nat /\ made \in Nat
      BY <1>4 DEF SaveWrite, BusyOK, PairsOK
    <2>2. /\ file = [count |-> file.count, keys |-> file.keys]
          /\ file.keys \in Seq(SeedValues) /\ Len(file.keys) \in Nat /\ Len(file.keys) <= Len(keypairs)
          /\ \A i \in 1 .. Len(file.keys) : file.keys[i] = keypairs[i].seed
          /\ file.count = NoCount => file.keys = <<>>
      BY <2>1 DEF FileOK
    <2>3. PairsOK'
      BY <1>1, <2>1 DEF PairsOK, Pairs
    <2>4. PICK c, k : /\ file' = [count |-> c, keys |-> k]
                      /\ c = Len(keypairs) /\ k \in Seq(SeedValues) /\ Len(k) <= Len(keypairs)
                      /\ \A i \in 1 .. Len(k) : k[i] = keypairs[i].seed
      <3>1. CASE busy = "count"
        <4>1. file' = [count |-> Len(keypairs), keys |-> file.keys]
          BY <2>2, <3>1, <1>4 DEF SaveWrite
        <4> QED BY <4>1, <2>2
      <3>2. CASE busy = "keys"
        <4>1. file.count = Len(keypairs) /\ Len(file.keys) < Len(keypairs)
          BY <2>1, <3>2 DEF BusyOK
        <4>2. PICK x : x = keypairs[Len(file.keys) + 1].seed
          OBVIOUS
        <4>3. file' = [count |-> Len(keypairs), keys |-> Append(file.keys, x)]
          BY <2>2, <3>2, <4>1, <4>2, <1>4 DEF SaveWrite, Serialize
        <4>4. x \in SeedValues
          <5>1. keypairs[Len(file.keys) + 1] \in Pairs(made)
            BY <2>1, <2>2, <4>1
          <5> QED BY <5>1, <4>2, <2>1, PairFacts
        <4>5. /\ Append(file.keys, x) \in Seq(SeedValues)
              /\ Len(Append(file.keys, x)) = Len(file.keys) + 1
              /\ \A i \in 1 .. Len(file.keys) : Append(file.keys, x)[i] = file.keys[i]
              /\ Append(file.keys, x)[Len(file.keys) + 1] = x
          BY <4>4, <2>2
        <4>6. \A i \in 1 .. Len(file.keys) + 1 : Append(file.keys, x)[i] = keypairs[i].seed
          BY <4>2, <4>5, <2>2
        <4>7. PICK y : y = Append(file.keys, x)
          OBVIOUS
        <4>8. /\ file' = [count |-> Len(keypairs), keys |-> y] /\ y \in Seq(SeedValues)
              /\ Len(y) <= Len(keypairs) /\ \A i \in 1 .. Len(y) : y[i] = keypairs[i].seed
          BY <4>1, <4>3, <4>5, <4>6, <4>7, <2>1, <2>2
        <4> QED BY <4>8
      <3> QED BY <2>1, <3>1, <3>2
    <2>5. file'.count = c /\ file'.keys = k /\ Len(k) \in Nat
      BY <2>4
    <2>6. file' # NoFile
      <3>1. file' \in [count : Nat \cup {NoCount}, keys : Seq(Seq(Seeds \cup Indices))]
        BY <2>1, <2>4 DEF SeedValues
      <3> QED BY <3>1, MarkAssumption
    <2>7. FileOK'
      BY <2>1, <2>4, <2>5, <1>1, MarkAssumption DEF FileOK
    <2>8. busy' = IF Len(k) = Len(keypairs) THEN "no" ELSE "keys"
      BY <2>5, <1>4 DEF SaveWrite
    <2>9. BusyOK'
      BY <2>1, <2>4, <2>5, <2>6, <2>8, <1>1 DEF BusyOK
    <2> QED BY <1>2, <2>3, <2>7, <2>9
  <1> QED BY <1>3, <1>4

\* LoadFromFile and its loop.
LEMMA LoadStep ==
    ASSUME IInv, LoadFromFile \/ LoadKey \/ LoadEnd
    PROVE  IInv'
  <1> USE DEF IInv
  <1>1. UNCHANGED <<held, file, saved, tx>>
    BY DEF LoadFromFile, LoadKey, LoadEnd
  <1>2. FileOK' /\ TxOK'
    BY <1>1 DEF FileOK, TxOK
  <1>3. CASE LoadFromFile
    <2>1. IndexOK' /\ keypairs' = <<>>
      BY <1>3, EmptyFacts DEF LoadFromFile
    <2>2. /\ busy' = "load" /\ at' = 0 /\ loaded' = FALSE /\ made' = made /\ file # NoFile
          /\ made + Len(file.keys) <= MaxKeys
      BY <1>3 DEF LoadFromFile
    <2>3. PairsOK'
      BY <2>1, <2>2, <1>1 DEF PairsOK, Pairs
    <2>4. Len(file.keys) \in Nat /\ made \in Nat
      BY <2>2 DEF FileOK, PairsOK
    <2>5. PICK L : L = Len(file.keys)
      OBVIOUS
    <2>6. Len(keypairs') = 0 /\ at' <= L /\ made' + (L - at') <= MaxKeys
      BY <2>1, <2>2, <2>4, <2>5
    <2>7. at' \in Nat /\ \A i \in 1 .. at' : keypairs'[i].seed = file'.keys[i]
      BY <2>2
    <2>8. BusyOK'
      BY <2>2, <2>5, <2>6, <2>7, <1>1 DEF BusyOK
    <2> QED BY <1>2, <2>1, <2>3, <2>8
  <1>4. CASE LoadKey
    <2>1. /\ busy = "load" /\ at < Len(file.keys) /\ file # NoFile /\ ~loaded /\ at \in Nat
          /\ at = Len(keypairs)
          /\ \A i \in 1 .. at : keypairs[i].seed = file.keys[i]
          /\ made + (Len(file.keys) - at) <= MaxKeys
          /\ made' = made + 1 /\ at' = at + 1 /\ UNCHANGED <<busy, loaded>>
      BY <1>4 DEF LoadKey, BusyOK
    <2>2. PICK kp : kp = FromSeed(file.keys[at + 1], made + 1)
      OBVIOUS
    <2>3. /\ file.keys \in Seq(SeedValues) /\ Len(file.keys) \in Nat /\ made \in Nat
      BY <2>1 DEF FileOK, PairsOK
    <2>4. file.keys[at + 1] \in SeedValues
      BY <2>1, <2>3
    <2>5. made' \in 0 .. MaxKeys
      BY <2>1, <2>3, BoundAssumption
    <2>6. /\ kp \in Pairs(made') /\ keypairs \in Seq(Pairs(made')) /\ saved \in Seq(Pairs(made'))
          /\ held \subseteq Pairs(made')
      BY <2>1, <2>2, <2>3, <2>4, PairsGrow DEF PairsOK
    <2>7. PICK S : S = Pairs(made')
      OBVIOUS
    <2>8. kp.address_hash \notin DOMAIN address_to_index
      BY <2>2, FreshAddress
    <2>9. IndexOK' /\ keypairs' \in Seq(S) /\ keypairs' = Append(keypairs, kp)
      BY <1>4, <2>2, <2>6, <2>7, <2>8, AddedFacts DEF LoadKey
    <2>10. PairsOK'
      BY <2>5, <2>6, <2>7, <2>9, <1>1 DEF PairsOK, Pairs
    <2>11. kp.seed = file.keys[at + 1]
      BY <2>2, PairParts
    <2>12. /\ Len(keypairs') = at' /\ at' \in Nat
           /\ \A i \in 1 .. at' : keypairs'[i].seed = file.keys[i]
      <3>1. /\ Len(keypairs') = at + 1 /\ keypairs'[at + 1] = kp
            /\ \A i \in 1 .. at : keypairs'[i] = keypairs[i]
        BY <2>1, <2>6, <2>9
      <3> QED BY <3>1, <2>1, <2>11
    <2>13. made' + (Len(file.keys) - at') <= MaxKeys /\ at' <= Len(file.keys)
      <3>1. PICK L : L = Len(file.keys)
        OBVIOUS
      <3>2. /\ L \in Nat /\ at \in Nat /\ made \in Nat /\ MaxKeys \in Nat
            /\ at < L /\ made + (L - at) <= MaxKeys /\ made' = made + 1 /\ at' = at + 1
        BY <2>1, <2>3, <3>1, BoundAssumption
      <3>3. made' + (L - at') <= MaxKeys /\ at' <= L
        BY <3>2
      <3> QED BY <3>1, <3>3
    <2>14. BusyOK'
      BY <2>1, <2>12, <2>13, <1>1 DEF BusyOK
    <2> QED BY <1>2, <2>9, <2>10, <2>14
  <1>5. CASE LoadEnd
    <2>1. /\ busy = "load" /\ at = Len(file.keys) /\ file # NoFile /\ at = Len(keypairs)
          /\ \A i \in 1 .. at : keypairs[i].seed = file.keys[i]
          /\ busy' = "no" /\ loaded' = TRUE
          /\ UNCHANGED <<keypairs, address_to_index, made, at>>
      BY <1>5 DEF LoadEnd, BusyOK, wallet
    <2>2. PairsOK' /\ IndexOK'
      BY <2>1, <1>1 DEF PairsOK, IndexOK, Pairs
    <2>3. /\ Len(keypairs) <= Len(saved)
          /\ \A i \in 1 .. Len(keypairs) : keypairs[i].seed = saved[i].seed
          /\ FileIsComplete => Len(keypairs) = Len(saved)
      BY <2>1, MarkAssumption DEF FileOK, FileIsComplete
    <2>4. BusyOK'
      BY <2>1, <2>3, <1>1 DEF BusyOK, FileIsComplete
    <2> QED BY <1>2, <2>2, <2>4
  <1> QED BY <1>3, <1>4, <1>5

\* A crash loses the wallet and the caller's keys, not the file.
LEMMA CrashStep ==
    ASSUME IInv, Crash
    PROVE  IInv'
  <1> USE DEF IInv
  <1>1. /\ IndexOK' /\ keypairs' = <<>> /\ held' = {} /\ tx' = NoTx /\ busy' = "no"
        /\ loaded' = FALSE /\ UNCHANGED <<made, file, at, saved>>
    BY EmptyFacts DEF Crash
  <1>2. PairsOK'
    BY <1>1 DEF PairsOK, Pairs
  <1>3. FileOK' /\ TxOK' /\ BusyOK'
    BY <1>1 DEF FileOK, TxOK, BusyOK
  <1> QED BY <1>1, <1>2, <1>3

-----------------------------------------------------------------------------
(* Theorems.                                                               *)

\* An empty wallet without a file satisfies the invariant.
LEMMA Initially == Init => IInv
  <1> SUFFICES ASSUME Init PROVE IInv
    OBVIOUS
  <1>1. PairsOK
    BY BoundAssumption DEF Init, PairsOK
  <1>2. IndexOK
    BY FS_EmptySet DEF Init, IndexOK
  <1>3. FileOK /\ BusyOK /\ TxOK
    BY DEF Init, FileOK, BusyOK, TxOK
  <1> QED BY <1>1, <1>2, <1>3 DEF IInv

\* IInv is inductive: every call keeps it, wherever a crash interrupts one.
THEOREM WalletInvariant == Spec => []IInv
  <1>1. IInv /\ [Next]_vars => IInv'
    <2> SUFFICES ASSUME IInv, [Next]_vars PROVE IInv'
      OBVIOUS
    <2>1. CASE UNCHANGED vars
      <3>1. UNCHANGED <<keypairs, address_to_index, held, made, file, busy, at, saved, loaded, tx>>
        BY <2>1 DEF vars, wallet, disk
      <3>2. PairsOK'
        BY <3>1 DEF IInv, PairsOK, Pairs
      <3>3. IndexOK'
        BY <3>1 DEF IInv, IndexOK
      <3>4. FileOK' /\ TxOK' /\ BusyOK'
        BY <3>1 DEF IInv, FileOK, TxOK, BusyOK, FileIsComplete
      <3> QED BY <3>2, <3>3, <3>4 DEF IInv
    <2>2. CASE Next
      BY <2>2, GenerateStep, DeriveStep, EditStep, SaveStep, LoadStep, CrashStep, TxStep DEF Next
    <2> QED BY <2>1, <2>2
  <1> QED BY Initially, <1>1, PTL DEF Spec

\* Every variable keeps its type.
THEOREM TypeCorrect == Spec => []TypeOK
  <1>1. IInv => TypeOK
    <2> SUFFICES ASSUME IInv PROVE TypeOK
      OBVIOUS
    <2>1. made \in 0 .. MaxKeys /\ made \in Nat /\ keypairs \in Seq(Pairs(made)) /\ held \subseteq Pairs(made)
      BY DEF IInv, PairsOK
    <2>2. \A i \in DOMAIN keypairs : keypairs[i].dilithium \in Key
      <3>1. ASSUME NEW i \in DOMAIN keypairs PROVE keypairs[i].dilithium \in 1 .. made
        BY <2>1, PairFacts
      <3> QED BY <3>1, <2>1, BoundAssumption DEF Key
    <2>3. \A kp \in held : kp.dilithium \in 1 .. made
      BY <2>1, PairFacts
    <2>4. \A a \in DOMAIN address_to_index : address_to_index[a] \in DOMAIN keypairs
      BY <2>1 DEF IInv, IndexOK
    <2>5. file = NoFile \/ file.count \in Nat \cup {NoCount}
      BY DEF IInv, FileOK, PairsOK
    <2>6. tx = NoTx \/ DOMAIN tx.witness = DOMAIN tx.vin
      BY DEF IInv, TxOK, TxShape
    <2> QED BY <2>1, <2>2, <2>3, <2>4, <2>5, <2>6 DEF TypeOK, IInv, BusyOK
  <1> QED BY WalletInvariant, <1>1, PTL

\* Every key pair of the wallet is found under its address, and under no
\* other, for any sequence of calls and crashes.
THEOREM IndexStaysExact == Spec => []IndexIsExact
  <1>1. IInv => IndexIsExact
    BY DEF IInv, IndexOK, PairsOK, IndexIsExact
  <1> QED BY WalletInvariant, <1>1, PTL

\* The seeds of key pairs are a sequence of seeds, one per pair.
LEMMA SeedsFacts ==
    ASSUME NEW V, NEW P, NEW q, NEW s, q \in Seq(P), s = SeedsOf(q), \A p \in P : p.seed \in V
    PROVE  /\ s \in Seq(V) /\ Len(s) = Len(q)
           /\ s = [i \in 1 .. Len(q) |-> q[i].seed]
  <1>1. Len(q) \in Nat /\ DOMAIN q = 1 .. Len(q) /\ \A i \in 1 .. Len(q) : q[i] \in P
    OBVIOUS
  <1>2. s = [i \in 1 .. Len(q) |-> q[i].seed]
    BY <1>1 DEF SeedsOf
  <1>3. s \in [1 .. Len(q) -> V]
    BY <1>1, <1>2
  <1>4. s \in Seq(V) /\ Len(s) = Len(q)
    BY <1>1, <1>3
  <1> QED BY <1>2, <1>4

\* The first n elements of a sequence.
LEMMA FirstFacts ==
    ASSUME NEW V, NEW s \in Seq(V), NEW n \in 0 .. Len(s)
    PROVE  SubSeq(s, 1, n) = [i \in 1 .. n |-> s[i]]
  OBVIOUS

\* A load gives back the saved seeds in order, or a prefix of them when a
\* crash cut the file short at any write.
THEOREM LoadIsPrefix == Spec => []LoadRestoresSeeds
  <1>1. IInv => LoadRestoresSeeds
    <2> SUFFICES ASSUME IInv, loaded
                 PROVE  /\ \E n \in 0 .. Len(saved) : SeedsOf(keypairs) = SubSeq(SeedsOf(saved), 1, n)
                        /\ FileIsComplete => SeedsOf(keypairs) = SeedsOf(saved)
      BY DEF LoadRestoresSeeds
    <2>1. keypairs \in Seq(Pairs(made)) /\ saved \in Seq(Pairs(made)) /\ made \in Nat
      BY DEF IInv, PairsOK
    <2>2. \A p \in Pairs(made) : p.seed \in SeedValues
      BY <2>1, PairFacts
    <2>3. PICK k, s : k = SeedsOf(keypairs) /\ s = SeedsOf(saved)
      OBVIOUS
    <2>4. PICK n, N : n = Len(keypairs) /\ N = Len(saved)
      OBVIOUS
    <2>5. PICK P, V : P = Pairs(made) /\ V = SeedValues
      OBVIOUS
    <2>6. PICK q, r : q = keypairs /\ r = saved
      OBVIOUS
    <2>7. q \in Seq(P) /\ r \in Seq(P) /\ k = SeedsOf(q) /\ s = SeedsOf(r) /\ \A p \in P : p.seed \in V
      BY <2>1, <2>2, <2>3, <2>5, <2>6
    <2>8. k = [i \in 1 .. Len(q) |-> q[i].seed]
      BY ONLY <2>7, SeedsFacts
    <2>9. s \in Seq(V) /\ Len(s) = Len(r) /\ s = [i \in 1 .. Len(r) |-> r[i].seed]
      <3>1. s = [i \in 1 .. Len(r) |-> r[i].seed]
        BY ONLY <2>7, SeedsFacts
      <3>2. s \in Seq(V)
        BY ONLY <2>7, SeedsFacts
      <3>3. Len(r) \in Nat
        BY <2>7
      <3>4. Len(s) = Len(r)
        BY ONLY <3>1, <3>2, <3>3
      <3> QED BY <3>1, <3>2, <3>4
    <2>10. k = [i \in 1 .. n |-> keypairs[i].seed]
      BY <2>4, <2>8, <2>6
    <2>11. s \in Seq(SeedValues) /\ Len(s) = N /\ s = [i \in 1 .. N |-> saved[i].seed]
      BY <2>4, <2>5, <2>9, <2>6
    <2>12. n \in Nat /\ N \in Nat
      BY <2>1, <2>4
    <2>13. /\ n <= N /\ \A i \in 1 .. n : keypairs[i].seed = saved[i].seed
           /\ FileIsComplete => n = N
      BY <2>4 DEF IInv, BusyOK
    <2>14. k = [i \in 1 .. n |-> s[i]]
      BY <2>10, <2>11, <2>12, <2>13
    <2>15. n \in 0 .. Len(s)
      BY <2>11, <2>12, <2>13
    <2>16. k = SubSeq(s, 1, n)
      BY <2>11, <2>14, <2>15, FirstFacts
    <2>17. FileIsComplete => k = s
      BY <2>10, <2>11, <2>13
    <2> QED BY <2>3, <2>4, <2>11, <2>15, <2>16, <2>17
  <1> QED BY WalletInvariant, <1>1, PTL

\* The witness of a signed transaction was made for exactly its inputs.
THEOREM SignedStaysWellFormed == Spec => []SignedIsWellFormed
  <1>1. IInv => SignedIsWellFormed
    BY DEF IInv, TxOK, TxShape, SignedIsWellFormed, Signed
  <1> QED BY WalletInvariant, <1>1, PTL

=============================================================================
