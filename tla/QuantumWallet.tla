--------------------------- MODULE QuantumWallet ---------------------------
(***************************************************************************)
(* The compressed quantum keys: key pairs derived from a seed, the wallet  *)
(* that indexes, saves and loads them, and the builder, signer and         *)
(* validator of aggregated transactions.                                   *)
(*                                                                         *)
(* A seed is a sequence: a random one has length one, and the seed hashed  *)
(* from a parent's seed and a child index is the parent's with the index   *)
(* appended.  A Dilithium public key is the number of the call that made   *)
(* it.  Hashes are injective: a hash is the tuple of what was hashed.      *)
(***************************************************************************)
EXTENDS Integers, Sequences, FiniteSets

CONSTANTS Seeds,       \* random 32-byte seeds
          Indices,     \* child indices
          Outpoints,
          NoTx, NoFile, NoCount,
          MaxKeys, MaxInputs   \* bounds: Dilithium keys made, inputs of a transaction

ASSUME BoundAssumption == MaxKeys \in Nat /\ MaxInputs \in Nat
ASSUME MarkAssumption == /\ NoCount \notin Nat
                         /\ NoFile \notin [count : Nat \cup {NoCount}, keys : Seq(Seq(Seeds \cup Indices))]

VARIABLES
    keypairs, address_to_index,   \* CQuantumWalletManager
    held,     \* key pairs the caller holds and may add to the wallet
    made,     \* Dilithium keys generated so far
    file,     \* the wallet file: the count and the complete keys in it
    busy,     \* SaveToFile's next write, "count" or "keys"; LoadFromFile, "load"; or "no"
    at,       \* keys LoadFromFile has read
    saved,    \* the key pairs of the wallet the file was last written from
    loaded,   \* the wallet is as LoadFromFile left it
    tx        \* the transaction being built

wallet == <<keypairs, address_to_index>>
disk == <<file, busy, at, saved>>
vars == <<wallet, held, made, disk, loaded, tx>>

-----------------------------------------------------------------------------
(* CQuantumKeyPair.                                                        *)

EcdsaPubKey(seed) == <<"ecdsa", seed>>

\* The ECDSA key is a function of the seed; the Dilithium key comes from
\* MakeNewKey, which takes no seed.
FromSeed(seed, k) == [seed |-> seed, dilithium |-> k,
                      address_hash |-> <<EcdsaPubKey(seed), k>>]
Derive(kp, n, k) == FromSeed(Append(kp.seed, n), k)

Serialize(kp) == kp.seed

-----------------------------------------------------------------------------
(* CQuantumWitness and its stack form.                                     *)

WitnessIsValid(w) ==
    /\ w.input_count # 0
    /\ Len(w.pubkeys) = w.input_count
    /\ Len(w.address_hashes) = w.input_count

ToScriptWitness(w) ==
    IF WitnessIsValid(w) THEN <<w.agg_signature, w.pubkeys, w.address_hashes, w.input_count>>
    ELSE <<>>

FromScriptWitness(stack) ==
    [agg_signature |-> stack[1], pubkeys |-> stack[2],
     address_hashes |-> stack[3], input_count |-> stack[4]]

\* The aggregator (external) signs and verifies what it was given.
Aggregate(hash, pubkeys) == [messages |-> [i \in DOMAIN pubkeys |-> hash], pubkeys |-> pubkeys]
VerifyAggregated(sig) == DOMAIN sig.messages = DOMAIN sig.pubkeys

-----------------------------------------------------------------------------
(* CQuantumTransactionBuilder.                                             *)

\* GetHash leaves the witnesses out.
TxHash(t) == t.vin

BuildTransaction(inputs) == [vin |-> inputs, witness |-> [i \in DOMAIN inputs |-> <<>>]]

\* Mutant: the signed inputs are not compared with the transaction's.
SignTransactionSomeInputs(t, pairs) ==
    LET w == [agg_signature  |-> Aggregate(TxHash(t), [i \in DOMAIN pairs |-> pairs[i].dilithium]),
              pubkeys        |-> [i \in DOMAIN pairs |-> pairs[i].dilithium],
              address_hashes |-> [i \in DOMAIN pairs |-> pairs[i].address_hash],
              input_count    |-> Len(pairs)]
    IN  [t EXCEPT !.witness = [i \in DOMAIN t.vin |-> ToScriptWitness(w)]]

SignTransaction(t, pairs) ==
    LET w == [agg_signature  |-> Aggregate(TxHash(t), [i \in DOMAIN pairs |-> pairs[i].dilithium]),
              pubkeys        |-> [i \in DOMAIN pairs |-> pairs[i].dilithium],
              address_hashes |-> [i \in DOMAIN pairs |-> pairs[i].address_hash],
              input_count    |-> Len(pairs)]
    IN  IF Len(t.vin) # Len(pairs) THEN t
        ELSE [t EXCEPT !.witness = [i \in DOMAIN t.vin |-> ToScriptWitness(w)]]

-----------------------------------------------------------------------------
(* CQuantumTransactionValidator.                                           *)

PubKeyToAddressHash(k) == <<k>>
VerifyAddressKeyMatch(address, k) == address = PubKeyToAddressHash(k)

\* The checks of ValidateAggregatedTransaction on the witness as a whole.
WitnessFits(t) ==
    LET w == FromScriptWitness(t.witness[1])
    IN  /\ WitnessIsValid(w)
        /\ w.input_count = Len(t.vin)
        /\ \A i \in DOMAIN t.vin : t.witness[i] = t.witness[1]

\* The inputs carry an empty scriptSig, so the address is the witness's own.
ValidateQuantumWitness(w, inputs) ==
    /\ \A i \in DOMAIN inputs : VerifyAddressKeyMatch(w.address_hashes[i], w.pubkeys[i])
    /\ VerifyAggregated(w.agg_signature)

ValidateTransaction(t) ==
    /\ t.vin # <<>>
    /\ IF Len(t.witness[1]) = 4
       THEN WitnessFits(t) /\ ValidateQuantumWitness(FromScriptWitness(t.witness[1]), t.vin)
       ELSE \A i \in DOMAIN t.vin : Len(t.witness[i]) >= 2

-----------------------------------------------------------------------------
(* CQuantumWalletManager.                                                  *)

Empty == [keypairs |-> <<>>, index |-> <<>>]

\* Mutant: the check for a known address is missing.
AddedAgain(w, kp) ==
    [keypairs |-> Append(w.keypairs, kp),
     index    |-> [a \in DOMAIN w.index \cup {kp.address_hash} |->
                      IF a = kp.address_hash THEN Len(w.keypairs) + 1 ELSE w.index[a]]]

\* Mutant: the index is taken after the key pair was appended.
AddedOffByOne(w, kp) ==
    IF kp.address_hash \in DOMAIN w.index THEN w
    ELSE [keypairs |-> Append(w.keypairs, kp),
          index    |-> [a \in DOMAIN w.index \cup {kp.address_hash} |->
                           IF a = kp.address_hash THEN Len(w.keypairs) + 2 ELSE w.index[a]]]

\* AddKeyPair on a wallet as a value; a known address is refused.
Added(w, kp) ==
    IF kp.address_hash \in DOMAIN w.index THEN w
    ELSE [keypairs |-> Append(w.keypairs, kp),
          index    |-> [a \in DOMAIN w.index \cup {kp.address_hash} |->
                           IF a = kp.address_hash THEN Len(w.keypairs) + 1 ELSE w.index[a]]]

Current == [keypairs |-> keypairs, index |-> address_to_index]
SetWallet(w) == keypairs' = w.keypairs /\ address_to_index' = w.index

Init == /\ keypairs = <<>> /\ address_to_index = <<>>
        /\ held = {} /\ made = 0
        /\ file = NoFile /\ busy = "no" /\ at = 0 /\ saved = <<>> /\ loaded = FALSE
        /\ tx = NoTx

GenerateNewKeyPair(seed) ==
    /\ busy = "no" /\ made < MaxKeys
    /\ LET kp == FromSeed(<<seed>>, made + 1)
       IN  SetWallet(Added(Current, kp)) /\ held' = held \cup {kp}
    /\ made' = made + 1
    /\ loaded' = FALSE
    /\ UNCHANGED <<disk, tx>>

\* The child goes to the caller only.
DeriveChild(kp, n) ==
    /\ busy = "no" /\ made < MaxKeys
    /\ held' = held \cup {Derive(kp, n, made + 1)}
    /\ made' = made + 1
    /\ UNCHANGED <<wallet, disk, loaded, tx>>

AddKeyPair(kp) ==
    /\ busy = "no"
    /\ SetWallet(Added(Current, kp))
    /\ loaded' = FALSE
    /\ UNCHANGED <<held, made, disk, tx>>

Clear ==
    /\ busy = "no"
    /\ SetWallet(Empty)
    /\ loaded' = FALSE
    /\ UNCHANGED <<held, made, disk, tx>>

\* SaveToFile truncates the file, then writes the count, then key by key.
SaveOpen ==
    /\ busy = "no"
    /\ file' = [count |-> NoCount, keys |-> <<>>]
    /\ busy' = "count"
    /\ saved' = keypairs
    /\ UNCHANGED <<wallet, held, made, at, loaded, tx>>

SaveWrite ==
    /\ busy \in {"count", "keys"}
    /\ file' = IF busy = "count" THEN [file EXCEPT !.count = Len(keypairs)]
               ELSE [file EXCEPT !.keys = Append(@, Serialize(keypairs[Len(@) + 1]))]
    /\ busy' = IF Len(file'.keys) = Len(keypairs) THEN "no" ELSE "keys"
    /\ UNCHANGED <<wallet, held, made, at, saved, loaded, tx>>

\* Mutant: the wallet is not cleared first.
LoadFromFileOnTop ==
    /\ busy = "no" /\ file # NoFile
    /\ made + Len(file.keys) <= MaxKeys
    /\ busy' = "load" /\ at' = 0
    /\ loaded' = FALSE
    /\ UNCHANGED <<wallet, held, made, file, saved, tx>>

\* LoadFromFile clears the wallet, then adds the keys it reads one by one.
LoadFromFile ==
    /\ busy = "no" /\ file # NoFile
    /\ made + Len(file.keys) <= MaxKeys
    /\ SetWallet(Empty)
    /\ busy' = "load" /\ at' = 0
    /\ loaded' = FALSE
    /\ UNCHANGED <<held, made, file, saved, tx>>

LoadKey ==
    /\ busy = "load" /\ at < Len(file.keys)
    /\ SetWallet(Added(Current, FromSeed(file.keys[at + 1], made + 1)))
    /\ made' = made + 1
    /\ at' = at + 1
    /\ UNCHANGED <<held, file, busy, saved, loaded, tx>>

\* What is left is not accepted: a key cut short lacks its valid flag, the
\* last byte, and where the file ends before a size or before the count, their
\* uninitialised values have nothing to be read after them.
LoadEnd ==
    /\ busy = "load" /\ at = Len(file.keys)
    /\ busy' = "no"
    /\ loaded' = TRUE
    /\ UNCHANGED <<wallet, held, made, file, at, saved, tx>>

Crash ==
    /\ SetWallet(Empty)
    /\ held' = {} /\ tx' = NoTx /\ busy' = "no" /\ loaded' = FALSE
    /\ UNCHANGED <<made, file, at, saved>>

\* The inputs get the first key pair, which BuildTransaction does not record.
CreateTransaction(inputs) ==
    /\ busy = "no"
    /\ keypairs # <<>>
    /\ tx' = BuildTransaction(inputs)
    /\ UNCHANGED <<wallet, held, made, disk, loaded>>

\* CQuantumWalletManager::SignTransaction: input i is signed with key pair i.
SignWithWallet ==
    /\ busy = "no" /\ tx # NoTx
    /\ LET n == IF Len(tx.vin) <= Len(keypairs) THEN Len(tx.vin) ELSE Len(keypairs)
       IN  tx' = SignTransaction(tx, SubSeq(keypairs, 1, n))
    /\ UNCHANGED <<wallet, held, made, disk, loaded>>

\* The caller's own builder, with a key pair it holds for every input.
BuildAndSign(inputs, pairs) ==
    /\ busy = "no"
    /\ tx' = SignTransaction(BuildTransaction(inputs), pairs)
    /\ UNCHANGED <<wallet, held, made, disk, loaded>>

Inputs == UNION {[1 .. n -> Outpoints] : n \in 1 .. MaxInputs}

Next == \/ \E seed \in Seeds : GenerateNewKeyPair(seed)
        \/ \E kp \in held, n \in Indices : DeriveChild(kp, n)
        \/ \E kp \in held : AddKeyPair(kp)
        \/ Clear \/ SaveOpen \/ SaveWrite \/ LoadFromFile \/ LoadKey \/ LoadEnd \/ Crash
        \/ \E inputs \in Inputs : CreateTransaction(inputs)
        \/ SignWithWallet
        \/ \E inputs \in Inputs : \E pairs \in [DOMAIN inputs -> held] : BuildAndSign(inputs, pairs)

Spec == Init /\ [][Next]_vars

-----------------------------------------------------------------------------
(* Properties.                                                             *)

Key == 1 .. MaxKeys

\* Type invariant.
TypeOK ==
    /\ \A i \in DOMAIN keypairs : keypairs[i].dilithium \in Key
    /\ \A a \in DOMAIN address_to_index : address_to_index[a] \in DOMAIN keypairs
    /\ \A kp \in held : kp.dilithium \in 1 .. made
    /\ made \in 0 .. MaxKeys /\ busy \in {"no", "count", "keys", "load"} /\ loaded \in BOOLEAN
    /\ file = NoFile \/ file.count \in Nat \cup {NoCount}
    /\ tx = NoTx \/ DOMAIN tx.witness = DOMAIN tx.vin

\* Whatever was generated, added again, cleared or loaded, every key pair
\* of the wallet is found under its address, and under no other.
IndexIsExact ==
    /\ \A i \in DOMAIN keypairs :
          /\ keypairs[i].address_hash \in DOMAIN address_to_index
          /\ address_to_index[keypairs[i].address_hash] = i
    /\ Cardinality(DOMAIN address_to_index) = Len(keypairs)

SeedsOf(pairs) == [i \in DOMAIN pairs |-> pairs[i].seed]
FileIsComplete == file # NoFile /\ file.count = Len(file.keys)

\* Loading gives back the seeds of the saved wallet in order, or a prefix of
\* them when a crash cut the file short, never another key.
LoadRestoresSeeds ==
    loaded => /\ \E n \in 0 .. Len(saved) : SeedsOf(keypairs) = SubSeq(SeedsOf(saved), 1, n)
              /\ FileIsComplete => SeedsOf(keypairs) = SeedsOf(saved)

Signed(t) == t # NoTx /\ t.witness[1] # <<>>

\* A transaction that was signed carries one witness, made for exactly its
\* inputs, on all of them.
SignedIsWellFormed ==
    Signed(tx) => WitnessFits(tx) /\ VerifyAggregated(FromScriptWitness(tx.witness[1]).agg_signature)

\* What the validator's test expects: a transaction the builder signed is
\* accepted by ValidateTransaction.
SignedIsAccepted == Signed(tx) => ValidateTransaction(tx)

\* What the comment in FromSeed promises: the keys are the same whenever the
\* seed is, so a wallet saved and loaded finds its addresses again.
ReloadKeepsAddresses ==
    loaded /\ FileIsComplete =>
        \A i \in DOMAIN saved : saved[i].address_hash \in DOMAIN address_to_index
=============================================================================
