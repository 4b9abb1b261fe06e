------------------------------ MODULE HsmPolicy ------------------------------
(***************************************************************************)
(* What the remote signer signs (tools/hsm_server/policy.rs) and the swap  *)
(* transaction the trading process builds (amm/raydium_v4.rs).  A message  *)
(* is its fee payer and its instructions; an instruction is a record whose *)
(* fields are the accounts and amounts the policy looks at.                *)
(***************************************************************************)
EXTENDS Integers, Sequences, SequencesExt, FiniteSetsExt

CONSTANTS
  MaxTransfer,  \* HSM_MAX_TRANSFER_LAMPORTS
  MaxCuPrice,   \* HSM_MAX_CU_PRICE_MICRO_LAMPORTS
  TipAccounts   \* the Jito tip accounts and the operator's extra destinations

\* resolve_user_ata: one associated account per owner and mint.
Ata(owner, mint) == <<"ata", owner, mint>>

-----------------------------------------------------------------------------
(* build_swap_transaction *)

SetLimit         == [program |-> "compute", op |-> "limit"]
SetPrice(price)  == [program |-> "compute", op |-> "price", price |-> price]
CreateAta(owner, mint) ==
  [program |-> "ata", payer |-> owner, owner |-> owner, account |-> Ata(owner, mint), mint |-> mint]
Transfer(from, to, lamports) ==
  [program |-> "system", from |-> from, to |-> to, lamports |-> lamports]
SyncNative(account) == [program |-> "token", op |-> "sync", account |-> account]
CloseAccount(account, owner) ==
  [program |-> "token", op |-> "close", account |-> account, to |-> owner, authority |-> owner]
Swap(owner, input, output, amount, minOut) ==
  [program |-> "clmm", payer |-> owner, input |-> Ata(owner, input), output |-> Ata(owner, output),
   amount |-> amount, minOut |-> minOut]

Optional(condition, ix) == IF condition THEN <<ix>> ELSE <<>>

\* Mutant: the account that receives the proceeds is not created.
SwapTransactionBare(o, owner, amount, minOut) ==
  [payer |-> owner,
   ixs   |-> <<SetLimit>>
             \o Optional(o.cuPrice > 0, SetPrice(o.cuPrice))
             \o <<CreateAta(owner, o.input)>>
             \o Optional(o.input = "wsol", Transfer(owner, Ata(owner, o.input), amount))
             \o Optional(o.input = "wsol", SyncNative(Ata(owner, o.input)))
             \o <<Swap(owner, o.input, o.output, amount, minOut)>>
             \o Optional(o.tip > 0, Transfer(owner, o.tipAccount, o.tip))]

\* o: the SwapTxOptions.  Native input is wrapped first; what is left of it, an
\* input account the swap empties and a native output are closed to the owner.
SwapTransaction(o, owner, amount, minOut) ==
  [payer |-> owner,
   ixs   |-> <<SetLimit>>
             \o Optional(o.cuPrice > 0, SetPrice(o.cuPrice))
             \o <<CreateAta(owner, o.input), CreateAta(owner, o.output)>>
             \o Optional(o.input = "wsol", Transfer(owner, Ata(owner, o.input), amount))
             \o Optional(o.input = "wsol", SyncNative(Ata(owner, o.input)))
             \o <<Swap(owner, o.input, o.output, amount, minOut)>>
             \o Optional(o.input = "wsol" \/ o.closeInput, CloseAccount(Ata(owner, o.input), owner))
             \o Optional(o.output = "wsol", CloseAccount(Ata(owner, o.output), owner))
             \o Optional(o.tip > 0, Transfer(owner, o.tipAccount, o.tip))]

-----------------------------------------------------------------------------
(* policy::check *)

Of(message, program) == {i \in DOMAIN message.ixs : message.ixs[i].program = program}

\* Pass 1: the accounts of the signer the transaction creates.
OwnAtas(message) == {message.ixs[i].account : i \in Of(message, "ata")}

CreatesOk(message, signer) ==
  \A i \in Of(message, "ata") : LET ix == message.ixs[i] IN
    ix.payer = signer /\ ix.owner = signer /\ ix.account = Ata(signer, ix.mint)

\* Pass 2: every other instruction.
ComputeOk(ix) == ix.op = "price" => ix.price <= MaxCuPrice

TransferOk(ix, signer, own) ==
  ix.from = signer /\ (ix.to = signer \/ ix.to \in own \/ ix.to \in TipAccounts)

TokenOk(ix, signer, own) ==
  ix.account \in own /\ (ix.op = "close" => ix.to = signer /\ ix.authority = signer)

SwapOk(ix, signer, own) == ix.payer = signer /\ {ix.input, ix.output} \subseteq own

InstructionOk(ix, signer, own) ==
  \/ ix.program = "ata"
  \/ ix.program = "compute" /\ ComputeOk(ix)
  \/ ix.program = "system" /\ TransferOk(ix, signer, own)
  \/ ix.program = "token" /\ TokenOk(ix, signer, own)
  \/ ix.program = "clmm" /\ SwapOk(ix, signer, own)

MovedOut(message, signer) ==
  MapThenSumSet(LAMBDA i : message.ixs[i].lamports,
                {i \in Of(message, "system") : message.ixs[i].to # signer})

PolicyAllows(message, signer) ==
  /\ message.payer = signer
  /\ CreatesOk(message, signer)
  /\ \A i \in DOMAIN message.ixs : InstructionOk(message.ixs[i], signer, OwnAtas(message))
  /\ MovedOut(message, signer) <= MaxTransfer
=============================================================================
