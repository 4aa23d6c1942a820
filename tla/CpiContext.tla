----------------------------- MODULE CpiContext -----------------------------
(***************************************************************************)
(* programs/system, the invoke_cpi path: programs invoke the system        *)
(* program.  A program consumes only accounts it owns, so an instruction   *)
(* over the accounts of several programs is put together in the CPI        *)
(* context account: each program has its part checked and cached, and the  *)
(* last one executes all parts with one proof.                             *)
(*                                                                         *)
(* Transactions that write the same CPI context account run one after the  *)
(* other.  A transaction that fails changes nothing and is left out.  A    *)
(* cached part also records the program and the fee payer it came from;    *)
(* the code does not keep them.                                            *)
(***************************************************************************)
EXTENDS SystemProgram

CONSTANTS
    Payer,                  \* fee payers
    NoPayer,                \* Pubkey::default()
    AssociatedMerkleTree,   \* associated_merkle_tree of the account
    MaxContext              \* bound: parts cached

VARIABLES
    cpi_context_account,    \* CpiContextAccount: fee_payer and context
    caller                  \* program that invoked last, or None

vars == <<systemVars, cpi_context_account, caller>>

\* cpi_signer_checks: the program owns all its inputs, and exactly those of
\* its outputs that have data.
cpi_signer_checks(ix, program) ==
    /\ \A i \in DOMAIN ix.inputs : ix.inputs[i].leaf.owner = program
    /\ \A j \in DOMAIN ix.outputs : ix.outputs[j].data <=> ix.outputs[j].owner = program

\* AssociatedMerkleTreeMismatch and NoInputs: the tree of the first input,
\* or of the first output if there are no inputs.
AssociatedTree(ix) ==
    LET index == IF ix.inputs # <<>> THEN ix.inputs[1].merkle_tree_index
                 ELSE ix.outputs[1].merkle_tree_index
    IN  /\ ~(ix.inputs = <<>> /\ ix.outputs = <<>>)
        /\ TreeAt(ix.remaining, index) = AssociatedMerkleTree

\* clean_input_data keeps the accounts and the addresses.
Cleaned(ix, program, fee_payer) ==
    [inputs |-> ix.inputs, outputs |-> ix.outputs, new_addresses |-> ix.new_addresses,
     by |-> program, payer |-> fee_payer]

\* Mutant: anyone may add a part.
MaySetAlways(fee_payer, first_set_context) ==
    first_set_context \/ cpi_context_account.context # <<>>

\* set_cpi_context does not return CpiContextFeePayerMismatch.
MaySet(fee_payer, first_set_context) ==
    \/ first_set_context
    \/ fee_payer = cpi_context_account.fee_payer /\ cpi_context_account.context # <<>>

\* set_cpi_context: the first part replaces whatever the account holds.
set_cpi_context(part, fee_payer, first_set_context) ==
    /\ MaySet(fee_payer, first_set_context)
    /\ first_set_context \/ Len(cpi_context_account.context) < MaxContext
    /\ cpi_context_account' =
        IF first_set_context THEN [fee_payer |-> fee_payer, context |-> <<part>>]
        ELSE [cpi_context_account EXCEPT !.context = Append(@, part)]

\* InstructionDataInvokeCpi::combine
combine(ix, parts) ==
    [ix EXCEPT
        !.inputs        = @ \o FlattenSeq([i \in DOMAIN parts |-> parts[i].inputs]),
        !.outputs       = @ \o FlattenSeq([i \in DOMAIN parts |-> parts[i].outputs]),
        !.new_addresses = @ \o FlattenSeq([i \in DOMAIN parts |-> parts[i].new_addresses])]

\* Neither CpiContextEmpty nor CpiContextFeePayerMismatch
MayExecute(fee_payer) ==
    cpi_context_account.context # <<>> /\ cpi_context_account.fee_payer = fee_payer

\* invoke_cpi without set_context: the parts are executed and forgotten.
execute_cpi_context(ix, program, fee_payer) ==
    /\ MayExecute(fee_payer)
    /\ process(combine(ix, cpi_context_account.context), program)
    /\ cpi_context_account' = [fee_payer |-> NoPayer, context |-> <<>>]

-----------------------------------------------------------------------------
\* init_cpi_context_account
CpiInit ==
    /\ Init
    /\ cpi_context_account = [fee_payer |-> NoPayer, context |-> <<>>]
    /\ caller = None

\* An InstructionDataInvokeCpi over accounts that exist.
CpiInstruction ==
    UNION {[inputs : AtMost({i \in Input(remaining) : i.leaf \notin nullified}, MaxAccounts),
            outputs : AtMost(Output(remaining), MaxAccounts),
            new_addresses : AtMost(Address \ addresses, MaxNewAddresses),
            transfer : Transfer, remaining : {remaining}] : remaining \in Remaining}

\* process_invoke_cpi without a CPI context
InvokeCpi(ix, program) ==
    /\ cpi_signer_checks(ix, program)
    /\ process(ix, program)
    /\ caller' = program
    /\ UNCHANGED cpi_context_account

\* process_invoke_cpi with set_context
SetContext(ix, program, fee_payer, first_set_context) ==
    /\ cpi_signer_checks(ix, program)
    /\ AssociatedTree(ix)
    /\ set_cpi_context(Cleaned(ix, program, fee_payer), fee_payer, first_set_context)
    /\ caller' = program
    /\ UNCHANGED systemVars

\* process_invoke_cpi that executes the CPI context
ExecuteContext(ix, program, fee_payer) ==
    /\ cpi_signer_checks(ix, program)
    /\ AssociatedTree(ix)
    /\ execute_cpi_context(ix, program, fee_payer)
    /\ caller' = program

\* invoke_cpi
CpiNextWith(instructions) ==
    \E ix \in instructions, program \in Program :
        \/ InvokeCpi(ix, program)
        \/ \E fee_payer \in Payer :
            \/ \E first_set_context \in BOOLEAN :
                SetContext(ix, program, fee_payer, first_set_context)
            \/ ExecuteContext(ix, program, fee_payer)

CpiNext == CpiNextWith(CpiInstruction)

CpiSpec == CpiInit /\ [][CpiNext]_vars

-----------------------------------------------------------------------------
\* The accounts that a step consumes or creates with data belong to the
\* program that executes it, or to one that contributed them in an
\* instruction of the same fee payer.
Consented ==
    LET parts == {p \in Range(cpi_context_account.context) :
                    p.payer = cpi_context_account.fee_payer}
    IN  /\ \A l \in nullified' \ nullified :
            \/ l.owner = caller'
            \/ \E p \in parts : p.by = l.owner /\ \E i \in DOMAIN p.inputs : p.inputs[i].leaf = l
        /\ \A l \in Leaves' \ Leaves :
            l.data => \/ l.owner = caller'
                      \/ \E p \in parts :
                            /\ p.by = l.owner
                            /\ \E i \in DOMAIN p.outputs :
                                l = Hash(p.outputs[i], l.tree, l.leaf_index)
=============================================================================
