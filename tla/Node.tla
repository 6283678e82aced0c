-------------------------------- MODULE Node --------------------------------
(***************************************************************************)
(* The Bitcoin Core node, seen through scanner.BlockSource (rpc.Client):   *)
(* a tree of blocks, and the tip of the active chain.  A block hash names  *)
(* its block.  A block that left the active chain can still be fetched by  *)
(* its hash, as getblock does.                                             *)
(***************************************************************************)
EXTENDS Protocol

CONSTANTS
  Height,     \* Height[b]: the height of block b
  Path,       \* Path[b][h]: the block at height h of the chain that ends in b
  Outs,       \* Outs[b]: the outputs of b, by transaction and then by output index
  MayShrink   \* may the active chain become shorter than it was?

VARIABLE tip  \* the last block of the active chain

\* An output of a block: where it is in the block, and the id of its outpoint.
Output == [id : Items, tx : Nat, vout : Nat]

ASSUME TreeAssumption ==
  /\ NoHash \notin Blocks
  /\ Height \in [Blocks -> Nat]
  /\ \A b \in Blocks :
       /\ Path[b] \in [0 .. Height[b] -> Blocks]
       /\ Path[b][Height[b]] = b
       /\ \A h \in 0 .. Height[b] :
            /\ Height[Path[b][h]] = h
            /\ \A k \in 0 .. h : Path[Path[b][h]][k] = Path[b][k]

\* getblock lists transactions in block order and outputs by n, so the outputs of a
\* block are in ascending (tx, vout) order.
ASSUME OutsAssumption ==
  /\ Outs \in [Blocks -> Seq(Output)]
  /\ \A b \in Blocks : \A i, j \in DOMAIN Outs[b] :
       i < j => \/ Outs[b][i].tx < Outs[b][j].tx
                \/ /\ Outs[b][i].tx = Outs[b][j].tx
                   /\ Outs[b][i].vout < Outs[b][j].vout

\* A chain confirms a transaction once.
ASSUME UniqueAssumption ==
  \A b \in Blocks : \A g, h \in 0 .. Height[b] :
    \A i \in DOMAIN Outs[Path[b][g]], j \in DOMAIN Outs[Path[b][h]] :
      Outs[Path[b][g]][i].id = Outs[Path[b][h]][j].id => g = h /\ i = j

ASSUME ShrinkAssumption == MayShrink \in BOOLEAN
-----------------------------------------------------------------------------
\* getblockcount
GetBlockCount == Height[tip]

\* getblockhash fails when the height is beyond the tip ...
HasHeight(h) == h <= Height[tip]

\* ... and answers with the block of the active chain otherwise.
GetBlockHash(h) == Path[tip][h]

\* getblock: previousblockhash, absent for the first block.
PreviousBlockHash(b) == IF Height[b] = 0 THEN NoHash ELSE Path[b][Height[b] - 1]

\* The node switches to the chain that ends in b: a new block, or a reorganisation.
Activate(b) ==
  /\ b # tip
  /\ MayShrink \/ Height[b] >= Height[tip]
  /\ tip' = b
=============================================================================
