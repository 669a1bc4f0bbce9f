---------------------------- MODULE MCCommitment ----------------------------
(***************************************************************************)
(* Small instances of Commitment for TLC.  MCScopes explores, in one run,  *)
(* behaviours with rewards on every kind of delegation of two accounts,    *)
(* and behaviours in which an account vests, claims and cancels.           *)
(***************************************************************************)
EXTENDS Commitment

TwoBlocks == [numBlocks |-> 2, maxVestings |-> 2]
ThreeBlocks == [numBlocks |-> 3, maxVestings |-> 1]
ThreeBlocksTwice == [numBlocks |-> 3, maxVestings |-> 2]

Rewarding ==
    [programEden |-> 1, users |-> {1, 2}, amounts |-> {1},
     vestingInfos |-> {ThreeBlocksTwice},
     maxRewards |-> 2, maxStaked |-> 2, maxVests |-> 0, maxHeight |-> 3]

Vesting ==
    [programEden |-> 4, users |-> {1}, amounts |-> {1, 2},
     vestingInfos |-> {TwoBlocks, ThreeBlocks},
     maxRewards |-> 0, maxStaked |-> 0, maxVests |-> 2, maxHeight |-> 5]

MCScopes == {Rewarding, Vesting}

\* One account commits Eden twice, with a reward between the two.
OneReward ==
    {[programEden |-> 2, users |-> {1}, amounts |-> {1},
      vestingInfos |-> {ThreeBlocksTwice},
      maxRewards |-> 2, maxStaked |-> 0, maxVests |-> 0, maxHeight |-> 2]}
=============================================================================
