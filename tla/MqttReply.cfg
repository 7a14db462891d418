SPECIFICATION ReplySpec
INVARIANT
    DefectsHaveCauses
CHECK_DEADLOCK FALSE
