--------------------------- MODULE ValidationData ---------------------------
(***************************************************************************)
(* The word that validateUserOp and validatePaymasterUserOp return: an     *)
(* aggregator and a time range packed into one integer                     *)
(* (contracts/core/Helpers.sol).  EntryPoint reads it in two ways: on the  *)
(* chain it checks the account's word and the paymaster's one after the    *)
(* other; a simulation reports the two of them as one range, from which a  *)
(* bundler decides whether the operation can be sent.  The state is the    *)
(* two words of an operation, and the time that passes meanwhile.          *)
(***************************************************************************)
EXTENDS Integers

CONSTANTS
    AddressSize,  \* 2^160, the number of addresses
    TimeSize      \* 2^48, the number of timestamps

ASSUME WidthConstants ==
    /\ AddressSize \in Nat /\ AddressSize > 1
    /\ TimeSize \in Nat /\ TimeSize > 1

VARIABLES
    validationData,           \* what the account returned
    paymasterValidationData,  \* what the paymaster returned, or 0
    timestamp                 \* block.timestamp

wordVars == <<validationData, paymasterValidationData, timestamp>>

Word == 0 .. AddressSize * TimeSize * TimeSize - 1
Aggregator == 0 .. AddressSize - 1
Time == 0 .. TimeSize - 1

MaxUint48 == TimeSize - 1  \* type(uint48).max
NoAggregator == 0          \* address(0)
SigFailed == 1             \* address(1)

Parsed == [aggregator: Aggregator, validAfter: Time, validUntil: Time]

-----------------------------------------------------------------------------
\* Mutant: validUntil is not cut off at its 48 bits.
ParseValidationDataUncut(word) ==
    LET validUntil == word \div AddressSize
    IN  [aggregator |-> word % AddressSize,
         validAfter |-> (word \div (AddressSize * TimeSize)) % TimeSize,
         validUntil |-> IF validUntil = 0 THEN MaxUint48 ELSE validUntil]

\* A validUntil of zero stands for the end of time.
ParseValidationData(word) ==
    LET validUntil == (word \div AddressSize) % TimeSize
    IN  [aggregator |-> word % AddressSize,
         validAfter |-> (word \div (AddressSize * TimeSize)) % TimeSize,
         validUntil |-> IF validUntil = 0 THEN MaxUint48 ELSE validUntil]

\* Mutant: validAfter is shifted by 48 bits too few.
PackValidationDataShort(data) ==
    data.aggregator + data.validUntil * AddressSize + data.validAfter * AddressSize

PackValidationData(data) ==
    data.aggregator + data.validUntil * AddressSize + data.validAfter * AddressSize * TimeSize

PackSigFailed(sigFailed, validUntil, validAfter) ==
    PackValidationData([aggregator |-> IF sigFailed THEN SigFailed ELSE NoAggregator,
                        validAfter |-> validAfter, validUntil |-> validUntil])

Larger(a, b) == IF a < b THEN b ELSE a
Smaller(a, b) == IF a > b THEN b ELSE a

\* Mutant: the paymaster's aggregator is forgotten.
IntersectTimeRangeOfAccount(word, pmWord) ==
    LET data == ParseValidationData(word)
        pmData == ParseValidationData(pmWord)
    IN  [aggregator |-> data.aggregator,
         validAfter |-> Larger(data.validAfter, pmData.validAfter),
         validUntil |-> Smaller(data.validUntil, pmData.validUntil)]

\* Mutant: the later end of the two is reported.
IntersectTimeRangeLate(word, pmWord) ==
    LET data == ParseValidationData(word)
        pmData == ParseValidationData(pmWord)
    IN  [aggregator |-> IF data.aggregator = NoAggregator
                        THEN pmData.aggregator ELSE data.aggregator,
         validAfter |-> Larger(data.validAfter, pmData.validAfter),
         validUntil |-> Larger(data.validUntil, pmData.validUntil)]

IntersectTimeRange(word, pmWord) ==
    LET data == ParseValidationData(word)
        pmData == ParseValidationData(pmWord)
    IN  [aggregator |-> IF data.aggregator = NoAggregator
                        THEN pmData.aggregator ELSE data.aggregator,
         validAfter |-> Larger(data.validAfter, pmData.validAfter),
         validUntil |-> Smaller(data.validUntil, pmData.validUntil)]

-----------------------------------------------------------------------------
(***************************************************************************)
(* How EntryPoint reads the words.                                         *)
(***************************************************************************)

\* _getValidationData.  Zero is read without being parsed.
OutOfTimeRange(word, time) ==
    LET data == ParseValidationData(word)
    IN  word # 0 /\ (time > data.validUntil \/ time < data.validAfter)

AggregatorOf(word) ==
    IF word = 0 THEN NoAggregator ELSE ParseValidationData(word).aggregator

\* _validateAccountAndPaymasterValidationData does not revert.
Accepted(word, pmWord, expectedAggregator, time) ==
    /\ AggregatorOf(word) = expectedAggregator
    /\ ~OutOfTimeRange(word, time)
    /\ AggregatorOf(pmWord) = NoAggregator
    /\ ~OutOfTimeRange(pmWord, time)

\* What simulateValidation reports, and what a bundler makes of it: it sends
\* the operation to the reported aggregator within the reported range.
Simulated(word, pmWord) ==
    LET data == IntersectTimeRange(word, pmWord)
    IN  [sigFailed |-> data.aggregator = SigFailed, aggregator |-> data.aggregator,
         validAfter |-> data.validAfter, validUntil |-> data.validUntil]

WordsInit ==
    /\ validationData \in Word
    /\ paymasterValidationData \in Word
    /\ timestamp = 0

WordsTick ==
    /\ timestamp < MaxUint48
    /\ timestamp' = timestamp + 1
    /\ UNCHANGED <<validationData, paymasterValidationData>>

WordsSpec == WordsInit /\ [][WordsTick]_wordVars

-----------------------------------------------------------------------------
\* The words stay words, and what is parsed from them or reported of them
\* fits the fields of the struct.
WordsOK ==
    /\ validationData \in Word
    /\ paymasterValidationData \in Word
    /\ timestamp \in Time
    /\ ParseValidationData(validationData) \in Parsed
    /\ IntersectTimeRange(validationData, paymasterValidationData) \in Parsed

\* Packing what was parsed gives a word of the same meaning: nothing of one
\* field ends up in another, and zero still means the end of time.
RoundTrip ==
    LET data == ParseValidationData(validationData)
    IN  /\ ParseValidationData(PackValidationData(data)) = data
        /\ ParseValidationData(PackValidationData([data EXCEPT !.validUntil = 0])) =
              [data EXCEPT !.validUntil = MaxUint48]
        /\ \A sigFailed \in BOOLEAN :
              ParseValidationData(PackSigFailed(sigFailed, data.validUntil, data.validAfter)) =
                  [data EXCEPT !.aggregator = IF sigFailed THEN SigFailed ELSE NoAggregator]

\* The simulated range is neither too wide nor too narrow: unless the
\* paymaster returned an aggregator or a failure, the chain accepts the
\* operation for the reported aggregator exactly while the time is in the
\* reported range, though it checks the two words one after the other and
\* skips a word of zero.
SimulationExact ==
    LET reported == Simulated(validationData, paymasterValidationData)
    IN  AggregatorOf(paymasterValidationData) = NoAggregator =>
            (Accepted(validationData, paymasterValidationData, reported.aggregator, timestamp)
                <=> reported.validAfter <= timestamp /\ timestamp <= reported.validUntil)

\* A failed signature never passes for a good one: if account or paymaster
\* failed its signature, handleOps never accepts the operation, and
\* unless the account named an aggregator, simulateValidation reports the failure.
FailureReported ==
    LET failed == SigFailed \in {AggregatorOf(validationData),
                                 AggregatorOf(paymasterValidationData)}
    IN  failed =>
            /\ ~Accepted(validationData, paymasterValidationData, NoAggregator, timestamp)
            /\ AggregatorOf(validationData) \in {NoAggregator, SigFailed} =>
                  Simulated(validationData, paymasterValidationData).sigFailed

=============================================================================
