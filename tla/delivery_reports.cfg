\* Two messages, a page of two in an inbox of up to three.
CONSTANTS
    JobCount = 2
    ChannelChoices <- Mailings
    PageSize = 2
    MaxOther = 1
SPECIFICATION FairSpec
INVARIANTS OutcomeFollowsCallbacks FailureIsAlerted BouncesAreBacked
PROPERTIES BounceIsRecorded
