\* Every hour of eight days as the time of the discovery or of the request.
CONSTANTS
    Zones <- EasternZones
    SmsDelay = 3
    EmailHour = 10
    FirstHour = 29
    LastRequest = 221
    MaxLate = 2
SPECIFICATION Spec
CHECK_DEADLOCK FALSE
INVARIANTS SentInWindow TextsAreOnTime CampaignKeepsItsCalendar
