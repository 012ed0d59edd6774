-------------------------- MODULE MCServiceClient --------------------------
(* Arguments for TLC: few, but they reach every arm of the conversions.     *)
EXTENDS ServiceClient

Metrics(enabled, retention, days) ==
    [MetricEnabled |-> enabled, IncludeAPIs |-> enabled, RetentionPolicyEnabled |-> retention,
     RetentionDays |-> days]
Properties(hour) == [HourMetrics |-> hour, MinuteMetrics |-> Metrics(FALSE, TRUE, 0)]

\* Little is specified.
Plain ==
    [metadata |-> << >>, quota |-> 0, length |-> 4, maxresults |-> 0, deleteSnapshots |-> "none",
     headers |-> [ContentType |-> << >>, ContentMD5 |-> Sent(<< >>)],
     policies |-> << >>, properties |-> Properties(Metrics(TRUE, TRUE, 1)),
     downloadRange |-> [offset |-> 0, count |-> 0, rangeGetContentMD5 |-> FALSE],
     range |-> [offset |-> 0, count |-> 0], writtenRange |-> [offset |-> 0, count |-> 1]]

\* Everything is: two spellings of one metadata name, a time between two ticks.
Full ==
    [metadata |-> (<< "a", "UPPER" >> :> 1) @@ (<< "a", "lower" >> :> 2),
     quota |-> 7, length |-> 4, maxresults |-> 1, deleteSnapshots |-> "include",
     headers |-> [ContentType |-> << "t" >>, ContentMD5 |-> Sent(<< "h" >>)],
     policies |-> << [Start |-> Sent(<< 3, 250 >>), Permission |-> {"l", "r"}],
                     [Start |-> Absent, Permission |-> {}] >>,
     properties |-> Properties(Metrics(TRUE, TRUE, 365)),
     downloadRange |-> [offset |-> 1, count |-> 2, rangeGetContentMD5 |-> TRUE],
     range |-> [offset |-> 1, count |-> 2], writtenRange |-> [offset |-> 1, count |-> 2]]

\* What can be refused is.
Refused ==
    [Plain EXCEPT !.quota = -1, !.maxresults = -1, !.writtenRange.count = 0,
                  !.downloadRange.rangeGetContentMD5 = TRUE,
                  !.properties = Properties(Metrics(TRUE, TRUE, 366))]

MCAsked ==
    {Plain, Full, Refused}
      \cup {[Plain EXCEPT !.properties = Properties(hour)] :
               hour \in {Metrics(TRUE, TRUE, 0), Metrics(TRUE, FALSE, 0), Metrics(FALSE, TRUE, 0)}}

\* The smaller state spaces have room for both.
MCCredentials ==
    [k \in DOMAIN Methods |->
        IF k \in {"directory", "service"} THEN {"sharedKey", "anonymous"} ELSE {"sharedKey"}]
=============================================================================
