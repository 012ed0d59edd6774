----------------------------- MODULE MCFileURLs -----------------------------
(* The URLs a program is given, and what it signs, for TLC.                 *)
EXTENDS FileURLs, TLC

Key(name, case) == << name, case >>

\* A SAS as others write it: times in another format, permissions in another order.
Foreign(start, expiry, ip) ==
    [sv |-> << "2015-04-05" >>, ss |-> << "f" >>, srt |-> << "o" >>, sp |-> << "w", "r" >>,
     st |-> start, se |-> expiry, sip |-> ip,
     sig |-> << << Account >>, << "w", "r" >>, << "f" >>, << "o" >>, start, expiry, ip, << >>,
                << "2015-04-05" >>, << >> >>]

ForeignSAS(start, expiry, ip, case) ==
    LET sas == Foreign(start, expiry, ip)
        query == [k \in {Key(name, case) : name \in {n \in DOMAIN sas : sas[n] # << >>}} |-> << sas[k[1]] >>]
    IN [query |-> query,
        asked |-> << [permissions |-> {"r", "w"}, start |-> start, expiry |-> expiry,
                      ip |-> IPRangeOf(ip), asWritten |-> AsWritten(query)] >>]

TwoAddresses == << "10.132.141.33", "-", "10.132.141.34" >>

GivenSAS ==
    {[query |-> << >>, asked |-> << >>],
     ForeignSAS(<< 1 >>, << 9, 30, 15, 936 >>, TwoAddresses, "lower"),
     ForeignSAS(<< 1 >>, << 9 >>, << "FE80:0::1", "-", "fe80::1" >>, "lower")}
      \cup {ForeignSAS(times[1], times[2], TwoAddresses, case) :
              times \in {<< << 1 >>, << 9 >> >>, << << >>, << 9, 30 >> >>, << << 1, 10 >>, << 9, 30, 15 >> >>},
              case \in {"lower", "UPPER"}}

GivenNames ==
    [service |-> << >>, share |-> << "s" >>, directory |-> << "s", "d" >>, file |-> << "s", "d", "f" >>]

MCGiven ==
    {[kind |-> k,
      url |-> [Host |-> host,
               Path |-> LET names == RootNames(host) \o GivenNames[k] IN
                        PathOf(names, 2 * Len(names) + (IF slash THEN 1 ELSE 0)),
               Query |-> Join(Join(other, snapshot), sas.query)],
      asked |-> [names |-> GivenNames[k], sas |-> sas.asked, others |-> other,
                 snapshot |-> IF snapshot = << >> THEN << >> ELSE << "t0" >>]] :
        k \in DOMAIN GivenNames,
        host \in {<< "account.file.core.windows.net" >>, << "fe80::1", "80" >>},
        slash \in BOOLEAN,
        sas \in GivenSAS,
        snapshot \in {<< >>, Key(shareSnapshot, "lower") :> << << "t0" >> >>,
                      Key(shareSnapshot, "Mixed") :> << << "t0" >> >>},
        other \in {<< >>, Key("timeout", "lower") :> << << "1" >>, << "2" >> >>}}

Values ==
    [Version |-> << >>, Protocol |-> << >>, StartTime |-> << >>, ExpiryTime |-> << 9, 30, 15, 500 >>,
     Permissions |-> << "w", "r", "w" >>, IPRange |-> [Start |-> << >>, End |-> << >>], Identifier |-> << >>,
     CacheControl |-> << >>, ContentDisposition |-> << >>, ContentEncoding |-> << >>,
     ContentLanguage |-> << >>, ContentType |-> << >>,
     Services |-> InOrder(AccountSASServices, << "f", "b" >>),
     ResourceTypes |-> InOrder(AccountSASResourceTypes, << "o", "s" >>)]

MCSnapshots == {<< >>, << "t1" >>}

MCSignable ==
    {Values,
     [Values EXCEPT !.Version = << "2017-07-29" >>, !.Protocol = << "https" >>, !.StartTime = << 1, 0, 0, 0 >>,
                    !.IPRange = [Start |-> << "10.132.141.33" >>, End |-> << >>],
                    !.Identifier = << "id" >>, !.CacheControl = << "no-cache" >>,
                    !.ContentDisposition = << "inline" >>, !.ContentEncoding = << "gzip" >>,
                    !.ContentLanguage = << "en" >>, !.ContentType = << "text" >>],
     [Values EXCEPT !.ExpiryTime = << >>, !.Identifier = << "id" >>],
     [Values EXCEPT !.Permissions = << "l" >>],
     [Values EXCEPT !.Permissions = << "r", "x" >>]}
=============================================================================
