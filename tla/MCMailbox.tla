----------------------------- MODULE MCMailbox -----------------------------
\* Instances of Mailbox: three mails, of which one is filed in the folder, or
\* one that has a copy in another mailbox while the next arrives, or three of
\* which one has two relations in the inbox, another between them.
EXTENDS Search, TLC

e(m, s, f, r) == [mail |-> m, status |-> s, folder |-> f, read |-> r]

MCStart == {<<e(1, "inbox", 0, FALSE), e(2, "inbox", 1, FALSE), e(3, "inbox", 0, FALSE)>>,
            <<e(2, "inbox", 0, FALSE), e(2, "deleted", 0, FALSE)>>,
            <<e(1, "inbox", 0, FALSE), e(2, "inbox", 0, FALSE), e(3, "inbox", 0, FALSE),
              e(2, "inbox", 0, FALSE)>>}

\* One rule, which files a mail in the folder
MCRule == <<"file">>

\* The second mail came with the status of a deleted one
MCStatus == <<"inbox", "deleted", "inbox">>

\* The first two came on one day of UTC and on two of the server's; the third has the
\* word in its body, the second in its Reply-To
NoHeader == [f \in Field |-> {}]
MCContent == <<
    [stored |-> 4, sent |-> 3, size |-> 1, body |-> {},
     header |-> [NoHeader EXCEPT !["subject"] = {"w"}]],
    [stored |-> 5, sent |-> 4, size |-> 2, body |-> {},
     header |-> [NoHeader EXCEPT !["reply-to"] = {"v"}]],
    [stored |-> 10, sent |-> 7, size |-> 3, body |-> {"w"}, header |-> NoHeader]>>

\* Each key, each combination, and combinations below each other
r(n, m) == [from |-> n, to |-> m]
seen   == [Key EXCEPT !.flags = {"seen"}]
unseen == [Key EXCEPT !.notFlags = {"seen"}]
text   == [Key EXCEPT !.text = {"w"}]
first  == [Key EXCEPT !.seqs = {{r(1, 1), r(3, 0)}}, !.uids = {{r(1, 2)}}]
final  == [Key EXCEPT !.uids = {{r(0, 0)}}]
days   == [Key EXCEPT !.since = 6, !.before = 9, !.larger = 1]
sent   == [Key EXCEPT !.sentSince = 3, !.sentBefore = 6, !.smaller = 2]
named  == [Key EXCEPT !.header = {<<"subject", "w">>}]
body   == [Key EXCEPT !.body = {"w"}]

MCCriteria == {
    <<Key>>, <<first>>, <<final>>, <<days>>, <<sent>>, <<named>>,
    <<[seen EXCEPT !.text = {"w"}]>>,
    <<[text EXCEPT !.not = <<2, 3>>], seen, first>>,
    <<[Key EXCEPT !.or = <<<<2, 3>>>>], seen, body>>,
    <<[unseen EXCEPT !.or = <<<<2, 4>>>>], [Key EXCEPT !.not = <<3>>], body, first>>,
    <<[Key EXCEPT !.text = {"v"}]>>,
    <<[first EXCEPT !.uids = @ \union {{r(2, 0)}}]>>,
    <<[Key EXCEPT !.notFlags = {"deleted"}]>>}
=============================================================================
