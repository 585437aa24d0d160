---------------------------------- MODULE MCI2C ----------------------------------
(* TLC instance of the I2C driver: reads of none to four bytes; writes that *)
(* start at, in and across a page of three bytes; writes of none, and       *)
(* writes of eight pages and more, as many as number_of_page cannot count.  *)
EXTENDS I2C

MCReads  == 0 .. 4
MCWrites == {<<0, 3>>, <<1, 1>>, <<1, 2>>, <<2, 6>>, <<2, 1>>, <<0, 7>>,
             <<0, 0>>, <<1, 0>>, <<0, 24>>, <<0, 25>>, <<2, 25>>, <<1, 27>>}

\* alarm_enable of bq76952.c: two bytes at 0x66, the last two of a page.
MCAlarm  == {<<1, 2>>}
=============================================================================
