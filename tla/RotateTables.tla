---------------------------- MODULE RotateTables ----------------------------
(***************************************************************************)
(* The tables of include/angle.h, include/distance.h and include/sincos.h: *)
(* for one layer, the angle of each LED about the middle of the cube and   *)
(* its distance from it, and the sines and cosines at every twentieth of a *)
(* radian.  The floats are integers here: angles in millionths of a        *)
(* radian, the others in ten thousandths.  Indices start at 1.             *)
(***************************************************************************)
EXTENDS Integers

AngleTable == <<
  <<5497782, 5662931, 5878288, 6141283,  141897,  404892,  620249,  785398>>,
  <<5332633, 5497782, 5742760, 6085784,  197396,  540420,  785398,  950547>>,
  <<5117275, 5252803, 5497782, 5961429,  321751,  785398, 1030377, 1165905>>,
  <<4854281, 4909779, 5034134, 5497782,  785398, 1249046, 1373401, 1428899>>,
  <<4570489, 4514991, 4390636, 3926988, 2356192, 1892544, 1768189, 1712691>>,
  <<4307495, 4171967, 3926988, 3463341, 2819839, 2356192, 2111213, 1975685>>,
  <<4092137, 3926988, 3682010, 3338986, 2944194, 2601170, 2356192, 2191043>>,
  <<3926988, 3761839, 3546482, 3283487, 2999693, 2736698, 2521341, 2356192>>>>

DistanceTable == <<
  <<  49497,   43012,   38079,   35355,   35355,   38079,   43012,   49497>>,
  <<  43012,   35355,   29155,   25495,   25495,   29155,   35355,   43012>>,
  <<  38079,   29155,   21213,   15811,   15811,   21213,   29155,   38079>>,
  <<  35355,   25495,   15811,    7071,    7071,   15811,   25495,   35355>>,
  <<  35355,   25495,   15811,    7071,    7071,   15811,   25495,   35355>>,
  <<  38079,   29155,   21213,   15811,   15811,   21213,   29155,   38079>>,
  <<  43012,   35355,   29155,   25495,   25495,   29155,   35355,   43012>>,
  <<  49497,   43012,   38079,   35355,   35355,   38079,   43012,   49497>>>>

SinCosTable == <<
  <<0, 10000>>, <<500, 9988>>, <<998, 9950>>, <<1494, 9888>>, <<1987, 9801>>,
  <<2474, 9689>>, <<2955, 9553>>, <<3429, 9394>>, <<3894, 9211>>,
  <<4350, 9004>>, <<4794, 8776>>, <<5227, 8525>>, <<5646, 8253>>,
  <<6052, 7961>>, <<6442, 7648>>, <<6816, 7317>>, <<7174, 6967>>,
  <<7513, 6600>>, <<7833, 6216>>, <<8134, 5817>>, <<8415, 5403>>,
  <<8674, 4976>>, <<8912, 4536>>, <<9128, 4085>>, <<9320, 3624>>,
  <<9490, 3153>>, <<9636, 2675>>, <<9757, 2190>>, <<9854, 1700>>,
  <<9927, 1205>>, <<9975, 707>>, <<9998, 208>>, <<9996, -292>>,
  <<9969, -791>>, <<9917, -1288>>, <<9840, -1782>>, <<9738, -2272>>,
  <<9613, -2756>>, <<9463, -3233>>, <<9290, -3702>>, <<9093, -4161>>,
  <<8874, -4611>>, <<8632, -5048>>, <<8369, -5474>>, <<8085, -5885>>,
  <<7781, -6282>>, <<7457, -6663>>, <<7115, -7027>>, <<6755, -7374>>,
  <<6378, -7702>>, <<5985, -8011>>, <<5577, -8301>>, <<5155, -8569>>,
  <<4720, -8816>>, <<4274, -9041>>, <<3817, -9243>>, <<3350, -9422>>,
  <<2875, -9578>>, <<2392, -9710>>, <<1904, -9817>>, <<1411, -9900>>,
  <<915, -9958>>, <<416, -9991>>, <<-84, -10000>>, <<-584, -9983>>,
  <<-1082, -9941>>, <<-1577, -9875>>, <<-2069, -9784>>, <<-2555, -9668>>,
  <<-3035, -9528>>, <<-3508, -9365>>, <<-3971, -9178>>, <<-4425, -8968>>,
  <<-4868, -8735>>, <<-5298, -8481>>, <<-5716, -8206>>, <<-6119, -7910>>,
  <<-6506, -7594>>, <<-6878, -7259>>, <<-7232, -6907>>, <<-7568, -6536>>,
  <<-7885, -6150>>, <<-8183, -5748>>, <<-8460, -5332>>, <<-8716, -4903>>,
  <<-8950, -4461>>, <<-9162, -4008>>, <<-9351, -3545>>, <<-9516, -3073>>,
  <<-9658, -2594>>, <<-9775, -2108>>, <<-9868, -1617>>, <<-9937, -1122>>,
  <<-9981, -623>>, <<-9999, -124>>, <<-9993, 376>>, <<-9962, 875>>,
  <<-9905, 1372>>, <<-9825, 1865>>, <<-9719, 2354>>, <<-9589, 2837>>,
  <<-9435, 3312>>, <<-9258, 3780>>, <<-9058, 4238>>, <<-8835, 4685>>,
  <<-8589, 5121>>, <<-8323, 5544>>, <<-8035, 5953>>, <<-7728, 6347>>,
  <<-7401, 6725>>, <<-7055, 7087>>, <<-6692, 7430>>, <<-6313, 7756>>,
  <<-5917, 8061>>, <<-5507, 8347>>, <<-5083, 8612>>, <<-4646, 8855>>,
  <<-4198, 9076>>, <<-3739, 9275>>, <<-3271, 9450>>, <<-2794, 9602>>,
  <<-2311, 9729>>, <<-1822, 9833>>, <<-1328, 9911>>, <<-831, 9965>>,
  <<-332, 9994>>>>
=============================================================================
