------------------------------ MODULE LdpcTables ------------------------------
(***************************************************************************)
(* The tables of the (174,91) code as the source has them: the checks of    *)
(* each bit and the bits of each check (src/ft8/ldpc_matrix.go), and the    *)
(* rows of the generator (src/ft8/osd.go), whose 23 hexadecimal digits      *)
(* stand here in four groups of 6, 6, 6 and 5.  Bits and checks are         *)
(* numbered from 0, as in the source.                                       *)
(***************************************************************************)
EXTENDS Integers, Sequences

\* The three checks of each bit.
ldpcMn == <<
    <<15,44,72>>, <<24,50,61>>, <<32,57,77>>, <<0,43,44>>, <<1,6,60>>, <<2,5,53>>,
    <<3,34,47>>, <<4,12,20>>, <<7,55,78>>, <<8,63,68>>, <<9,18,65>>, <<10,35,59>>,
    <<11,36,57>>, <<13,31,42>>, <<14,62,79>>, <<16,27,76>>, <<17,73,82>>, <<21,52,80>>,
    <<22,29,33>>, <<23,30,39>>, <<25,40,75>>, <<26,56,69>>, <<28,48,64>>, <<2,37,77>>,
    <<4,38,81>>, <<45,49,72>>, <<50,51,73>>, <<54,70,71>>, <<43,66,71>>, <<42,67,77>>,
    <<0,31,58>>, <<1,5,70>>, <<3,15,53>>, <<6,64,66>>, <<7,29,41>>, <<8,21,30>>,
    <<9,17,75>>, <<10,22,81>>, <<11,27,60>>, <<12,51,78>>, <<13,49,50>>, <<14,80,82>>,
    <<16,28,59>>, <<18,32,63>>, <<19,25,72>>, <<20,33,39>>, <<23,26,76>>, <<24,54,57>>,
    <<34,52,65>>, <<35,47,67>>, <<36,45,74>>, <<37,44,46>>, <<38,56,68>>, <<40,55,61>>,
    <<19,48,52>>, <<45,51,62>>, <<44,69,74>>, <<26,34,79>>, <<0,14,29>>, <<1,67,79>>,
    <<2,35,50>>, <<3,27,50>>, <<4,30,55>>, <<5,19,36>>, <<6,39,81>>, <<7,59,68>>,
    <<8,9,48>>, <<10,43,56>>, <<11,38,58>>, <<12,23,54>>, <<13,20,64>>, <<15,70,77>>,
    <<16,29,75>>, <<17,24,79>>, <<18,60,82>>, <<21,37,76>>, <<22,40,49>>, <<6,25,57>>,
    <<28,31,80>>, <<32,39,72>>, <<17,33,47>>, <<12,41,63>>, <<4,25,42>>, <<46,68,71>>,
    <<53,54,69>>, <<44,61,67>>, <<9,62,66>>, <<13,65,71>>, <<21,59,73>>, <<34,38,78>>,
    <<0,45,63>>, <<0,23,65>>, <<1,4,69>>, <<2,30,64>>, <<3,48,57>>, <<0,3,4>>,
    <<5,59,66>>, <<6,31,74>>, <<7,47,81>>, <<8,34,40>>, <<9,38,61>>, <<10,13,60>>,
    <<11,70,73>>, <<12,22,77>>, <<10,34,54>>, <<14,15,78>>, <<6,8,15>>, <<16,53,62>>,
    <<17,49,56>>, <<18,29,46>>, <<19,63,79>>, <<20,27,68>>, <<21,24,42>>, <<12,21,36>>,
    <<1,46,50>>, <<22,53,73>>, <<25,33,71>>, <<26,35,36>>, <<20,35,62>>, <<28,39,43>>,
    <<18,25,56>>, <<2,45,81>>, <<13,14,57>>, <<32,51,52>>, <<29,42,51>>, <<5,8,51>>,
    <<26,32,64>>, <<24,68,72>>, <<37,54,82>>, <<19,38,76>>, <<17,28,55>>, <<31,47,70>>,
    <<41,50,58>>, <<27,43,78>>, <<33,59,61>>, <<30,44,60>>, <<45,67,76>>, <<5,23,75>>,
    <<7,9,77>>, <<39,40,69>>, <<16,49,52>>, <<41,65,67>>, <<3,21,71>>, <<35,63,80>>,
    <<12,28,46>>, <<1,7,80>>, <<55,66,72>>, <<4,37,49>>, <<11,37,63>>, <<58,71,79>>,
    <<2,25,78>>, <<44,75,80>>, <<0,64,73>>, <<6,17,76>>, <<10,55,58>>, <<13,38,53>>,
    <<15,36,65>>, <<9,27,54>>, <<14,59,69>>, <<16,24,81>>, <<19,29,30>>, <<11,66,67>>,
    <<22,74,79>>, <<26,31,61>>, <<23,68,74>>, <<18,20,70>>, <<33,52,60>>, <<34,45,46>>,
    <<32,58,75>>, <<39,42,82>>, <<40,41,62>>, <<48,74,82>>, <<19,43,47>>, <<41,48,56>>>>

\* The bits of each check; a check of six has -1 in the last place.
ldpcNm == <<
    <<3,30,58,90,91,95,152>>, <<4,31,59,92,114,145,-1>>, <<5,23,60,93,121,150,-1>>,
    <<6,32,61,94,95,142,-1>>, <<7,24,62,82,92,95,147>>, <<5,31,63,96,125,137,-1>>,
    <<4,33,64,77,97,106,153>>, <<8,34,65,98,138,145,-1>>, <<9,35,66,99,106,125,-1>>,
    <<10,36,66,86,100,138,157>>, <<11,37,67,101,104,154,-1>>, <<12,38,68,102,148,161,-1>>,
    <<7,39,69,81,103,113,144>>, <<13,40,70,87,101,122,155>>, <<14,41,58,105,122,158,-1>>,
    <<0,32,71,105,106,156,-1>>, <<15,42,72,107,140,159,-1>>, <<16,36,73,80,108,130,153>>,
    <<10,43,74,109,120,165,-1>>, <<44,54,63,110,129,160,172>>, <<7,45,70,111,118,165,-1>>,
    <<17,35,75,88,112,113,142>>, <<18,37,76,103,115,162,-1>>, <<19,46,69,91,137,164,-1>>,
    <<1,47,73,112,127,159,-1>>, <<20,44,77,82,116,120,150>>, <<21,46,57,117,126,163,-1>>,
    <<15,38,61,111,133,157,-1>>, <<22,42,78,119,130,144,-1>>, <<18,34,58,72,109,124,160>>,
    <<19,35,62,93,135,160,-1>>, <<13,30,78,97,131,163,-1>>, <<2,43,79,123,126,168,-1>>,
    <<18,45,80,116,134,166,-1>>, <<6,48,57,89,99,104,167>>, <<11,49,60,117,118,143,-1>>,
    <<12,50,63,113,117,156,-1>>, <<23,51,75,128,147,148,-1>>, <<24,52,68,89,100,129,155>>,
    <<19,45,64,79,119,139,169>>, <<20,53,76,99,139,170,-1>>, <<34,81,132,141,170,173,-1>>,
    <<13,29,82,112,124,169,-1>>, <<3,28,67,119,133,172,-1>>, <<0,3,51,56,85,135,151>>,
    <<25,50,55,90,121,136,167>>, <<51,83,109,114,144,167,-1>>, <<6,49,80,98,131,172,-1>>,
    <<22,54,66,94,171,173,-1>>, <<25,40,76,108,140,147,-1>>, <<1,26,40,60,61,114,132>>,
    <<26,39,55,123,124,125,-1>>, <<17,48,54,123,140,166,-1>>, <<5,32,84,107,115,155,-1>>,
    <<27,47,69,84,104,128,157>>, <<8,53,62,130,146,154,-1>>, <<21,52,67,108,120,173,-1>>,
    <<2,12,47,77,94,122,-1>>, <<30,68,132,149,154,168,-1>>, <<11,42,65,88,96,134,158>>,
    <<4,38,74,101,135,166,-1>>, <<1,53,85,100,134,163,-1>>, <<14,55,86,107,118,170,-1>>,
    <<9,43,81,90,110,143,148>>, <<22,33,70,93,126,152,-1>>, <<10,48,87,91,141,156,-1>>,
    <<28,33,86,96,146,161,-1>>, <<29,49,59,85,136,141,161>>, <<9,52,65,83,111,127,164>>,
    <<21,56,84,92,139,158,-1>>, <<27,31,71,102,131,165,-1>>, <<27,28,83,87,116,142,149>>,
    <<0,25,44,79,127,146,-1>>, <<16,26,88,102,115,152,-1>>, <<50,56,97,162,164,171,-1>>,
    <<20,36,72,137,151,168,-1>>, <<15,46,75,129,136,153,-1>>, <<2,23,29,71,103,138,-1>>,
    <<8,39,89,105,133,150,-1>>, <<14,57,59,73,110,149,162>>, <<17,41,78,143,145,151,-1>>,
    <<24,37,64,98,121,159,-1>>, <<16,41,74,128,169,171,-1>>>>

\* How many bits each check has.
ldpcNrw == <<
    7, 6, 6, 6, 7, 6, 7, 6, 6, 7, 6, 6, 7, 7, 6, 6, 6, 7, 6, 7, 6,
    7, 6, 6, 6, 7, 6, 6, 6, 7, 6, 6, 6, 6, 7, 6, 6, 6, 7, 7, 6, 6,
    6, 6, 7, 7, 6, 6, 6, 6, 7, 6, 6, 6, 7, 6, 6, 6, 6, 7, 6, 6, 6,
    7, 6, 6, 6, 7, 7, 6, 6, 7, 6, 6, 6, 6, 6, 6, 6, 7, 6, 6, 6>>

\* The message bits that each check bit of a codeword is the sum of.
ldpcGeneratorHex == <<
    <<\h8329ce, \h11bf31, \heaf509, \hf27fc>>, <<\h761c26, \h4e25c2, \h593354, \h93132>>,
    <<\hdc2659, \h02fb27, \h7c6410, \ha1bdc>>, <<\h1b3f41, \h7858cd, \h2dd33e, \hc7f62>>,
    <<\h09fda4, \hfee041, \h95fd03, \h4783a>>, <<\h077ccc, \hc11b88, \h73ed5c, \h3d48a>>,
    <<\h29b62a, \hfe3ca0, \h36f4fe, \h1a9da>>, <<\h6054fa, \hf5f35d, \h96d3b0, \hc8c3e>>,
    <<\he20798, \he4310e, \hed2788, \h4ae90>>, <<\h775c9c, \h08e80e, \h26ddae, \h56318>>,
    <<\hb0b811, \h028c2b, \hf99721, \h3487c>>, <<\h18a0c9, \h231fc6, \h0adf5c, \h5ea32>>,
    <<\h76471e, \h8302a0, \h721e01, \hb12b8>>, <<\hffbccb, \h80ca83, \h41fafb, \h47b2e>>,
    <<\h66a72a, \h158f93, \h25a2bf, \h67170>>, <<\hc42436, \h89fe85, \hb1c513, \h63a18>>,
    <<\h0dff73, \h9414d1, \ha1b34b, \h1c270>>, <<\h15b488, \h30636c, \h8b9989, \h4972e>>,
    <<\h29a89c, \h0d3de8, \h1d6654, \h89b0e>>, <<\h4f126f, \h37fa51, \hcbe61b, \hd6b94>>,
    <<\h99c472, \h39d0d9, \h7d3c84, \he0940>>, <<\h1919b7, \h511976, \h5621bb, \h4f1e8>>,
    <<\h09db12, \hd731fa, \hee0b86, \hdf6b8>>, <<\h488fc3, \h3df43f, \hbdeea4, \heafb4>>,
    <<\h827423, \hee40b6, \h75f756, \heb5fe>>, <<\habe197, \hc484cb, \h747571, \h44a9a>>,
    <<\h2b500e, \h4bc0ec, \h5a6d2b, \hdbdd0>>, <<\hc474aa, \h53d702, \h187616, \h69360>>,
    <<\h8eba1a, \h13db33, \h90bd67, \h18cec>>, <<\h753844, \h673a27, \h782cc4, \h2012e>>,
    <<\h06ff83, \ha145c3, \h7035a5, \hc1268>>, <<\h3b3741, \h7858cc, \h2dd33e, \hc3f62>>,
    <<\h9a4a5a, \h28ee17, \hca9c32, \h4842c>>, <<\hbc29f4, \h65309c, \h977e89, \h610a4>>,
    <<\h2663ae, \h6ddf8b, \h5ce2bb, \h29488>>, <<\h46f231, \hefe457, \h034c18, \h14418>>,
    <<\h3fb2ce, \h85abe9, \hb0c72e, \h06fbe>>, <<\hde8748, \h1f282c, \h153971, \ha0a2e>>,
    <<\hfcd7cc, \hf23c69, \hfa99bb, \ha1412>>, <<\hf02614, \h47e949, \h0ca8e4, \h74cec>>,
    <<\h441011, \h581819, \h6f95cd, \hd7012>>, <<\h088fc3, \h1df4bf, \hbde2a4, \heafb4>>,
    <<\hb8fef1, \hb63077, \h29fb0a, \h078c0>>, <<\h5afea7, \hacccb7, \h7bbc9d, \h99a90>>,
    <<\h49a701, \h6ac653, \hf65ecd, \hc9076>>, <<\h1944d0, \h85be4e, \h7da8d6, \hcc7d0>>,
    <<\h251f62, \hadc403, \h2f0ee7, \h14002>>, <<\h56471f, \h8702a0, \h721e00, \hb12b8>>,
    <<\h2b8e49, \h23f2dd, \h51e2d5, \h37fa0>>, <<\h6b550a, \h40a66f, \h4755de, \h95c26>>,
    <<\ha18ad2, \h8d4e27, \hfe92a4, \hf6c84>>, <<\h10c2e5, \h86388c, \hb82a3d, \h80758>>,
    <<\hef34a4, \h1817ee, \h02133d, \hb2eb0>>, <<\h7e9c0c, \h54325a, \h9c1583, \h6e000>>,
    <<\h3693e5, \h72d1fd, \he4cdf0, \h79e86>>, <<\hbfb2ce, \hc5abe1, \hb0c72e, \h07fbe>>,
    <<\h7ee182, \h30c583, \hcccc57, \hd4b08>>, <<\ha066cb, \h2fedaf, \hc9f526, \h64126>>,
    <<\hbb2372, \h5abc47, \hcc5f4c, \hc4cd2>>, <<\hded9db, \ha3bee4, \h0c59b5, \h609b4>>,
    <<\hd9a701, \h6ac653, \he6decd, \hc9036>>, <<\h9ad46a, \hed5f70, \h7f280a, \hb5fc4>>,
    <<\he5921c, \h778225, \h87316d, \h7d3c2>>, <<\h4f14da, \h8242a8, \hb86dca, \h73352>>,
    <<\h8b8b50, \h7ad467, \hd4441d, \hf770e>>, <<\h22831c, \h9cf116, \h9467ad, \h04b68>>,
    <<\h213b83, \h8fe2ae, \h54c38e, \he7180>>, <<\h5d926b, \h6dd71f, \h085181, \ha4e12>>,
    <<\h66ab79, \hd4b29e, \he6e695, \h09e56>>, <<\h958148, \h682d74, \h8a38dd, \h68baa>>,
    <<\hb8ce02, \h0cf069, \hc32a72, \h3ab14>>, <<\hf4331d, \h6d4616, \h07e957, \h52746>>,
    <<\h6da23b, \ha424b9, \h596133, \hcf9c8>>, <<\ha636bc, \hbc7b30, \hc5fbea, \he67fe>>,
    <<\h5cb0d8, \h6a07df, \h654a90, \h89a20>>, <<\hf11f10, \h684878, \h0fc9ec, \hdd80a>>,
    <<\h1fbb53, \h64fb8d, \h2c9d73, \h0d5ba>>, <<\hfcb86b, \hc70a50, \hc9d02a, \h5d034>>,
    <<\ha53443, \h3029ea, \hc15f32, \h2e34c>>, <<\hc989d9, \hc7c3d3, \hb8c55d, \h75130>>,
    <<\h7bb38b, \h2f0186, \hd46643, \hae962>>, <<\h2644eb, \hadeb44, \hb9467d, \h1f42c>>,
    <<\h608cc8, \h57594b, \hfbb55d, \h69600>>>>
==============================================================================
